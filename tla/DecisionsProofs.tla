-------------------------- MODULE DecisionsProofs --------------------------
(* The decisions on accumulated data, for any candidates, evidence, hours, *)
(* stores and queries; what is ingested from the public register, for any  *)
(* rows, operators and failures; and what a restore reports, for any       *)
(* users, stores and number of migrations.                                 *)
EXTENDS AppRestore, StoreDecisions, OpeningHours, SearchDecisions,
        CatalogIngestion, FiniteSetTheorems, SequenceTheorems,
        WellFoundedInduction, TLAPS

-----------------------------------------------------------------------------
(* Induction, as a fact about sets *)

\* A set of natural numbers has a least one.
LEMMA LeastElement ==
  ASSUME NEW T \in SUBSET Nat, T # {}
  PROVE  \E n \in T : \A m \in T : n <= m
<1> DEFINE R == {ss \in Nat \X Nat : ss[1] < ss[2]}
<1>1. IsWellFoundedOn(R, Nat)
  BY NatLessThanWellFounded DEF OpToRel
<1>2. PICK n \in T : \A m \in T : ~ (<<m, n>> \in R)
  <2> HIDE DEF R
  <2> QED  BY <1>1, WFMin
<1>3. ASSUME NEW m \in T, m < n PROVE FALSE
  <2>1. <<m, n>> \in Nat \X Nat /\ <<m, n>>[1] = m /\ <<m, n>>[2] = n
    OBVIOUS
  <2>2. <<m, n>> \in R
    BY <2>1, <1>3
  <2> QED  BY <1>2, <2>2
<1> QED  BY <1>3

\* A set with 0 and every successor has all natural numbers.
LEMMA Induction ==
  ASSUME NEW T, 0 \in T, \A n \in Nat : n \in T => n + 1 \in T
  PROVE  Nat \subseteq T
<1> SUFFICES ASSUME Nat \ T # {} PROVE FALSE
  OBVIOUS
<1>1. PICK n \in Nat \ T : \A m \in Nat \ T : n <= m
  BY LeastElement
<1>2. n # 0 /\ n - 1 \in Nat
  BY <1>1
<1>3. n - 1 \in T
  BY <1>1, <1>2
<1>4. (n - 1) + 1 \in T
  BY <1>2, <1>3
<1> QED  BY <1>1, <1>2, <1>4

\* What the empty set has, and a set has if it has it without any element
\* of its own, every finite set has.
LEMMA SubsetInduction ==
  ASSUME NEW S, IsFiniteSet(S), NEW T, {} \in T,
         \A s \in SUBSET S : s # {} /\ (\A x \in s : s \ {x} \in T) => s \in T
  PROVE  SUBSET S \subseteq T
<1> DEFINE N == {n \in Nat :
                   \A s \in SUBSET S : Cardinality(s) <= n => s \in T}
<1>1. \A s \in SUBSET S : IsFiniteSet(s) /\ Cardinality(s) \in Nat
  BY FS_Subset, FS_CardinalityType
<1>2. 0 \in N
  <2>1. ASSUME NEW s \in SUBSET S, Cardinality(s) <= 0 PROVE s \in T
    <3>1. Cardinality(s) = 0
      BY <1>1, <2>1
    <3> QED  BY <1>1, <3>1, FS_EmptySet
  <2> QED  BY <2>1
<1>3. ASSUME NEW n \in Nat, n \in N PROVE n + 1 \in N
  <2>1. ASSUME NEW s \in SUBSET S, Cardinality(s) <= n + 1 PROVE s \in T
    <3>1. ASSUME NEW x \in s PROVE s \ {x} \in T
      <4>1. Cardinality(s \ {x}) = Cardinality(s) - 1
        BY <1>1, FS_RemoveElement
      <4>2. Cardinality(s \ {x}) <= n
        BY <4>1, <2>1, <1>1
      <4> QED  BY <4>2, <1>3
    <3> QED  BY <3>1
  <2> QED  BY <2>1
<1>4. Nat \subseteq N
  <2> HIDE DEF N
  <2> QED  BY <1>2, <1>3, Induction
<1>5. ASSUME NEW s \in SUBSET S PROVE s \in T
  BY <1>1, <1>4
<1> QED  BY <1>5

-----------------------------------------------------------------------------
(* Folds *)

\* What was made of a subset, by what was made of it without one element.
Folded(f, base, pick, op, s) ==
  IF s = {} THEN base ELSE op[<<pick[s], f[s \ {pick[s]}]>>]

\* f is a fold over the subsets of S, in the order that pick gives.
IsFold(f, S, base, pick, op) ==
  \A s \in SUBSET S : f[s] = Folded(f, base, pick, op, s)

Picks(pick, S) == \A s \in SUBSET S : s # {} => pick[s] \in s

\* A recursion over the subsets of a finite set has a solution.
LEMMA FoldExists ==
  ASSUME NEW S, IsFiniteSet(S), NEW base, NEW op, NEW pick, Picks(pick, S)
  PROVE  \E f : IsFold(f, S, base, pick, op)
<1> USE DEF Picks
<1> DEFINE Small(n) == {s \in SUBSET S : Cardinality(s) <= n}
           N == {n \in Nat : \E f :
                   f = [s \in Small(n) |-> Folded(f, base, pick, op, s)]}
<1>1. \A s \in SUBSET S : IsFiniteSet(s) /\ Cardinality(s) \in Nat
  BY FS_Subset, FS_CardinalityType
<1>2. 0 \in N
  <2>1. \A s \in Small(0) : s = {}
    <3>1. ASSUME NEW s \in Small(0) PROVE s = {}
      <4>1. Cardinality(s) = 0
        BY <1>1
      <4> QED  BY <4>1, <1>1, FS_EmptySet
    <3> QED  BY <3>1
  <2> DEFINE f == [s \in Small(0) |-> base]
  <2>2. f = [s \in Small(0) |-> Folded(f, base, pick, op, s)]
    <3>1. \A s \in Small(0) : Folded(f, base, pick, op, s) = base
      BY <2>1 DEF Folded
    <3> QED  BY <3>1
  <2> HIDE DEF f, Small
  <2> QED  BY <2>2
<1>3. ASSUME NEW n \in Nat, n \in N PROVE n + 1 \in N
  <2>1. PICK f : f = [s \in Small(n) |-> Folded(f, base, pick, op, s)]
    BY <1>3
  <2> DEFINE g == [s \in Small(n + 1) |-> IF s \in Small(n) THEN f[s]
                                         ELSE Folded(f, base, pick, op, s)]
  <2>2. ASSUME NEW s \in Small(n + 1)
        PROVE  g[s] = Folded(g, base, pick, op, s)
    <3>1. g[s] = Folded(f, base, pick, op, s)
      BY <2>1
    <3>2. CASE s = {}
      BY <3>1, <3>2 DEF Folded
    <3>3. CASE s # {}
      <4>1. pick[s] \in s
        BY <3>3
      <4>2. Cardinality(s \ {pick[s]}) = Cardinality(s) - 1
        BY <4>1, <1>1, FS_RemoveElement
      <4>3. Cardinality(s) \in Nat /\ Cardinality(s) <= n + 1
        BY <1>1
      <4>4. s \ {pick[s]} \in Small(n) /\ s \ {pick[s]} \in Small(n + 1)
        BY <4>2, <4>3
      <4>5. g[s \ {pick[s]}] = f[s \ {pick[s]}]
        BY <4>4
      <4> HIDE DEF g
      <4> QED  BY <3>1, <4>5 DEF Folded
    <3> QED  BY <3>2, <3>3
  <2>3. g = [s \in Small(n + 1) |-> Folded(g, base, pick, op, s)]
    <3>1. g = [s \in Small(n + 1) |-> g[s]]
      OBVIOUS
    <3> HIDE DEF g, Small
    <3> QED  BY <2>2, <3>1
  <2> HIDE DEF g, Small
  <2> QED  BY <2>3
<1>4. Cardinality(S) \in N
  <2>1. Cardinality(S) \in Nat
    BY FS_CardinalityType
  <2> HIDE DEF N
  <2> QED  BY <1>2, <1>3, <2>1, Induction
<1>5. Small(Cardinality(S)) = SUBSET S
  BY FS_Subset
<1>6. PICK f : f = [s \in SUBSET S |-> Folded(f, base, pick, op, s)]
  BY <1>4, <1>5
<1>7. IsFold(f, S, base, pick, op)
  BY <1>6 DEF IsFold
<1> QED  BY <1>7

\* What a fold returns is of the type that each of its steps keeps.
LEMMA FoldTyped ==
  ASSUME NEW S, IsFiniteSet(S), NEW B, NEW base \in B, NEW op, NEW pick,
         Picks(pick, S), \A x \in S, b \in B : op[<<x, b>>] \in B,
         NEW f, IsFold(f, S, base, pick, op)
  PROVE  \A s \in SUBSET S : f[s] \in B
<1> USE DEF Picks, IsFold
<1> DEFINE T == {s \in SUBSET S : f[s] \in B}
<1>1. {} \in T
  <2>1. f[{}] = Folded(f, base, pick, op, {})
    OBVIOUS
  <2> QED  BY <2>1 DEF Folded
<1>2. ASSUME NEW s \in SUBSET S, s # {}, \A x \in s : s \ {x} \in T
      PROVE  s \in T
  <2>1. pick[s] \in s /\ f[s \ {pick[s]}] \in B
    BY <1>2
  <2>2. f[s] = op[<<pick[s], f[s \ {pick[s]}]>>]
    <3>1. f[s] = Folded(f, base, pick, op, s)
      OBVIOUS
    <3> QED  BY <3>1, <1>2 DEF Folded
  <2> QED  BY <2>1, <2>2
<1>3. SUBSET S \subseteq T
  <2> HIDE DEF T
  <2> QED  BY <1>1, <1>2, SubsetInduction
<1> QED  BY <1>3


-----------------------------------------------------------------------------
(* Recursion along the numbers, and along a sequence *)

\* f starts with base and goes on by op, up to n.
IsRecursion(f, n, base, op) ==
  f[0] = base /\ \A i \in 1..n : f[i] = op[<<i, f[i - 1]>>]

\* A recursion with values of one type has a solution of that type.
LEMMA RecursionExists ==
  ASSUME NEW N \in Nat, NEW B, NEW base \in B, NEW op \in [(1..N) \X B -> B]
  PROVE  \E f \in [0..N -> B] : IsRecursion(f, N, base, op)
<1> DEFINE T == {n \in Nat : n <= N =>
                   \E f \in [0..n -> B] : IsRecursion(f, n, base, op)}
<1>1. 0 \in T
  <2> DEFINE f == [i \in 0..0 |-> base]
  <2>1. f \in [0..0 -> B] /\ IsRecursion(f, 0, base, op)
    BY DEF IsRecursion
  <2> QED  BY <2>1
<1>2. ASSUME NEW n \in Nat, n \in T, n + 1 <= N PROVE n + 1 \in T
  <2>1. PICK f \in [0..n -> B] : IsRecursion(f, n, base, op)
    BY <1>2
  <2> DEFINE g == [i \in 0..n + 1 |->
                     IF i = n + 1 THEN op[<<n + 1, f[n]>>] ELSE f[i]]
  <2>2. op[<<n + 1, f[n]>>] \in B
    <3>1. f[n] \in B /\ n + 1 \in 1..N
      BY <1>2
    <3>2. <<n + 1, f[n]>> \in (1..N) \X B
      BY <3>1
    <3> QED  BY <3>2
  <2>3. g \in [0..n + 1 -> B]
    BY <2>2
  <2>4. \A i \in 1..n + 1 : g[i] = op[<<i, g[i - 1]>>]
    <3>1. ASSUME NEW i \in 1..n + 1 PROVE g[i] = op[<<i, g[i - 1]>>]
      <4>1. g[i - 1] = f[i - 1]
        OBVIOUS
      <4>2. CASE i = n + 1
        <5>1. i - 1 = n /\ g[i] = op[<<n + 1, f[n]>>]
          BY <4>2
        <5> HIDE DEF g
        <5> QED  BY <4>1, <4>2, <5>1
      <4>3. CASE i # n + 1
        BY <4>1, <4>3, <2>1 DEF IsRecursion
      <4> QED  BY <4>2, <4>3
    <3> QED  BY <3>1
  <2>5. g[0] = base
    BY <2>1 DEF IsRecursion
  <2>6. IsRecursion(g, n + 1, base, op)
    <3> HIDE DEF g
    <3> QED  BY <2>4, <2>5 DEF IsRecursion
  <2> HIDE DEF g
  <2> QED  BY <2>3, <2>6
<1>3. N \in T
  <2>1. \A n \in Nat : n \in T => n + 1 \in T
    <3>1. ASSUME NEW n \in Nat, n \in T PROVE n + 1 \in T
      <4>1. CASE n + 1 <= N
        BY <3>1, <4>1, <1>2
      <4>2. CASE ~ (n + 1 <= N)
        BY <4>2
      <4> QED  BY <4>1, <4>2
    <3> QED  BY <3>1
  <2> HIDE DEF T
  <2> QED  BY <1>1, <2>1, Induction
<1> QED  BY <1>3

\* The pages put together one after the other.
LEMMA FlattenPrefixes ==
  ASSUME NEW S, NEW seqs \in Seq(Seq(S))
  PROVE  \E flat \in [0..Len(seqs) -> Seq(S)] :
           /\ flat[0] = << >> /\ flat[Len(seqs)] = FlattenSeq(seqs)
           /\ \A i \in 1..Len(seqs) : flat[i] = flat[i - 1] \o seqs[i]
<1> DEFINE N == Len(seqs)
           B == Seq(S)
           Iter(f) == [i \in 1..N |-> IF i = 1 THEN seqs[i]
                                      ELSE f[i - 1] \o seqs[i]]
           flatten == CHOOSE f : f = Iter(f)
<1>1. N \in Nat /\ \A i \in 1..N : seqs[i] \in B
  OBVIOUS
<1> DEFINE op == [x \in (1..N) \X B |-> x[2] \o seqs[x[1]]]
<1>2. op \in [(1..N) \X B -> B]
  <2>1. \A x \in (1..N) \X B : x[2] \o seqs[x[1]] \in B
    BY <1>1, ConcatProperties
  <2> QED  BY <2>1
<1>3. \A i \in 1..N, b \in B : op[<<i, b>>] = b \o seqs[i]
  OBVIOUS
<1>4. PICK g \in [0..N -> B] : IsRecursion(g, N, << >>, op)
  <2>1. << >> \in B
    OBVIOUS
  <2> HIDE DEF op, B, N
  <2> QED  BY <1>1, <1>2, <2>1, RecursionExists
<1>5. g[0] = << >> /\ \A i \in 1..N : g[i] = g[i - 1] \o seqs[i]
  <2>1. g[0] = << >> /\ \A i \in 1..N : g[i] = op[<<i, g[i - 1]>>]
    BY <1>4 DEF IsRecursion
  <2>2. \A i \in 1..N : i - 1 \in 0..N
    BY <1>1
  <2> HIDE DEF op, B, N
  <2> QED  BY <1>3, <1>4, <2>1, <2>2
<1>6. g[N] = FlattenSeq(seqs)
  <2>1. CASE N = 0
    BY <1>5, <2>1 DEF FlattenSeq
  <2>2. CASE N # 0
    <3>1. FlattenSeq(seqs) = flatten[N]
      BY <2>2 DEF FlattenSeq
    <3> DEFINE h == [i \in 1..N |-> g[i]]
    <3>2. h = Iter(h)
      <4>1. ASSUME NEW i \in 1..N
            PROVE  h[i] = IF i = 1 THEN seqs[i] ELSE h[i - 1] \o seqs[i]
        <5>1. h[i] = g[i - 1] \o seqs[i]
          BY <1>5
        <5>2. CASE i = 1
          <6>1. g[i - 1] = << >>
            BY <5>2, <1>5
          <6> QED  BY <5>1, <5>2, <6>1, <1>1, ConcatEmptySeq
        <5>3. CASE i # 1
          <6>1. i - 1 \in 1..N
            BY <5>3, <1>1
          <6>2. h[i - 1] = g[i - 1]
            BY <6>1
          <6> HIDE DEF h
          <6> QED  BY <5>1, <5>3, <6>2
        <5> QED  BY <5>2, <5>3
      <4>2. h = [i \in 1..N |-> h[i]]
        OBVIOUS
      <4> HIDE DEF h, N
      <4> QED  BY <4>1, <4>2
    <3>3. flatten = Iter(flatten)
      <4> HIDE DEF N, h
      <4> QED  BY <3>2, Zenon
    <3> DEFINE T == {n \in Nat : n \in 1..N => flatten[n] = g[n]}
    <3>4. \A i \in 1..N : flatten[i] = IF i = 1 THEN seqs[i]
                                      ELSE flatten[i - 1] \o seqs[i]
      <4> HIDE DEF flatten, N
      <4> QED  BY <3>3
    <3>5. \A i \in 1..N : h[i] = IF i = 1 THEN seqs[i]
                                ELSE h[i - 1] \o seqs[i]
      <4> HIDE DEF h, N
      <4> QED  BY <3>2
    <3>6. \A i \in 1..N : h[i] = g[i]
      OBVIOUS
    <3> HIDE DEF flatten, h
    <3>7. 0 \in T
      OBVIOUS
    <3>8. ASSUME NEW n \in Nat, n \in T, n + 1 \in 1..N
          PROVE  flatten[n + 1] = g[n + 1]
      <4>1. CASE n = 0
        BY <3>4, <3>5, <3>6, <3>8, <4>1
      <4>2. CASE n # 0
        <5>1. n \in 1..N /\ (n + 1) - 1 = n /\ n + 1 # 1
          BY <3>8, <4>2, <1>1
        <5>2. flatten[n] = h[n]
          BY <3>6, <3>8, <5>1
        <5> HIDE DEF N, T
        <5> QED  BY <3>4, <3>5, <3>6, <3>8, <5>1, <5>2
      <4> QED  BY <4>1, <4>2
    <3>9. N \in T
      <4>1. \A n \in Nat : n \in T => n + 1 \in T
        BY <3>8
      <4> HIDE DEF T
      <4> QED  BY <3>7, <4>1, <1>1, Induction
    <3> HIDE DEF N
    <3> QED  BY <3>1, <3>9, <2>2, <1>1
  <2> QED  BY <2>1, <2>2
<1> QED  BY <1>4, <1>5, <1>6

\* The rows of pages put together: a sequence of rows, of every row of every
\* page and of no other, and no longer than its pages can be.
LEMMA FlattenIs ==
  ASSUME NEW S, NEW seqs \in Seq(Seq(S))
  PROVE  /\ FlattenSeq(seqs) \in Seq(S)
         /\ \A m \in 1..Len(seqs) : \A i \in 1..Len(seqs[m]) :
              seqs[m][i] \in Range(FlattenSeq(seqs))
         /\ \A r \in Range(FlattenSeq(seqs)) :
              \E m \in 1..Len(seqs) : \E i \in 1..Len(seqs[m]) :
                r = seqs[m][i]
         /\ \A size \in Nat :
              (\A m \in 1..Len(seqs) : Len(seqs[m]) <= size) =>
                 Len(FlattenSeq(seqs)) <= Len(seqs) * size
<1> DEFINE N == Len(seqs)
<1>1. N \in Nat /\ \A i \in 1..N : seqs[i] \in Seq(S)
  OBVIOUS
<1>2. PICK flat \in [0..N -> Seq(S)] :
        /\ flat[0] = << >> /\ flat[N] = FlattenSeq(seqs)
        /\ \A i \in 1..N : flat[i] = flat[i - 1] \o seqs[i]
  BY FlattenPrefixes
<1> DEFINE Whole(k) ==
      /\ \A m \in 1..k : \A i \in 1..Len(seqs[m]) :
           seqs[m][i] \in Range(flat[k])
      /\ \A r \in Range(flat[k]) :
           \E m \in 1..k : \E i \in 1..Len(seqs[m]) : r = seqs[m][i]
      /\ \A size \in Nat :
           (\A m \in 1..N : Len(seqs[m]) <= size) => Len(flat[k]) <= k * size
           T == {n \in Nat : n \in 0..N => Whole(n)}
<1>3. \A s \in Seq(S) : Range(s) = {s[i] : i \in 1..Len(s)}
  BY RangeEquality
<1>4. 0 \in T
  <2>1. flat[0] \in Seq(S) /\ Len(flat[0]) = 0
    BY <1>1, <1>2
  <2>2. Range(flat[0]) = {}
    BY <1>3, <2>1
  <2> QED  BY <2>1, <2>2
<1>5. ASSUME NEW n \in Nat, n \in T, n + 1 \in 1..N PROVE Whole(n + 1)
  <2>1. Whole(n) /\ flat[n] \in Seq(S) /\ n \in 0..N
    <3>1. n \in 0..N
      BY <1>1, <1>5
    <3> HIDE DEF N, Whole
    <3> QED  BY <1>2, <1>5, <3>1
  <2>2. flat[n + 1] = flat[n] \o seqs[n + 1] /\ seqs[n + 1] \in Seq(S)
    <3>1. (n + 1) - 1 = n
      OBVIOUS
    <3> HIDE DEF N, Whole, T
    <3> QED  BY <1>1, <1>2, <1>5, <3>1
  <2>3. flat[n + 1] \in Seq(S)
        /\ Len(flat[n + 1]) = Len(flat[n]) + Len(seqs[n + 1])
    BY <2>1, <2>2, ConcatProperties
  <2>4. Range(flat[n + 1]) = Range(flat[n]) \cup Range(seqs[n + 1])
    BY <2>1, <2>2, RangeConcatenation
  <2>5. Range(seqs[n + 1])
          = {seqs[n + 1][i] : i \in 1..Len(seqs[n + 1])}
    BY <2>2, <1>3
  <2>6. \A m \in 1..n + 1 : m \in 1..n \/ m = n + 1
    OBVIOUS
  <2>7. \A m \in 1..n : m \in 1..n + 1
    OBVIOUS
  <2>8. ASSUME NEW size \in Nat,
               \A m \in 1..N : Len(seqs[m]) <= size
        PROVE  Len(flat[n + 1]) <= (n + 1) * size
    <3> DEFINE a == n * size
               b == (n + 1) * size
    <3>1. Len(flat[n]) <= a /\ Len(seqs[n + 1]) <= size
      <4> HIDE DEF N
      <4> QED  BY <2>1, <2>8, <1>5
    <3>2. b = a + size /\ a \in Nat /\ b \in Nat
      OBVIOUS
    <3>3. Len(flat[n]) \in Nat /\ Len(seqs[n + 1]) \in Nat
      BY <2>1, <2>2
    <3>4. Len(flat[n + 1]) <= b
      <4>1. \A x, y, u, v \in Nat : x <= u /\ y <= v => x + y <= u + v
        OBVIOUS
      <4> HIDE DEF a, b, N, Whole, T
      <4>2. Len(flat[n]) + Len(seqs[n + 1]) <= a + size
        BY <3>1, <3>2, <3>3, <4>1
      <4> QED  BY <4>2, <3>2, <2>3
    <3> QED  BY <3>4
  <2>9. \A m \in 1..n + 1 : \A i \in 1..Len(seqs[m]) :
          seqs[m][i] \in Range(flat[n + 1])
    BY <2>1, <2>4, <2>5, <2>6
  <2>10. \A r \in Range(flat[n + 1]) :
           \E m \in 1..n + 1 : \E i \in 1..Len(seqs[m]) : r = seqs[m][i]
    <3>1. n + 1 \in 1..n + 1
      OBVIOUS
    <3> QED  BY <2>1, <2>4, <2>5, <2>7, <3>1
  <2> QED  BY <2>3, <2>8, <2>9, <2>10
<1>6. N \in T
  <2>1. \A n \in Nat : n \in T => n + 1 \in T
    <3> HIDE DEF Whole
    <3> QED  BY <1>1, <1>5
  <2> HIDE DEF T
  <2> QED  BY <1>1, <1>4, <2>1, Induction
<1>7. Whole(N) /\ flat[N] \in Seq(S)
  <2> HIDE DEF Whole
  <2> QED  BY <1>1, <1>2, <1>6
<1> QED  BY <1>2, <1>7

-----------------------------------------------------------------------------
(* deduplicateStores *)

\* Sets of candidates, none of them empty, that leave no candidate out.
Covers(cs) == {P \in SUBSET ((SUBSET cs) \ {{}}) : UNION P = cs}

\* Joining two groups leaves no candidate out.
LEMMA UnionCovers ==
  ASSUME NEW cs, NEW l \in cs, NEW r \in cs, NEW P \in Covers(cs)
  PROVE  union(<<l, r>>, P) \in Covers(cs)
<1> DEFINE pair == <<l, r>>
           joined == {g \in P : pair[1] \in g \/ pair[2] \in g}
<1>1. pair[1] = l
  OBVIOUS
<1>2. UNION joined \subseteq cs /\ UNION joined # {}
  BY <1>1 DEF Covers
<1>3. union(pair, P) \subseteq (SUBSET cs) \ {{}}
  BY <1>2 DEF union, Covers
<1>4. UNION union(pair, P) = cs
  <2>1. union(pair, P) = (P \ joined) \cup {UNION joined}
    BY DEF union
  <2>2. UNION P = cs /\ joined \subseteq P
    BY DEF Covers
  <2>3. \A c \in UNION P : \E g \in union(pair, P) : c \in g
    <3>1. ASSUME NEW g \in P, NEW c \in g
          PROVE  \E k \in union(pair, P) : c \in k
      <4>1. CASE g \in joined
        <5>1. c \in UNION joined
          BY <4>1
        <5> QED  BY <5>1, <2>1
      <4>2. CASE g \notin joined
        BY <4>2, <2>1
      <4> QED  BY <4>1, <4>2
    <3> QED  BY <3>1
  <2>4. \A g \in union(pair, P) : g \subseteq cs
    BY <1>3
  <2> QED  BY <2>2, <2>3, <2>4
<1> QED  BY <1>3, <1>4 DEF Covers

\* Every group is a nonempty set of candidates, and there are finitely many.
LEMMA GroupsCover ==
  ASSUME NEW cs, IsFiniteSet(cs)
  PROVE  Groups(cs) \in Covers(cs) /\ IsFiniteSet(Groups(cs))
<1> DEFINE S == MergedPairs(cs)
           base == {{c} : c \in cs}
           B == Covers(cs)
           pick == [s \in SUBSET S |-> CHOOSE x \in s : TRUE]
           op == [xb \in S \X B |-> union(xb[1], xb[2])]
           Iter(f) == [s \in SUBSET S |->
             IF s = {} THEN base
             ELSE union((CHOOSE x \in s : TRUE),
                        f[s \ {CHOOSE x \in s : TRUE}])]
           iter == CHOOSE f : f = Iter(f)
<1>1. IsFiniteSet(S)
  <2>1. IsFiniteSet(cs \X cs)
    BY FS_Product
  <2> QED  BY <2>1, FS_Subset DEF MergedPairs
<1>2. base \in B
  BY DEF Covers
<1>3. Picks(pick, S)
  BY DEF Picks
<1>4. \A x \in S, b \in B : op[<<x, b>>] = union(x, b) /\ union(x, b) \in B
  <2>1. ASSUME NEW x \in S, NEW b \in B
        PROVE  op[<<x, b>>] = union(x, b) /\ union(x, b) \in B
    <3>1. PICK l \in cs, r \in cs : x = <<l, r>>
      BY DEF MergedPairs
    <3>2. union(x, b) \in B
      <4> HIDE DEF op, pick, iter, base
      <4> QED  BY <3>1, UnionCovers
    <3>3. <<x, b>> \in S \X B /\ <<x, b>>[1] = x /\ <<x, b>>[2] = b
      OBVIOUS
    <3>4. op[<<x, b>>] = union(<<x, b>>[1], <<x, b>>[2])
      BY <3>3
    <3> QED  BY <3>2, <3>3, <3>4
  <2> QED  BY <2>1
<1>5. PICK k : IsFold(k, S, base, pick, op)
  <2> HIDE DEF S, base, op, pick, B, Iter, iter
  <2> QED  BY <1>1, <1>3, FoldExists
<1>6. \A s \in SUBSET S : k[s] \in B
  <2> HIDE DEF S, base, op, pick, B, Iter, iter
  <2>1. \A x \in S, b \in B : op[<<x, b>>] \in B
    BY <1>4
  <2> QED  BY <1>1, <1>2, <1>3, <2>1, <1>5, FoldTyped
<1> DEFINE h == [s \in SUBSET S |-> k[s]]
<1>7. h = Iter(h)
  <2>1. ASSUME NEW s \in SUBSET S
        PROVE  h[s] = IF s = {} THEN base
                      ELSE union((CHOOSE x \in s : TRUE),
                                 h[s \ {CHOOSE x \in s : TRUE}])
    <3>1. h[s] = Folded(k, base, pick, op, s)
      BY <1>5 DEF IsFold
    <3>2. CASE s = {}
      BY <3>1, <3>2 DEF Folded
    <3>3. CASE s # {}
      <4>1. pick[s] = CHOOSE x \in s : TRUE
        OBVIOUS
      <4>2. pick[s] \in S /\ k[s \ {pick[s]}] \in B
            /\ h[s \ {pick[s]}] = k[s \ {pick[s]}]
        <5> HIDE DEF pick
        <5> QED  BY <3>3, <1>3, <1>6 DEF Picks
      <4>3. h[s] = op[<<pick[s], k[s \ {pick[s]}]>>]
        BY <3>1, <3>3 DEF Folded
      <4>4. h[s] = union(pick[s], h[s \ {pick[s]}])
        <5> HIDE DEF op, pick, h
        <5> QED  BY <4>2, <4>3, <1>4
      <4> HIDE DEF pick, h
      <4> QED  BY <3>3, <4>1, <4>4
    <3> QED  BY <3>2, <3>3
  <2>2. h = [s \in SUBSET S |-> h[s]]
    OBVIOUS
  <2> HIDE DEF S, base, op, pick, h
  <2> QED  BY <2>1, <2>2
<1>8. iter = Iter(iter)
  <2> HIDE DEF S, base, h
  <2> QED  BY <1>7, Zenon
<1>9. Groups(cs) = iter[S]
  BY DEF Groups, FoldSet, MapThenFoldSet
<1> DEFINE T == {s \in SUBSET S : iter[s] \in B}
<1>11. {} \in T
  <2> HIDE DEF iter, base, S
  <2> QED  BY <1>2, <1>8
<1>12. ASSUME NEW s \in SUBSET S, s # {}, \A x \in s : s \ {x} \in T
       PROVE  s \in T
  <2>1. iter[s] = union(pick[s], iter[s \ {pick[s]}])
    <3> HIDE DEF iter, S, base
    <3> QED  BY <1>8, <1>12
  <2>2. pick[s] \in S /\ iter[s \ {pick[s]}] \in B
    <3> HIDE DEF iter, base, pick
    <3> QED  BY <1>3, <1>12 DEF Picks
  <2> HIDE DEF iter, pick, base, op
  <2> QED  BY <2>1, <2>2, <1>4
<1>13. SUBSET S \subseteq T
  <2> HIDE DEF T, S
  <2> QED  BY <1>1, <1>11, <1>12, SubsetInduction
<1>14. Groups(cs) \in Covers(cs)
  <2> HIDE DEF iter, S
  <2> QED  BY <1>9, <1>13
<1>15. IsFiniteSet(Groups(cs))
  <2>1. IsFiniteSet(SUBSET cs)
    BY FS_SUBSET
  <2>2. Groups(cs) \in SUBSET (SUBSET cs)
    BY <1>14 DEF Covers
  <2> QED  BY <2>1, <2>2, FS_Subset
<1> QED  BY <1>14, <1>15

-----------------------------------------------------------------------------
(* The candidates and their stores *)

Status == {"active", "inactive", "unknown"}

\* Candidates are numbered one by one, and their status is one of the three.
StoresInv ==
  /\ IsFiniteSet(candidates)
  /\ \A c \in candidates :
       c.number \in 1..Cardinality(candidates) /\ c.status \in Status
  /\ \A c, d \in candidates : c.number = d.number => c = d

\* However candidates and evidence accumulate.
LEMMA StoresInvHolds == StoresSpec => []StoresInv
<1>1. StoresInit => StoresInv
  BY FS_EmptySet DEF StoresInit, StoresInv
<1>2. ASSUME StoresInv, [StoresNext]_storeVars PROVE StoresInv'
  <2>1. ASSUME NEW f \in CandidateFacts, AddCandidate(f) PROVE StoresInv'
    <3> DEFINE n == Cardinality(candidates)
               new == [number |-> n + 1, address |-> f.address, at |-> f.at,
                       phone |-> f.phone, name |-> f.name,
                       brand |-> f.brand, status |-> f.status]
    <3>1. n \in Nat
      BY <1>2, FS_CardinalityType DEF StoresInv
    <3>2. candidates' = candidates \cup {new}
      BY <2>1 DEF AddCandidate
    <3>3. new.number = n + 1 /\ new.status \in Status
      BY StoresAssumption DEF StoresAssumption, Status
    <3> HIDE DEF new
    <3>4. new \notin candidates
      BY <1>2, <3>1, <3>3 DEF StoresInv
    <3>5. IsFiniteSet(candidates') /\ Cardinality(candidates') = n + 1
      BY <1>2, <3>2, <3>4, FS_AddElement DEF StoresInv
    <3>6. \A c \in candidates :
            c.number \in 1..n /\ c.number \in 1..n + 1 /\ c.number # n + 1
      BY <1>2, <3>1 DEF StoresInv
    <3>7. n + 1 \in 1..n + 1
      BY <3>1
    <3> HIDE DEF n
    <3> QED  BY <1>2, <3>2, <3>3, <3>5, <3>6, <3>7 DEF StoresInv
  <2>2. ASSUME NEW e \in Evidence, AddEvidence(e) PROVE StoresInv'
    BY <1>2, <2>2 DEF AddEvidence, StoresInv
  <2>3. CASE UNCHANGED storeVars
    BY <1>2, <2>3 DEF storeVars, StoresInv
  <2> QED  BY <1>2, <2>1, <2>2, <2>3 DEF StoresNext
<1> QED  BY <1>1, <1>2, PTL DEF StoresSpec

\* A store is made of a group, and its status is that of a candidate.
LEMMA StoreOfGroup ==
  ASSUME StoresInv, NEW s \in Stores
  PROVE  /\ \E g \in SUBSET candidates :
              s = buildCanonicalStore(g, candidates)
         /\ s.status \in Status
<1>1. Groups(candidates) \in Covers(candidates)
  BY GroupsCover DEF StoresInv
<1>2. PICK g \in Groups(candidates) : s = buildCanonicalStore(g, candidates)
  BY DEF Stores, deduplicateStores
<1>3. g \subseteq candidates /\ g # {}
  BY <1>1 DEF Covers
<1> DEFINE least == Min(Numbers(g))
           primary == CHOOSE c \in g : c.number = least
<1>4. Numbers(g) \subseteq Nat /\ Numbers(g) # {}
  <2>1. \A c \in g : c.number \in Nat
    BY <1>3, FS_CardinalityType DEF StoresInv
  <2> QED  BY <1>3, <2>1 DEF Numbers
<1>5. least \in Numbers(g)
  <2>1. \E n \in Numbers(g) : \A m \in Numbers(g) : n <= m
    BY <1>4, LeastElement
  <2> QED  BY <2>1 DEF Min
<1>6. primary \in g
  <2>1. \E c \in g : c.number = least
    BY <1>5 DEF Numbers
  <2> HIDE DEF least
  <2> QED  BY <2>1
<1>7. s.status = primary.status
  BY <1>2 DEF buildCanonicalStore
<1>8. s.status \in Status
  <2> HIDE DEF primary
  <2> QED  BY <1>3, <1>6, <1>7 DEF StoresInv
<1> QED  BY <1>2, <1>3, <1>8

\* There are finitely many stores.
LEMMA StoresFinite ==
  ASSUME StoresInv
  PROVE  IsFiniteSet(Stores)
<1> DEFINE groups == Groups(candidates)
           f == [g \in groups |-> buildCanonicalStore(g, candidates)]
<1>1. IsFiniteSet(groups)
  BY GroupsCover DEF StoresInv
<1>2. Stores = {buildCanonicalStore(g, candidates) : g \in groups}
  BY DEF Stores, deduplicateStores
<1>3. f \in Surjection(groups, Stores)
  <2> HIDE DEF groups
  <2> QED  BY <1>2 DEF Surjection
<1> HIDE DEF groups, f
<1> QED  BY <1>1, <1>3, FS_Surjection

-----------------------------------------------------------------------------
(* The decisions on brands *)

\* What a brand that is eligible has been found to be.
LEMMA EligibleBrand ==
  ASSUME StoresInv, NEW stores \in SUBSET Stores, NEW e,
         classifyEligibility(stores, e) = "eligible"
  PROVE  /\ Cardinality(stores) < ChainLimit
         /\ StoreNumbers(stores) = e.numbers
         /\ e.admin = "approved"
         /\ \A s \in stores : /\ s.status = "active" /\ s.at # NoPosition
                              /\ s.merge # "admin_review"
<1>1. ~Excluded(stores, e) /\ ~InDoubt(stores, e)
  BY DEF classifyEligibility
<1>2. ChainLimit \in Nat
  BY StoresAssumption DEF StoresAssumption, EligibilityAssumption
<1>3. Cardinality(stores) \in Nat
  BY StoresFinite, FS_Subset, FS_CardinalityType
<1>4. Cardinality(stores) < ChainLimit
  BY <1>1, <1>2, <1>3 DEF Excluded
<1>5. StoreNumbers(stores) = e.numbers /\ e.admin = "approved"
  BY <1>1 DEF InDoubt, hasCompleteBrandMembership
<1>6. ASSUME NEW s \in stores
      PROVE  /\ s.status = "active" /\ s.at # NoPosition
             /\ s.merge # "admin_review"
  <2>1. s.status \in Status
    BY StoreOfGroup
  <2>2. s.status # "inactive" /\ ~Unresolved(s)
    BY <1>1 DEF Excluded, InDoubt
  <2> QED  BY <2>1, <2>2 DEF Unresolved, Status
<1> QED  BY <1>4, <1>5, <1>6

\* What a brand is put together from.
LEMMA BrandFields ==
  ASSUME NEW stores, NEW e
  PROVE  /\ Brand(stores, e).key = e.key
         /\ Brand(stores, e).stores = stores
         /\ Brand(stores, e).status = classifyEligibility(stores, e)
BY DEF Brand

\* A store without evidence is not eligible.
LEMMA UnassignedWaits ==
  ASSUME StoresInv, NEW s \in Stores
  PROVE  Brand({s}, evidenceForUnassignedStore(s)).status # "eligible"
<1> DEFINE e == evidenceForUnassignedStore(s)
<1>1. e.admin = "pending"
  BY DEF evidenceForUnassignedStore
<1> HIDE DEF e
<1>2. classifyEligibility({s}, e) # "eligible"
  BY <1>1, EligibleBrand
<1> QED  BY <1>2, BrandFields DEF e

\* Whatever the evidence, no store of which a candidate may be another store
\* as well is published (classify-eligibility.ts): the candidate that is in
\* doubt holds back the whole store it was merged into.
THEOREM DoubtHoldsBack == StoresSpec => []DoubtHoldsStoreBack
<1>1. ASSUME StoresInv PROVE DoubtHoldsStoreBack
  <2> SUFFICES ASSUME NEW l \in candidates, NEW r \in candidates, l # r,
                      MatchOf(l, r) = "admin_review",
                      NEW s \in Stores, l.number \in s.numbers,
                      NEW b \in classifyBrands(Stores, {Perfect(s)}),
                      s \in b.stores, b.status = "eligible"
               PROVE  FALSE
    BY DEF DoubtHoldsStoreBack
  <2>1. PICK g \in SUBSET candidates : s = buildCanonicalStore(g, candidates)
    BY <1>1, StoreOfGroup
  <2>2. l \in g
    <3>1. s.numbers = Numbers(g)
      BY <2>1 DEF buildCanonicalStore
    <3>2. PICK c \in g : c.number = l.number
      BY <3>1 DEF Numbers
    <3> QED  BY <1>1, <3>2 DEF StoresInv
  <2>3. s.merge = "admin_review"
    <3>1. InReview(g, candidates)
      BY <2>2 DEF InReview
    <3> QED  BY <2>1, <3>1 DEF buildCanonicalStore
  <2>4. ASSUME NEW e, b = Brand(BrandStores(Stores, e), e) PROVE FALSE
    <3>1. BrandStores(Stores, e) \in SUBSET Stores
      BY DEF BrandStores
    <3>2. classifyEligibility(BrandStores(Stores, e), e) = "eligible"
      BY <2>4, BrandFields
    <3>3. s \in BrandStores(Stores, e)
      BY <2>4, BrandFields
    <3> QED  BY <1>1, <2>3, <3>1, <3>2, <3>3, EligibleBrand
  <2>5. ASSUME NEW t \in Stores,
               b = Brand({t}, evidenceForUnassignedStore(t))
        PROVE  FALSE
    BY <1>1, <2>5, UnassignedWaits
  <2> QED  BY <2>4, <2>5 DEF classifyBrands
<1> QED  BY <1>1, StoresInvHolds, PTL

\* Whatever candidates and evidence accumulate, a brand that is published has
\* every branch of its names, each of them trading and on the map, and no
\* branch is decided on twice (classify-eligibility.ts).
THEOREM EligibleIsWhole == StoresSpec => []EligibleIsWholeBrand
<1>1. ASSUME StoresInv PROVE EligibleIsWholeBrand
  <2> DEFINE brands == classifyBrands(Stores, evidence)
  <2> SUFFICES ASSUME EvidenceAccepted(Stores, evidence),
                      NEW b \in brands, b.status = "eligible"
               PROVE  /\ \A s \in Stores :
                           (\E t \in b.stores : t.brand = s.brand)
                             => s \in b.stores
                      /\ Cardinality(b.stores) < ChainLimit
                      /\ \E e \in evidence :
                           e.key = b.key /\ StoreNumbers(b.stores) = e.numbers
                      /\ \A s \in b.stores :
                           s.status = "active" /\ s.at # NoPosition
                      /\ \A other \in brands :
                           other # b => other.stores \cap b.stores = {}
    BY DEF EligibleIsWholeBrand
  <2>1. PICK e \in evidence : b = Brand(BrandStores(Stores, e), e)
    <3>1. ASSUME NEW s \in Stores,
                 b = Brand({s}, evidenceForUnassignedStore(s))
          PROVE  FALSE
      BY <1>1, <3>1, UnassignedWaits
    <3> QED  BY <3>1 DEF classifyBrands
  <2> DEFINE mine == BrandStores(Stores, e)
  <2>2. /\ b.key = e.key /\ b.stores = mine
        /\ classifyEligibility(mine, e) = "eligible"
    BY <2>1, BrandFields
  <2>3. mine \in SUBSET Stores
    BY DEF BrandStores
  <2>4. \A s \in Stores : (\E t \in mine : t.brand = s.brand) => s \in mine
    BY DEF BrandStores
  <2>5. /\ Cardinality(mine) < ChainLimit /\ StoreNumbers(mine) = e.numbers
        /\ \A s \in mine : s.status = "active" /\ s.at # NoPosition
    <3> HIDE DEF mine
    <3> QED  BY <1>1, <2>2, <2>3, EligibleBrand
  <2>6. ASSUME NEW other \in brands, other # b
        PROVE  other.stores \cap mine = {}
    <3>1. ASSUME NEW f \in evidence, other = Brand(BrandStores(Stores, f), f)
          PROVE  other.stores \cap mine = {}
      <4>1. f # e
        BY <2>1, <2>6, <3>1
      <4>2. other.stores = BrandStores(Stores, f)
        BY <3>1, BrandFields
      <4> QED  BY <4>1, <4>2 DEF EvidenceAccepted
    <3>2. ASSUME NEW s \in Stores \ Assigned(Stores, evidence),
                 other = Brand({s}, evidenceForUnassignedStore(s))
          PROVE  other.stores \cap mine = {}
      <4>1. other.stores = {s}
        BY <3>2, BrandFields
      <4>2. s \notin mine
        BY DEF Assigned
      <4> QED  BY <4>1, <4>2
    <3> HIDE DEF mine
    <3> QED  BY <3>1, <3>2 DEF classifyBrands
  <2> HIDE DEF mine, brands
  <2> QED  BY <2>2, <2>4, <2>5, <2>6
<1> QED  BY <1>1, StoresInvHolds, PTL

-----------------------------------------------------------------------------
(* Opening hours *)

\* The hours of a store are those that validateBusinessHours has passed.
HoursInv == hours \subseteq Interval /\ validateBusinessHours(hours)

\* However the intervals of a store accumulate.
LEMMA HoursInvHolds == HoursSpec => []HoursInv
<1>1. HoursInit => HoursInv
  BY DEF HoursInit, HoursInv, validateBusinessHours
<1>2. HoursInv /\ [HoursNext]_hours => HoursInv'
  BY DEF HoursInv, HoursNext, AddInterval
<1> QED  BY <1>1, <1>2, PTL DEF HoursSpec

\* The rest of less than twice a divisor.
LEMMA WrapsOnce ==
  ASSUME NEW n \in Nat \ {0}, NEW u \in Nat, u < 2 * n
  PROVE  u % n = IF u < n THEN u ELSE u - n
OBVIOUS

\* Minutes are counted from the day on, and no day has more than its own.
LEMMA DayMinute ==
  ASSUME NEW a \in Int, NEW b \in Int,
         NEW x \in 0..MinutesPerDay - 1, NEW y \in 0..MinutesPerDay - 1
  PROVE  a * MinutesPerDay + x < b * MinutesPerDay + y
           <=> a < b \/ (a = b /\ x < y)
<1> DEFINE p == a * MinutesPerDay
           q == b * MinutesPerDay
<1>1. MinutesPerDay \in Nat \ {0}
  BY RecommendationAssumption DEF RecommendationAssumption
<1>2. \A i, j \in Int :
        i < j => i * MinutesPerDay + MinutesPerDay <= j * MinutesPerDay
  <2>1. ASSUME NEW i \in Int, NEW j \in Int, i < j
        PROVE  i * MinutesPerDay + MinutesPerDay <= j * MinutesPerDay
    <3>1. j * MinutesPerDay = i * MinutesPerDay + (j - i) * MinutesPerDay
      BY <1>1
    <3>2. (j - i) * MinutesPerDay >= MinutesPerDay
      <4>1. j - i \in Nat \ {0}
        BY <2>1
      <4> QED  BY <1>1, <4>1
    <3> QED  BY <1>1, <3>1, <3>2
  <2> QED  BY <2>1
<1>3. p \in Int /\ q \in Int
  BY <1>1
<1>4. /\ a < b => p + MinutesPerDay <= q
      /\ b < a => q + MinutesPerDay <= p
  BY <1>2
<1>5. a = b => p = q
  OBVIOUS
<1>6. /\ x \in Int /\ 0 <= x /\ x < MinutesPerDay
      /\ y \in Int /\ 0 <= y /\ y < MinutesPerDay
  BY <1>1
<1>7. p + x < q + y <=> a < b \/ (a = b /\ x < y)
  <2> HIDE DEF p, q
  <2> QED  BY <1>1, <1>3, <1>4, <1>5, <1>6
<1> QED  BY <1>7

\* What the fields of an interval are.
LEMMA IntervalFacts ==
  ASSUME NEW h \in Interval, ValidInterval(h)
  PROVE  /\ h.weekday \in 0..DaysPerWeek - 1 /\ h.nextDay \in BOOLEAN
         /\ h.opens \in 0..MinutesPerDay - 1
         /\ h.closes \in 0..MinutesPerDay - 1
         /\ IF h.nextDay THEN h.closes <= h.opens ELSE h.closes > h.opens
<1>1. h.nextDay \in BOOLEAN
  <2>1. PICK d \in 0..DaysPerWeek - 1, n \in 0..1,
             o \in 0..MinutesPerDay - 1, c \in 0..MinutesPerDay - 1 :
          h = [weekday |-> d, sequence |-> n, opens |-> o, closes |-> c,
               nextDay |-> c <= o]
    BY DEF Interval
  <2>2. h.nextDay = (c <= o) /\ (c <= o) \in BOOLEAN
    BY <2>1
  <2> QED  BY <2>2
<1> QED  BY <1>1 DEF ValidInterval

\* A minute of a day is in an interval if it is after the opening, and before
\* the closing of the same or the next day.
LEMMA MinuteOfInterval ==
  ASSUME NEW h \in Interval, ValidInterval(h),
         NEW e \in Int, NEW m \in 0..MinutesPerDay - 1
  PROVE  e * MinutesPerDay + m \in Start(h)..End(h) - 1
           <=> \/ e = h.weekday /\ m >= h.opens /\ (h.nextDay \/ m < h.closes)
               \/ e = h.weekday + 1 /\ h.nextDay /\ m < h.closes
<1> DEFINE w == h.weekday
           t == e * MinutesPerDay + m
           w0 == w * MinutesPerDay
           w1 == (w + 1) * MinutesPerDay
<1>1. /\ w \in 0..DaysPerWeek - 1 /\ h.nextDay \in BOOLEAN
      /\ h.opens \in 0..MinutesPerDay - 1
      /\ h.closes \in 0..MinutesPerDay - 1
      /\ IF h.nextDay THEN h.closes <= h.opens ELSE h.closes > h.opens
  BY IntervalFacts
<1>2. MinutesPerDay \in Nat \ {0} /\ DaysPerWeek \in Nat
  BY RecommendationAssumption DEF RecommendationAssumption
<1>3. w \in Int /\ w + 1 \in Int
  BY <1>1, <1>2
<1>4. t < w0 + h.opens <=> e < w \/ (e = w /\ m < h.opens)
  BY <1>1, <1>3, DayMinute
<1>5. t < w0 + h.closes <=> e < w \/ (e = w /\ m < h.closes)
  BY <1>1, <1>3, DayMinute
<1>6. t < w1 + h.closes <=> e < w + 1 \/ (e = w + 1 /\ m < h.closes)
  BY <1>1, <1>3, DayMinute
<1>7. w1 = w0 + MinutesPerDay
  BY <1>2, <1>3
<1>8. t \in Int /\ w0 \in Int /\ w1 \in Int
  BY <1>2, <1>3
<1>9. Start(h) = w0 + h.opens
  BY DEF Start
<1>10. End(h) = IF h.nextDay THEN w1 + h.closes ELSE w0 + h.closes
  <2>1. End(h) = w0 + h.closes + (IF h.nextDay THEN MinutesPerDay ELSE 0)
    BY DEF End
  <2> HIDE DEF w0, w1
  <2> QED  BY <2>1, <1>1, <1>2, <1>7, <1>8
<1>11. m \in Int /\ h.opens \in Int /\ h.closes \in Int
  BY <1>1, <1>2
<1>12. t \in Start(h)..End(h) - 1 <=> ~(t < Start(h)) /\ t < End(h)
  <2>1. Start(h) \in Int /\ End(h) \in Int
    <3> HIDE DEF w0, w1
    <3> QED  BY <1>8, <1>9, <1>10, <1>11
  <2> HIDE DEF t
  <2> QED  BY <2>1, <1>8
<1>13. t \in Start(h)..End(h) - 1
         <=> \/ e = w /\ m >= h.opens /\ (h.nextDay \/ m < h.closes)
             \/ e = w + 1 /\ h.nextDay /\ m < h.closes
  <2> HIDE DEF t, w0, w1, w
  <2>1. CASE h.nextDay
    <3>1. t < End(h) <=> e < w + 1 \/ (e = w + 1 /\ m < h.closes)
      BY <2>1, <1>6, <1>10
    <3>2. h.closes <= h.opens
      BY <2>1, <1>1
    <3>3. t < Start(h) <=> e < w \/ (e = w /\ m < h.opens)
      BY <1>4, <1>9
    <3> QED  BY <2>1, <3>1, <3>2, <3>3, <1>3, <1>11, <1>12
  <2>2. CASE ~h.nextDay
    <3>1. t < End(h) <=> e < w \/ (e = w /\ m < h.closes)
      BY <2>2, <1>5, <1>10
    <3>2. t < Start(h) <=> e < w \/ (e = w /\ m < h.opens)
      BY <1>4, <1>9
    <3> QED  BY <2>2, <3>1, <3>2, <1>3, <1>11, <1>12
  <2> QED  BY <2>1, <2>2
<1> QED  BY <1>13

\* A time of the week is covered if it is in the interval in this week, or in
\* the next one.
LEMMA CoveredTwice ==
  ASSUME NEW h \in Interval, ValidInterval(h), NEW t \in Nat, t < Week
  PROVE  /\ Week \in Nat \ {0}
         /\ t \in Covered(h)
              <=> \/ t \in Start(h)..End(h) - 1
                  \/ t + Week \in Start(h)..End(h) - 1
<1> DEFINE M == MinutesPerDay
           w == h.weekday
<1>1. M \in Nat \ {0} /\ DaysPerWeek \in Nat /\ DaysPerWeek > 2
  BY RecommendationAssumption DEF RecommendationAssumption
<1>2. w \in 0..DaysPerWeek - 1 /\ h.nextDay \in BOOLEAN
      /\ h.opens \in 0..M - 1 /\ h.closes \in 0..M - 1
  BY IntervalFacts
<1>3. Week \in Nat \ {0}
  BY <1>1 DEF Week
<1>4. w * M \in Nat /\ w * M + M <= Week /\ M <= Week
  <2>1. w \in Nat /\ (DaysPerWeek - 1) - w \in Nat
    BY <1>1, <1>2
  <2>2. Week = w * M + M + ((DaysPerWeek - 1) - w) * M
    BY <1>1, <2>1 DEF Week
  <2>3. w * M \in Nat /\ ((DaysPerWeek - 1) - w) * M \in Nat
    BY <1>1, <2>1
  <2> HIDE DEF M
  <2> QED  BY <1>1, <2>2, <2>3
<1>5. Start(h) \in Nat /\ End(h) \in Nat /\ End(h) < 2 * Week
  <2>1. h.opens \in Nat /\ h.closes \in Nat /\ h.closes < M
    BY <1>1, <1>2
  <2>2. Start(h) = w * M + h.opens
    BY DEF Start
  <2>3. End(h) = w * M + h.closes + (IF h.nextDay THEN M ELSE 0)
    BY DEF End
  <2> DEFINE p == w * M
  <2> HIDE DEF p, M
  <2> QED  BY <1>1, <1>2, <1>3, <1>4, <2>1, <2>2, <2>3 DEF p
<1>6. ASSUME NEW u \in Start(h)..End(h) - 1
      PROVE  u \in Nat /\ u % Week = IF u < Week THEN u ELSE u - Week
  <2>1. u \in Nat /\ u < 2 * Week
    BY <1>3, <1>5
  <2> QED  BY <1>3, <2>1, WrapsOnce
<1>7. ASSUME t \in Covered(h)
      PROVE  t \in Start(h)..End(h) - 1 \/ t + Week \in Start(h)..End(h) - 1
  <2>1. PICK u \in Start(h)..End(h) - 1 : t = u % Week
    BY <1>7 DEF Covered
  <2>2. u = t \/ u = t + Week
    BY <1>3, <1>6, <2>1
  <2> QED  BY <2>2
<1>8. ASSUME t \in Start(h)..End(h) - 1 PROVE t \in Covered(h)
  <2>1. t % Week = t
    BY <1>6, <1>8
  <2> QED  BY <1>8, <2>1 DEF Covered
<1>9. ASSUME t + Week \in Start(h)..End(h) - 1 PROVE t \in Covered(h)
  <2>1. (t + Week) % Week = t
    BY <1>3, <1>6, <1>9
  <2> QED  BY <1>9, <2>1 DEF Covered
<1> QED  BY <1>3, <1>7, <1>8, <1>9

\* The code looks at the intervals of the day and of the day before: that is
\* the same as to look whether the minute is covered.
LEMMA CoveredIsOpen ==
  ASSUME NEW h \in Interval, ValidInterval(h),
         NEW d \in 0..DaysPerWeek - 1, NEW m \in 0..MinutesPerDay - 1
  PROVE  /\ d * MinutesPerDay + m \in Nat /\ d * MinutesPerDay + m < Week
         /\ d * MinutesPerDay + m \in Covered(h) <=> isOpen(h, d, m)
<1> DEFINE t == d * MinutesPerDay + m
           later == (d + DaysPerWeek) * MinutesPerDay + m
           w == h.weekday
<1>1. /\ MinutesPerDay \in Nat \ {0}
      /\ DaysPerWeek \in Nat /\ DaysPerWeek > 2
  BY RecommendationAssumption DEF RecommendationAssumption
<1>2. /\ w \in 0..DaysPerWeek - 1 /\ h.nextDay \in BOOLEAN
      /\ h.opens \in 0..MinutesPerDay - 1 /\ h.closes \in 0..MinutesPerDay - 1
      /\ IF h.nextDay THEN h.closes <= h.opens ELSE h.closes > h.opens
  BY IntervalFacts
<1>3. t \in Nat
  BY <1>1
<1>4. t < Week
  <2>1. 0 \in 0..MinutesPerDay - 1
    BY <1>1
  <2>2. t < DaysPerWeek * MinutesPerDay + 0
    BY <1>1, <2>1, DayMinute
  <2>3. DaysPerWeek * MinutesPerDay \in Int
    BY <1>1
  <2> QED  BY <2>2, <2>3 DEF Week
<1>5. later = t + Week
  BY <1>1 DEF Week
<1>6. t \in Covered(h) <=> \/ t \in Start(h)..End(h) - 1
                           \/ later \in Start(h)..End(h) - 1
  <2> HIDE DEF t, later
  <2> QED  BY <1>3, <1>4, <1>5, CoveredTwice
<1>7. d \in Int /\ d + DaysPerWeek \in Int
  BY <1>1
<1>8. t \in Start(h)..End(h) - 1
        <=> \/ d = w /\ m >= h.opens /\ (h.nextDay \/ m < h.closes)
            \/ d = w + 1 /\ h.nextDay /\ m < h.closes
  BY <1>7, MinuteOfInterval
<1>9. later \in Start(h)..End(h) - 1
        <=> \/ /\ d + DaysPerWeek = w /\ m >= h.opens
               /\ h.nextDay \/ m < h.closes
            \/ d + DaysPerWeek = w + 1 /\ h.nextDay /\ m < h.closes
  BY <1>7, MinuteOfInterval
<1>10. previousWeekday(d) = IF d = 0 THEN DaysPerWeek - 1 ELSE d - 1
  <2> DEFINE n == d + DaysPerWeek - 1
  <2>1. n \in Nat /\ n < 2 * DaysPerWeek
    BY <1>1
  <2>2. n % DaysPerWeek = IF n < DaysPerWeek THEN n ELSE n - DaysPerWeek
    <3>1. DaysPerWeek \in Nat \ {0}
      BY <1>1
    <3> HIDE DEF n
    <3> QED  BY <2>1, <3>1, WrapsOnce
  <2>3. previousWeekday(d) = n % DaysPerWeek
    BY DEF previousWeekday
  <2> QED  BY <1>1, <2>2, <2>3
<1>11. t \in Covered(h) <=> isOpen(h, d, m)
  <2> HIDE DEF t, later
  <2>1. CASE d = w
    <3>1. d # w + 1 /\ d + DaysPerWeek # w /\ d + DaysPerWeek # w + 1
      BY <1>1, <1>2, <2>1
    <3> QED  BY <2>1, <3>1, <1>6, <1>8, <1>9 DEF isOpen
  <2>2. CASE d # w
    <3>1. d + DaysPerWeek # w
      BY <1>1, <1>2
    <3>2. w = previousWeekday(d) <=> d = w + 1 \/ d + DaysPerWeek = w + 1
      BY <1>1, <1>2, <1>10
    <3> QED  BY <2>2, <3>1, <3>2, <1>6, <1>8, <1>9 DEF isOpen
  <2> QED  BY <2>1, <2>2
<1> QED  BY <1>3, <1>4, <1>11

\* No minute of the week is in two intervals of a store.
LEMMA CoveredOnce ==
  ASSUME HoursInv, NEW t \in Nat, t < Week,
         NEW l \in hours, NEW r \in hours,
         t \in Covered(l), t \in Covered(r)
  PROVE  l = r
<1>1. /\ l \in Interval /\ ValidInterval(l)
      /\ r \in Interval /\ ValidInterval(r)
  BY DEF HoursInv, validateBusinessHours
<1>2. Week \in Nat \ {0}
  BY <1>1, CoveredTwice
<1>3. PICK a \in {t, t + Week} : a \in Start(l)..End(l) - 1
  BY <1>1, CoveredTwice
<1>4. PICK b \in {t, t + Week} : b \in Start(r)..End(r) - 1
  BY <1>1, CoveredTwice
<1>5. a - b \in {-Week, 0, Week} /\ a \in Int /\ b \in Int
  BY <1>2
<1>6. /\ Start(l) \in Int /\ End(l) \in Int
      /\ Start(r) \in Int /\ End(r) \in Int
  <2>1. MinutesPerDay \in Nat /\ DaysPerWeek \in Nat
    BY RecommendationAssumption DEF RecommendationAssumption
  <2>2. ASSUME NEW h \in Interval, ValidInterval(h)
        PROVE  Start(h) \in Int /\ End(h) \in Int
    <3>1. h.weekday \in Int /\ h.opens \in Int /\ h.closes \in Int
      BY <2>1, <2>2, IntervalFacts
    <3>2. h.weekday * MinutesPerDay \in Int
      BY <2>1, <3>1
    <3> QED  BY <2>1, <3>1, <3>2 DEF Start, End
  <2> QED  BY <1>1, <2>2
<1>7. Start(l) < End(r) + (a - b) /\ Start(r) + (a - b) < End(l)
  BY <1>3, <1>4, <1>5, <1>6
<1>8. overlaps(l, r)
  BY <1>5, <1>7 DEF overlaps
<1> QED  BY <1>8 DEF HoursInv, validateBusinessHours

\* For weeks and days of any length: whatever hours a batch may bring, a store
\* is open in exactly the minutes that one of its intervals covers, across
\* midnight and across the end of the week, and none is covered by two
\* (derive-candidate.ts).
THEOREM OpenIsAlwaysCovered == HoursSpec => []OpenIsCovered
<1>1. ASSUME HoursInv PROVE OpenIsCovered
  <2> SUFFICES ASSUME NEW d \in 0..DaysPerWeek - 1,
                      NEW m \in 0..MinutesPerDay - 1
               PROVE  LET covering == {h \in hours :
                            d * MinutesPerDay + m \in Covered(h)} IN
                      /\ Cardinality(covering) <= 1
                      /\ deriveOpeningState(hours, d, m) =
                           IF hours = {} THEN "UNKNOWN"
                           ELSE IF covering = {} THEN "CLOSED" ELSE "OPEN"
    BY DEF OpenIsCovered
  <2> DEFINE t == d * MinutesPerDay + m
             covering == {h \in hours : t \in Covered(h)}
  <2>1. ASSUME NEW h \in hours
        PROVE  t \in Nat /\ t < Week /\ (t \in Covered(h) <=> isOpen(h, d, m))
    <3>1. h \in Interval /\ ValidInterval(h)
      BY <1>1 DEF HoursInv, validateBusinessHours
    <3> QED  BY <3>1, CoveredIsOpen
  <2>2. Cardinality(covering) <= 1
    <3>1. CASE covering = {}
      BY <3>1, FS_EmptySet
    <3>2. CASE covering # {}
      <4>1. PICK h \in covering : TRUE
        BY <3>2
      <4>2. \A g \in covering : g = h
        <5>1. t \in Nat /\ t < Week
          BY <2>1, <4>1
        <5> HIDE DEF t
        <5> QED  BY <1>1, <4>1, <5>1, CoveredOnce
      <4>3. covering = {h}
        BY <4>1, <4>2
      <4>4. Cardinality({h}) = 1
        BY FS_Singleton
      <4> HIDE DEF covering
      <4> QED  BY <4>3, <4>4
    <3> QED  BY <3>1, <3>2
  <2>3. covering = {} <=> ~\E h \in hours : isOpen(h, d, m)
    BY <2>1
  <2>4. deriveOpeningState(hours, d, m) =
          IF hours = {} THEN "UNKNOWN"
          ELSE IF covering = {} THEN "CLOSED" ELSE "OPEN"
    <3> HIDE DEF covering
    <3> QED  BY <2>3 DEF deriveOpeningState
  <2> QED  BY <2>2, <2>4
<1> QED  BY <1>1, HoursInvHolds, PTL

-----------------------------------------------------------------------------
(* Filters and relaxations *)

\* No reason against a store holds.
Kept(c, q, on) ==
  /\ ~(q.region # None /\ ~MatchesAny(c.regions, q.region))
  /\ ~(q.storeName # None /\ ~MatchesAny(c.names, q.storeName))
  /\ ~(q.excluded \cap Categories(c) # {})
  /\ ~IncludedMissing(c, q)
  /\ ~(q.openNow /\ c.opening # "OPEN")
  /\ ~(q.maxDistance # None
         /\ (c.distance = None \/ c.distance > q.maxDistance))
  /\ ~(q.review # "ANY" /\ deriveReviewStatus(c.count) # q.review)
  /\ ~MenuMismatch(c, q, on)

\* The first reason is "none" just when there is no reason.
LEMMA KeptHasNoReason ==
  ASSUME NEW c, NEW q, NEW on
  PROVE  removalReason(c, q, on) = "none" <=> Kept(c, q, on)
<1> DEFINE rs == Reasons(c, q, on)
           found == {i \in DOMAIN rs : rs[i].holds}
<1>1. DOMAIN rs = 1..8
  BY DEF Reasons
<1>2. \A i \in 1..8 : rs[i].code # "none"
  <2>1. /\ rs[1].code = "REGION_MISMATCH"
        /\ rs[2].code = "STORE_NAME_MISMATCH"
        /\ rs[3].code = "EXCLUDED_CATEGORY"
        /\ rs[4].code = "INCLUDED_CATEGORY_MISSING"
        /\ rs[5].code = "NOT_OPEN"
        /\ rs[6].code = "DISTANCE_EXCEEDED"
        /\ rs[7].code = "REVIEW_STATUS_MISMATCH"
        /\ rs[8].code = "MENU_MISMATCH"
    BY DEF Reasons
  <2> HIDE DEF rs
  <2> QED  BY <2>1
<1>3. Kept(c, q, on) <=> \A i \in 1..8 : ~rs[i].holds
  <2>1. Kept(c, q, on)
          <=> /\ ~rs[1].holds /\ ~rs[2].holds /\ ~rs[3].holds /\ ~rs[4].holds
              /\ ~rs[5].holds /\ ~rs[6].holds /\ ~rs[7].holds /\ ~rs[8].holds
    BY DEF Kept, Reasons
  <2> HIDE DEF rs
  <2> QED  BY <2>1
<1>4. removalReason(c, q, on)
        = IF found = {} THEN "none" ELSE rs[Min(found)].code
  BY DEF removalReason
<1>5. found # {} => Min(found) \in 1..8
  <2>1. found \subseteq Nat /\ found \subseteq 1..8
    BY <1>1
  <2>2. ASSUME found # {} PROVE Min(found) \in found
    <3>1. \E n \in found : \A m \in found : n <= m
      BY <2>1, <2>2, LeastElement
    <3> HIDE DEF found
    <3> QED  BY <3>1 DEF Min
  <2> QED  BY <2>1, <2>2
<1>6. found = {} <=> \A i \in 1..8 : ~rs[i].holds
  BY <1>1
<1> HIDE DEF found, rs
<1> QED  BY <1>2, <1>3, <1>4, <1>5, <1>6

\* p asks for nothing that q does not ask for.
Weaker(p, q) ==
  /\ p.storeName = q.storeName /\ p.menuTerms = q.menuTerms
  /\ p.excluded = q.excluded
  /\ p.region \in {None, q.region}
  /\ p.maxDistance \in {None, q.maxDistance}
  /\ p.openNow => q.openNow
  /\ p.review \in {"ANY", q.review}
  /\ q.included \subseteq p.included
  /\ q.included = {} => p.included = {}

\* What a query keeps, a weaker one keeps.
LEMMA WeakerKeeps ==
  ASSUME NEW p, NEW q, Weaker(p, q), NEW c, NEW on, Kept(c, q, on)
  PROVE  Kept(c, p, on)
<1> USE DEF Weaker
<1>1. MenuMismatch(c, p, on) = MenuMismatch(c, q, on)
  BY DEF MenuMismatch, VerifiedMenuMatch, matchesMenu, ReviewEvidence
<1>2. ~IncludedMissing(c, p)
  BY DEF Kept, IncludedMissing
<1> QED  BY <1>1, <1>2 DEF Kept

\* A relaxation is weaker, and no stronger either if there is nothing to relax.
LEMMA RelaxedIsWeaker ==
  ASSUME NEW q, IsQuery(q), NEW code \in RelaxationCodes,
         NEW p \in Relaxed(code, q)
  PROVE  /\ Weaker(p, q)
         /\ ~Relaxes(code, q) => Weaker(q, p)
<1>1. CASE code = "EXPAND_REGION_OR_DISTANCE"
  <2>1. p \in {[q EXCEPT !.region = None], [q EXCEPT !.maxDistance = None],
               [q EXCEPT !.region = None, !.maxDistance = None]}
    BY <1>1 DEF Relaxed
  <2>2. /\ p.storeName = q.storeName /\ p.menuTerms = q.menuTerms
        /\ p.excluded = q.excluded /\ p.openNow = q.openNow
        /\ p.review = q.review /\ p.included = q.included
        /\ p.region \in {None, q.region}
        /\ p.maxDistance \in {None, q.maxDistance}
    BY <2>1 DEF IsQuery
  <2>3. Relaxes(code, q) <=> q.region # None \/ q.maxDistance # None
    BY <1>1 DEF Relaxes
  <2> QED  BY <2>2, <2>3 DEF Weaker
<1>2. CASE code = "DISABLE_OPEN_NOW"
  <2>1. p = [q EXCEPT !.openNow = FALSE]
    BY <1>2 DEF Relaxed
  <2>2. /\ p.storeName = q.storeName /\ p.menuTerms = q.menuTerms
        /\ p.excluded = q.excluded /\ p.openNow = FALSE
        /\ p.review = q.review /\ p.included = q.included
        /\ p.region = q.region /\ p.maxDistance = q.maxDistance
    BY <2>1 DEF IsQuery
  <2>3. Relaxes(code, q) <=> q.openNow
    BY <1>2 DEF Relaxes
  <2> QED  BY <2>2, <2>3 DEF Weaker
<1>3. CASE code = "INCLUDE_INSUFFICIENT_REVIEWS"
  <2>1. p = IF q.review = "AVAILABLE" THEN [q EXCEPT !.review = "ANY"] ELSE q
    BY <1>3 DEF Relaxed
  <2>2. /\ p.storeName = q.storeName /\ p.menuTerms = q.menuTerms
        /\ p.excluded = q.excluded /\ p.openNow = q.openNow
        /\ p.included = q.included
        /\ p.region = q.region /\ p.maxDistance = q.maxDistance
        /\ p.review = IF q.review = "AVAILABLE" THEN "ANY" ELSE q.review
    BY <2>1 DEF IsQuery
  <2>3. Relaxes(code, q) <=> q.review = "AVAILABLE"
    BY <1>3 DEF Relaxes
  <2> QED  BY <2>2, <2>3 DEF Weaker
<1>4. CASE code = "EXPAND_ADJACENT_CATEGORY"
  <2>1. PICK more : /\ p = [q EXCEPT !.included = more]
                    /\ q.included \subseteq more /\ q.included # {}
    BY <1>4 DEF Relaxed
  <2>2. /\ p.storeName = q.storeName /\ p.menuTerms = q.menuTerms
        /\ p.excluded = q.excluded /\ p.openNow = q.openNow
        /\ p.review = q.review /\ p.included = more
        /\ p.region = q.region /\ p.maxDistance = q.maxDistance
    BY <2>1 DEF IsQuery
  <2>3. Relaxes(code, q)
    BY <1>4, <2>1 DEF Relaxes
  <2> QED  BY <2>1, <2>2, <2>3 DEF Weaker
<1> QED  BY <1>1, <1>2, <1>3, <1>4 DEF RelaxationCodes

\* Candidates are told apart by their id and have the fields of a row, and
\* what is asked is a query.
SearchInv ==
  /\ IsFiniteSet(shops)
  /\ \A c \in shops : c.id \in 1..Cardinality(shops) /\ IsShop(c)
  /\ \A c, d \in shops : c.id = d.id => c = d
  /\ query # None => query \in Queries

\* Whatever stores accumulate and whatever is asked.
LEMMA SearchInvHolds == SearchSpec => []SearchInv
<1>1. SearchInit => SearchInv
  BY FS_EmptySet DEF SearchInit, SearchInv
<1>2. ASSUME SearchInv, [SearchNext]_searchVars PROVE SearchInv'
  <2>1. ASSUME NEW f \in ShopFacts, AddShop(f) PROVE SearchInv'
    <3> DEFINE n == Cardinality(shops)
               new == [id |-> n + 1, names |-> f.names,
                       regions |-> f.regions, menus |-> f.menus,
                       opening |-> f.opening, distance |-> f.distance,
                       phone |-> f.phone, count |-> f.count,
                       latest |-> f.latest, rated |-> f.rated,
                       ratingSum |-> f.ratingSum, hit |-> f.hit]
    <3>1. n \in Nat
      BY <1>2, FS_CardinalityType DEF SearchInv
    <3>2. shops' = shops \cup {new} /\ query' = query
      BY <2>1 DEF AddShop
    <3>3. new.id = n + 1 /\ IsShop(new)
      BY SearchAssumption DEF SearchAssumption, IsShop
    <3> HIDE DEF new
    <3>4. new \notin shops
      BY <1>2, <3>1, <3>3 DEF SearchInv
    <3>5. IsFiniteSet(shops') /\ Cardinality(shops') = n + 1
      BY <1>2, <3>2, <3>4, FS_AddElement DEF SearchInv
    <3>6. \A c \in shops :
            /\ c.id \in 1..n /\ c.id \in 1..n + 1 /\ c.id # n + 1
            /\ IsShop(c)
      BY <1>2, <3>1 DEF SearchInv
    <3>7. n + 1 \in 1..n + 1
      BY <3>1
    <3> HIDE DEF n
    <3> QED  BY <1>2, <3>2, <3>3, <3>5, <3>6, <3>7 DEF SearchInv
  <2>2. ASSUME NEW q \in Queries, Ask(q) PROVE SearchInv'
    BY <1>2, <2>2 DEF Ask, SearchInv
  <2>3. CASE UNCHANGED searchVars
    BY <1>2, <2>3 DEF searchVars, SearchInv
  <2> QED  BY <1>2, <2>1, <2>2, <2>3 DEF SearchNext
<1> QED  BY <1>1, <1>2, PTL DEF SearchSpec

\* For any stores and any query: a relaxation that a client may choose loses
\* no store, and if nothing was found, one that alone would find a store is
\* offered (explain-result.ts; recommendation-spec.md, 13).
THEOREM WayOutIsAlwaysOffered == SearchSpec => []WayOutIsOffered
<1>1. ASSUME SearchInv PROVE WayOutIsOffered
  <2> SUFFICES ASSUME query # None, NEW code \in RelaxationCodes,
                      NEW p \in Relaxed(code, query)
               PROVE  /\ Items(query) \subseteq Items(p)
                      /\ Items(query) = {} /\ Items(p) # {} =>
                           code \in buildRelaxationOptions(query,
                                                           Items(query))
    BY DEF WayOutIsOffered
  <2>1. IsQuery(query)
    BY <1>1, SearchAssumption DEF SearchAssumption, SearchInv
  <2>2. /\ Weaker(p, query)
        /\ ~Relaxes(code, query) => Weaker(query, p)
    BY <2>1, RelaxedIsWeaker
  <2>3. \A q : Items(q) = {c \in shops : Kept(c, q, fts)}
    BY KeptHasNoReason DEF Items, filterCandidates
  <2>4. Items(query) \subseteq Items(p)
    BY <2>2, <2>3, WeakerKeeps
  <2>5. ~Relaxes(code, query) => Items(p) \subseteq Items(query)
    BY <2>2, <2>3, WeakerKeeps
  <2>6. Items(query) = {} /\ Relaxes(code, query) =>
          code \in buildRelaxationOptions(query, Items(query))
    BY DEF buildRelaxationOptions
  <2> HIDE DEF Items
  <2> QED  BY <2>4, <2>5, <2>6
<1> QED  BY <1>1, SearchInvHolds, PTL

-----------------------------------------------------------------------------
(* The sum of what stores were rated *)

\* A sum of natural numbers is one, in whatever order it is taken.
LEMMA SumIsNat ==
  ASSUME NEW w, IsFiniteSet(DOMAIN w), \A x \in DOMAIN w : w[x] \in Nat
  PROVE  SumFunction(w) \in Nat
<1> DEFINE S == DOMAIN w
           zero == 0
           pick == [s \in SUBSET S |-> CHOOSE x \in s : TRUE]
           op == [xb \in S \X Nat |-> w[xb[1]] + xb[2]]
           Iter(f) == [s \in SUBSET S |->
             IF s = {} THEN 0
             ELSE w[CHOOSE x \in s : TRUE] + f[s \ {CHOOSE x \in s : TRUE}]]
           iter == CHOOSE f : f = Iter(f)
<1>1. IsFiniteSet(S) /\ zero \in Nat
  OBVIOUS
<1>2. Picks(pick, S)
  BY DEF Picks
<1>3. \A x \in S, b \in Nat :
        op[<<x, b>>] = w[x] + b /\ w[x] + b \in Nat /\ op[<<x, b>>] \in Nat
  <2>1. ASSUME NEW x \in S, NEW b \in Nat
        PROVE  op[<<x, b>>] = w[x] + b /\ w[x] + b \in Nat
    <3>1. <<x, b>> \in S \X Nat /\ <<x, b>>[1] = x /\ <<x, b>>[2] = b
      OBVIOUS
    <3>2. op[<<x, b>>] = w[<<x, b>>[1]] + <<x, b>>[2]
      BY <3>1
    <3> QED  BY <3>1, <3>2
  <2> QED  BY <2>1
<1>4. PICK k : IsFold(k, S, zero, pick, op)
  <2> HIDE DEF S, zero, op, pick, Iter, iter
  <2> QED  BY <1>1, <1>2, FoldExists
<1>5. \A s \in SUBSET S : k[s] \in Nat
  <2>1. \A x \in S, b \in Nat : op[<<x, b>>] \in Nat
    BY <1>3
  <2> HIDE DEF S, zero, op, pick, Iter, iter
  <2> QED  BY <1>1, <1>2, <1>4, <2>1, FoldTyped
<1> DEFINE h == [s \in SUBSET S |-> k[s]]
<1>6. h = Iter(h)
  <2>1. ASSUME NEW s \in SUBSET S
        PROVE  h[s] = IF s = {} THEN 0
                      ELSE w[CHOOSE x \in s : TRUE]
                             + h[s \ {CHOOSE x \in s : TRUE}]
    <3>1. h[s] = Folded(k, zero, pick, op, s)
      BY <1>4 DEF IsFold
    <3>2. CASE s = {}
      BY <3>1, <3>2 DEF Folded
    <3>3. CASE s # {}
      <4>1. pick[s] = CHOOSE x \in s : TRUE
        OBVIOUS
      <4>2. pick[s] \in S /\ k[s \ {pick[s]}] \in Nat
            /\ h[s \ {pick[s]}] = k[s \ {pick[s]}]
        <5> HIDE DEF pick
        <5> QED  BY <3>3, <1>2, <1>5 DEF Picks
      <4>3. h[s] = op[<<pick[s], k[s \ {pick[s]}]>>]
        BY <3>1, <3>3 DEF Folded
      <4>4. h[s] = w[pick[s]] + h[s \ {pick[s]}]
        <5> HIDE DEF op, pick, h, S
        <5> QED  BY <4>2, <4>3, <1>3
      <4> HIDE DEF pick, h
      <4> QED  BY <3>3, <4>1, <4>4
    <3> QED  BY <3>2, <3>3
  <2>2. h = [s \in SUBSET S |-> h[s]]
    OBVIOUS
  <2> HIDE DEF S, op, pick, h
  <2> QED  BY <2>1, <2>2
<1>7. iter = Iter(iter)
  <2> HIDE DEF S, h
  <2> QED  BY <1>6, Zenon
<1>8. SumFunction(w) = iter[S]
  BY DEF SumFunction, SumFunctionOnSet, FoldFunctionOnSet, MapThenFoldSet
<1> DEFINE T == {s \in SUBSET S : iter[s] \in Nat}
<1>9. {} \in T
  <2> HIDE DEF iter, S
  <2> QED  BY <1>7
<1>10. ASSUME NEW s \in SUBSET S, s # {}, \A x \in s : s \ {x} \in T
      PROVE  s \in T
  <2>1. iter[s] = w[pick[s]] + iter[s \ {pick[s]}]
    <3> HIDE DEF iter, S
    <3> QED  BY <1>7, <1>10
  <2>2. pick[s] \in S /\ iter[s \ {pick[s]}] \in Nat
    <3> HIDE DEF iter, pick
    <3> QED  BY <1>2, <1>10 DEF Picks
  <2>3. w[pick[s]] \in Nat
    BY <2>2
  <2> HIDE DEF iter, pick, op
  <2> QED  BY <2>1, <2>2, <2>3
<1>11. SUBSET S \subseteq T
  <2> HIDE DEF T, S
  <2> QED  BY <1>1, <1>9, <1>10, SubsetInduction
<1> HIDE DEF iter
<1> QED  BY <1>8, <1>11

\* Division of a whole number by a positive one, rounded.
LEMMA RoundedIsInt ==
  ASSUME NEW n \in Int, NEW d \in Nat \ {0}
  PROVE  Rounded(n, d) \in Int
<1> DEFINE a == 2 * n + d
           b == 2 * d
<1>1. a \in Int /\ b \in Int /\ b > 0
  OBVIOUS
<1>2. a \div b \in Int
  <2> HIDE DEF a, b
  <2> QED  BY <1>1
<1> QED  BY <1>2 DEF Rounded

\* The mean of all ratings is a number, whatever stores have none.
LEMMA MeanIsInt ==
  ASSUME SearchInv
  PROVE  Mean \in Int
<1> DEFINE rated == [c \in shops |-> c.rated]
           sum == [c \in shops |-> c.ratingSum]
<1>1. SumFunction(rated) \in Nat /\ SumFunction(sum) \in Nat
  <2>1. /\ DOMAIN rated = shops /\ \A c \in shops : rated[c] \in Nat
        /\ DOMAIN sum = shops /\ \A c \in shops : sum[c] \in Nat
    BY DEF SearchInv, IsShop
  <2>2. IsFiniteSet(shops)
    BY DEF SearchInv
  <2> HIDE DEF rated, sum
  <2> QED  BY <2>1, <2>2, SumIsNat
<1>2. DefaultMean \in Nat
  BY RecommendationAssumption DEF RecommendationAssumption
<1>3. Mean = IF SumFunction(rated) = 0 THEN DefaultMean
             ELSE Rounded(SumFunction(sum), SumFunction(rated))
  BY DEF Mean, calculateGlobalRatingMean
<1> HIDE DEF rated, sum
<1> QED  BY <1>1, <1>2, <1>3, RoundedIsInt

-----------------------------------------------------------------------------
(* The order of stores *)

\* The comparisons x of l with m, y of m with r and z of l with r agree.
Coherent(x, y, z) ==
  /\ x \in Int /\ y \in Int /\ z \in Int
  /\ x <= 0 /\ y <= 0 => z <= 0 /\ (x < 0 \/ y < 0 => z < 0)
  /\ x >= 0 /\ y >= 0 => z >= 0 /\ (x > 0 \/ y > 0 => z > 0)

\* The comparisons x of l with r and y of r with l agree.
Opposite(x, y) ==
  /\ x \in Int /\ y \in Int
  /\ (x < 0 <=> y > 0) /\ (x = 0 <=> y = 0)

\* The first key that is not 0.
LEMMA FirstDifferenceIs ==
  ASSUME NEW n \in Nat, NEW keys, DOMAIN keys = 1..n
  PROVE  /\ (\A i \in 1..n : keys[i] = 0) => FirstDifference(keys) = 0
         /\ \A i \in 1..n :
              keys[i] # 0 /\ (\A j \in 1..n : j < i => keys[j] = 0)
                => FirstDifference(keys) = keys[i]
<1> DEFINE differing == {i \in DOMAIN keys : keys[i] # 0}
<1>1. FirstDifference(keys)
        = IF differing = {} THEN 0 ELSE keys[Min(differing)]
  BY DEF FirstDifference
<1>2. (\A i \in 1..n : keys[i] = 0) => differing = {}
  OBVIOUS
<1>3. ASSUME NEW i \in 1..n, keys[i] # 0,
             \A j \in 1..n : j < i => keys[j] = 0
      PROVE  Min(differing) = i /\ differing # {}
  <2>1. i \in differing
    BY <1>3
  <2>2. \A j \in differing : j \in Int /\ i <= j
    BY <1>3
  <2>3. \A k \in differing : (\A j \in differing : k <= j) => k = i
    BY <2>1, <2>2
  <2> HIDE DEF differing
  <2>4. Min(differing) = CHOOSE k \in differing : \A j \in differing : k <= j
    BY DEF Min
  <2> QED  BY <2>1, <2>2, <2>3, <2>4
<1> HIDE DEF differing
<1> QED  BY <1>1, <1>2, <1>3

AllZero(n, x, y) == \A i \in 1..n : x[i] = 0 /\ y[i] = 0
FirstAt(i, n, x, y) ==
  /\ i \in 1..n /\ (x[i] # 0 \/ y[i] # 0)
  /\ \A j \in 1..n : j < i => x[j] = 0 /\ y[j] = 0

\* The first place at which one of two lists of keys is not 0, if any is.
LEMMA FirstOfTwo ==
  ASSUME NEW n \in Nat, NEW x, NEW y
  PROVE  AllZero(n, x, y) \/ \E i : FirstAt(i, n, x, y)
<1> DEFINE D == {i \in 1..n : x[i] # 0 \/ y[i] # 0}
<1>1. CASE D = {}
  BY <1>1 DEF AllZero
<1>2. CASE D # {}
  <2>1. D \subseteq Nat
    OBVIOUS
  <2>2. PICK i \in D : \A j \in D : i <= j
    <3> HIDE DEF D
    <3> QED  BY <1>2, <2>1, LeastElement
  <2>3. \A j \in 1..n : j < i => x[j] = 0 /\ y[j] = 0
    BY <2>2
  <2> QED  BY <2>2, <2>3 DEF FirstAt
<1> QED  BY <1>1, <1>2

\* A comparison by whole keys is a number, 0 only if every key is.
LEMMA FirstDifferenceInt ==
  ASSUME NEW n \in Nat, NEW keys, DOMAIN keys = 1..n,
         \A i \in 1..n : keys[i] \in Int
  PROVE  /\ FirstDifference(keys) \in Int
         /\ FirstDifference(keys) = 0 => \A i \in 1..n : keys[i] = 0
<1>1. CASE AllZero(n, keys, keys)
  BY <1>1, FirstDifferenceIs DEF AllZero
<1>2. ASSUME NEW i, FirstAt(i, n, keys, keys)
      PROVE  /\ FirstDifference(keys) \in Int
             /\ FirstDifference(keys) # 0
  <2>1. FirstDifference(keys) = keys[i]
    BY <1>2, FirstDifferenceIs DEF FirstAt
  <2> QED  BY <1>2, <2>1 DEF FirstAt
<1>3. AllZero(n, keys, keys) \/ \E i : FirstAt(i, n, keys, keys)
  BY FirstOfTwo
<1> QED  BY <1>1, <1>2, <1>3

\* If the comparisons by each key agree, those by the first difference do.
LEMMA FirstDifferenceCoheres ==
  ASSUME NEW n \in Nat, NEW x, NEW y, NEW z,
         DOMAIN x = 1..n, DOMAIN y = 1..n, DOMAIN z = 1..n,
         \A i \in 1..n : Coherent(x[i], y[i], z[i])
  PROVE  Coherent(FirstDifference(x), FirstDifference(y), FirstDifference(z))
<1>1. \A i \in 1..n : x[i] \in Int /\ y[i] \in Int /\ z[i] \in Int
  BY DEF Coherent
<1>2. /\ FirstDifference(x) \in Int /\ FirstDifference(y) \in Int
      /\ FirstDifference(z) \in Int
  BY <1>1, FirstDifferenceInt
<1>3. \A i \in 1..n : x[i] = 0 /\ y[i] = 0 => z[i] = 0
  BY <1>1 DEF Coherent
<1>4. CASE AllZero(n, x, y)
  <2>1. /\ FirstDifference(x) = 0 /\ FirstDifference(y) = 0
        /\ FirstDifference(z) = 0
    BY <1>3, <1>4, FirstDifferenceIs DEF AllZero
  <2> QED  BY <2>1 DEF Coherent
<1>5. ASSUME NEW i, FirstAt(i, n, x, y)
      PROVE  Coherent(FirstDifference(x), FirstDifference(y),
                      FirstDifference(z))
  <2>0. /\ i \in 1..n /\ (x[i] # 0 \/ y[i] # 0)
        /\ \A j \in 1..n : j < i => x[j] = 0 /\ y[j] = 0
    BY <1>5 DEF FirstAt
  <2>1. \A j \in 1..n : j < i => z[j] = 0
    BY <1>3, <2>0
  <2>2. Coherent(x[i], y[i], z[i])
    BY <2>0
  <2>3. /\ x[i] # 0 => FirstDifference(x) = x[i]
        /\ y[i] # 0 => FirstDifference(y) = y[i]
        /\ z[i] # 0 => FirstDifference(z) = z[i]
    BY <2>0, <2>1, FirstDifferenceIs
  <2> DEFINE fx == FirstDifference(x)
             fy == FirstDifference(y)
             fz == FirstDifference(z)
             a == x[i]
             b == y[i]
             c == z[i]
  <2>4. /\ a \in Int /\ b \in Int /\ c \in Int
        /\ fx \in Int /\ fy \in Int /\ fz \in Int
    BY <1>1, <1>2, <2>0
  <2>5. /\ a # 0 \/ b # 0
        /\ a # 0 => fx = a
        /\ b # 0 => fy = b
        /\ c # 0 => fz = c
        /\ Coherent(a, b, c)
    BY <2>0, <2>2, <2>3
  <2>6. Coherent(fx, fy, fz)
    <3> HIDE DEF fx, fy, fz, a, b, c
    <3> QED  BY <2>4, <2>5 DEF Coherent
  <2> QED  BY <2>6
<1>6. AllZero(n, x, y) \/ \E i : FirstAt(i, n, x, y)
  BY FirstOfTwo
<1> QED  BY <1>4, <1>5, <1>6

\* If they turn round by each key, they do by the first difference.
LEMMA FirstDifferenceTurns ==
  ASSUME NEW n \in Nat, NEW x, NEW y,
         DOMAIN x = 1..n, DOMAIN y = 1..n,
         \A i \in 1..n : Opposite(x[i], y[i])
  PROVE  Opposite(FirstDifference(x), FirstDifference(y))
<1>1. CASE AllZero(n, x, y)
  <2>1. FirstDifference(x) = 0 /\ FirstDifference(y) = 0
    BY <1>1, FirstDifferenceIs DEF AllZero
  <2> QED  BY <2>1 DEF Opposite
<1>2. ASSUME NEW i, FirstAt(i, n, x, y)
      PROVE  Opposite(FirstDifference(x), FirstDifference(y))
  <2>0. /\ i \in 1..n /\ (x[i] # 0 \/ y[i] # 0)
        /\ \A j \in 1..n : j < i => x[j] = 0 /\ y[j] = 0
    BY <1>2 DEF FirstAt
  <2>1. Opposite(x[i], y[i])
    BY <2>0
  <2>2. x[i] # 0 /\ y[i] # 0
    BY <2>0, <2>1 DEF Opposite
  <2>3. FirstDifference(x) = x[i] /\ FirstDifference(y) = y[i]
    BY <2>0, <2>2, FirstDifferenceIs
  <2> QED  BY <2>1, <2>3
<1>3. AllZero(n, x, y) \/ \E i : FirstAt(i, n, x, y)
  BY FirstOfTwo
<1> QED  BY <1>1, <1>2, <1>3

\* What a comparison makes of three things, l with m, m with r, l with r and
\* r with l, agrees.
Agree(x, y, z, w) == Coherent(x, y, z) /\ Opposite(z, w)

\* Both, for the keys of a comparison.
LEMMA FirstDifferenceAgrees ==
  ASSUME NEW n \in Nat, NEW x, NEW y, NEW z, NEW w,
         DOMAIN x = 1..n, DOMAIN y = 1..n, DOMAIN z = 1..n, DOMAIN w = 1..n,
         \A i \in 1..n : Agree(x[i], y[i], z[i], w[i])
  PROVE  Agree(FirstDifference(x), FirstDifference(y), FirstDifference(z),
               FirstDifference(w))
BY FirstDifferenceCoheres, FirstDifferenceTurns DEF Agree

\* A comparison that puts null last, and agrees on what is not null.
PutsNullsLast(a, b, c, x, y, z, w) ==
  /\ x = NullsLast(a, b) \/ (a # None /\ b # None /\ x \in Int)
  /\ y = NullsLast(b, c) \/ (b # None /\ c # None /\ y \in Int)
  /\ \/ z = NullsLast(a, c) /\ w = NullsLast(c, a)
     \/ a # None /\ c # None /\ Opposite(z, w)
  /\ a # None /\ b # None /\ c # None => Agree(x, y, z, w)

\* Such a comparison agrees on everything.
LEMMA NullsLastAgrees ==
  ASSUME NEW a, NEW b, NEW c, NEW x, NEW y, NEW z, NEW w,
         PutsNullsLast(a, b, c, x, y, z, w)
  PROVE  Agree(x, y, z, w)
<1>1. \A u, v : /\ u = None /\ v = None => NullsLast(u, v) = 0
                /\ u = None /\ v # None => NullsLast(u, v) = 1
                /\ u # None /\ v = None => NullsLast(u, v) = -1
                /\ u # None /\ v # None => NullsLast(u, v) = 0
  BY DEF NullsLast, Truth
<1>2. CASE a # None /\ b # None /\ c # None
  BY <1>2 DEF PutsNullsLast
<1>3. CASE a = None
  <2>1. CASE b = None /\ c = None
    BY <1>1, <1>3, <2>1 DEF PutsNullsLast, Agree, Coherent, Opposite
  <2>2. CASE b = None /\ c # None
    BY <1>1, <1>3, <2>2 DEF PutsNullsLast, Agree, Coherent, Opposite
  <2>3. CASE b # None /\ c = None
    BY <1>1, <1>3, <2>3 DEF PutsNullsLast, Agree, Coherent, Opposite
  <2>4. CASE b # None /\ c # None
    BY <1>1, <1>3, <2>4 DEF PutsNullsLast, Agree, Coherent, Opposite
  <2> QED  BY <2>1, <2>2, <2>3, <2>4
<1>4. CASE a # None /\ b = None
  <2>1. CASE c = None
    BY <1>1, <1>4, <2>1 DEF PutsNullsLast, Agree, Coherent, Opposite
  <2>2. CASE c # None
    BY <1>1, <1>4, <2>2 DEF PutsNullsLast, Agree, Coherent, Opposite
  <2> QED  BY <2>1, <2>2
<1>5. CASE a # None /\ b # None /\ c = None
  BY <1>1, <1>5 DEF PutsNullsLast, Agree, Coherent, Opposite
<1> QED  BY <1>2, <1>3, <1>4, <1>5

\* Numbers of which some are unknown.
LEMMA NullableAgrees ==
  ASSUME NEW a \in Nat \cup {None}, NEW b \in Nat \cup {None},
         NEW c \in Nat \cup {None}
  PROVE  /\ Agree(ascendingNumber(a, b), ascendingNumber(b, c),
                  ascendingNumber(a, c), ascendingNumber(c, a))
         /\ Agree(descendingNullable(a, b), descendingNullable(b, c),
                  descendingNullable(a, c), descendingNullable(c, a))
<1>1. \A u, v : u = None \/ v = None =>
                  /\ ascendingNumber(u, v) = NullsLast(u, v)
                  /\ descendingNullable(u, v) = NullsLast(u, v)
  BY DEF ascendingNumber, descendingNullable
<1>2. \A u, v \in Nat : /\ u # None /\ v # None
                        /\ ascendingNumber(u, v) = u - v
                        /\ descendingNullable(u, v) = v - u
  BY SearchAssumption DEF SearchAssumption, ascendingNumber, descendingNullable
<1>3. Agree(ascendingNumber(a, b), ascendingNumber(b, c),
            ascendingNumber(a, c), ascendingNumber(c, a))
  <2>1. /\ a # None /\ b # None => ascendingNumber(a, b) \in Int
        /\ b # None /\ c # None => ascendingNumber(b, c) \in Int
        /\ a # None /\ c # None =>
             Opposite(ascendingNumber(a, c), ascendingNumber(c, a))
    BY <1>2 DEF Opposite
  <2>2. a # None /\ b # None /\ c # None =>
          Agree(ascendingNumber(a, b), ascendingNumber(b, c),
                ascendingNumber(a, c), ascendingNumber(c, a))
    <3> SUFFICES ASSUME a # None, b # None, c # None
                 PROVE  Agree(ascendingNumber(a, b), ascendingNumber(b, c),
                              ascendingNumber(a, c), ascendingNumber(c, a))
      OBVIOUS
    <3>1. a \in Nat /\ b \in Nat /\ c \in Nat
      OBVIOUS
    <3>2. /\ ascendingNumber(a, b) = a - b /\ ascendingNumber(b, c) = b - c
          /\ ascendingNumber(a, c) = a - c /\ ascendingNumber(c, a) = c - a
      BY <1>2, <3>1
    <3>3. Agree(a - b, b - c, a - c, c - a)
      BY <3>1 DEF Agree, Coherent, Opposite
    <3> QED  BY <3>2, <3>3
  <2> DEFINE x == ascendingNumber(a, b)
             y == ascendingNumber(b, c)
             z == ascendingNumber(a, c)
             w == ascendingNumber(c, a)
  <2>3. PutsNullsLast(a, b, c, x, y, z, w)
    BY <1>1, <2>1, <2>2 DEF PutsNullsLast
  <2> HIDE DEF x, y, z, w
  <2>4. Agree(x, y, z, w)
    BY <2>3, NullsLastAgrees
  <2> QED  BY <2>4 DEF x, y, z, w
<1>4. Agree(descendingNullable(a, b), descendingNullable(b, c),
            descendingNullable(a, c), descendingNullable(c, a))
  <2>1. /\ a # None /\ b # None => descendingNullable(a, b) \in Int
        /\ b # None /\ c # None => descendingNullable(b, c) \in Int
        /\ a # None /\ c # None =>
             Opposite(descendingNullable(a, c), descendingNullable(c, a))
    BY <1>2 DEF Opposite
  <2>2. a # None /\ b # None /\ c # None =>
          Agree(descendingNullable(a, b), descendingNullable(b, c),
                descendingNullable(a, c), descendingNullable(c, a))
    <3> SUFFICES ASSUME a # None, b # None, c # None
                 PROVE  Agree(descendingNullable(a, b),
                              descendingNullable(b, c),
                              descendingNullable(a, c),
                              descendingNullable(c, a))
      OBVIOUS
    <3>1. a \in Nat /\ b \in Nat /\ c \in Nat
      OBVIOUS
    <3>2. /\ descendingNullable(a, b) = b - a
          /\ descendingNullable(b, c) = c - b
          /\ descendingNullable(a, c) = c - a
          /\ descendingNullable(c, a) = a - c
      BY <1>2, <3>1
    <3>3. Agree(b - a, c - b, c - a, a - c)
      BY <3>1 DEF Agree, Coherent, Opposite
    <3> QED  BY <3>2, <3>3
  <2> DEFINE x == descendingNullable(a, b)
             y == descendingNullable(b, c)
             z == descendingNullable(a, c)
             w == descendingNullable(c, a)
  <2>3. PutsNullsLast(a, b, c, x, y, z, w)
    BY <1>1, <2>1, <2>2 DEF PutsNullsLast
  <2> HIDE DEF x, y, z, w
  <2>4. Agree(x, y, z, w)
    BY <2>3, NullsLastAgrees
  <2> QED  BY <2>4 DEF x, y, z, w
<1> QED  BY <1>3, <1>4

\* Hits of the index: by term, rank, date and id.
IsHit(h) ==
  /\ h.term \in Nat /\ h.rank \in Nat /\ h.id \in Nat
  /\ h.date \in Nat \cup {None}

\* Stores without a hit come after those with one.
LEMMA EvidenceAgrees ==
  ASSUME NEW a, NEW b, NEW c,
         a = None \/ IsHit(a), b = None \/ IsHit(b), c = None \/ IsHit(c)
  PROVE  Agree(compareEvidence(a, b), compareEvidence(b, c),
               compareEvidence(a, c), compareEvidence(c, a))
<1> DEFINE Keys(u, v) == <<u.term - v.term, u.rank - v.rank,
                           descendingNullable(u.date, v.date), u.id - v.id>>
<1>1. ASSUME NEW u, NEW v
      PROVE  /\ u = None \/ v = None => compareEvidence(u, v) = NullsLast(u, v)
             /\ u # None /\ v # None =>
                  compareEvidence(u, v) = FirstDifference(Keys(u, v))
  BY DEF compareEvidence
<1>2. ASSUME NEW u, NEW v, NEW t, IsHit(u), IsHit(v), IsHit(t)
      PROVE  Agree(FirstDifference(Keys(u, v)), FirstDifference(Keys(v, t)),
                   FirstDifference(Keys(u, t)), FirstDifference(Keys(t, u)))
  <2> DEFINE x == Keys(u, v)
             y == Keys(v, t)
             z == Keys(u, t)
             w == Keys(t, u)
             n == 4
  <2>1. /\ n \in Nat
        /\ DOMAIN x = 1..n /\ DOMAIN y = 1..n /\ DOMAIN z = 1..n
        /\ DOMAIN w = 1..n
    OBVIOUS
  <2>2. Agree(x[1], y[1], z[1], w[1])
    BY <1>2 DEF IsHit, Agree, Coherent, Opposite
  <2>3. Agree(x[2], y[2], z[2], w[2])
    BY <1>2 DEF IsHit, Agree, Coherent, Opposite
  <2>4. Agree(x[3], y[3], z[3], w[3])
    BY <1>2, NullableAgrees DEF IsHit
  <2>5. Agree(x[4], y[4], z[4], w[4])
    BY <1>2 DEF IsHit, Agree, Coherent, Opposite
  <2>6. \A i \in 1..n : Agree(x[i], y[i], z[i], w[i])
    <3> HIDE DEF x, y, z, w
    <3> QED  BY <2>2, <2>3, <2>4, <2>5
  <2> HIDE DEF x, y, z, w, n
  <2>7. Agree(FirstDifference(x), FirstDifference(y), FirstDifference(z),
              FirstDifference(w))
    BY <2>1, <2>6, FirstDifferenceAgrees
  <2> QED  BY <2>7 DEF x, y, z, w
<1> DEFINE x == compareEvidence(a, b)
           y == compareEvidence(b, c)
           z == compareEvidence(a, c)
           w == compareEvidence(c, a)
<1>3. ASSUME NEW u, NEW v, IsHit(u), IsHit(v)
      PROVE  /\ FirstDifference(Keys(u, v)) \in Int
             /\ Opposite(FirstDifference(Keys(u, v)),
                         FirstDifference(Keys(v, u)))
  <2>1. Agree(FirstDifference(Keys(u, v)), FirstDifference(Keys(v, v)),
              FirstDifference(Keys(u, v)), FirstDifference(Keys(v, u)))
    BY <1>2, <1>3
  <2> HIDE DEF Keys
  <2> QED  BY <2>1 DEF Agree, Opposite
<1>4. /\ x = NullsLast(a, b) \/ (a # None /\ b # None /\ x \in Int)
      /\ y = NullsLast(b, c) \/ (b # None /\ c # None /\ y \in Int)
      /\ \/ z = NullsLast(a, c) /\ w = NullsLast(c, a)
         \/ a # None /\ c # None /\ Opposite(z, w)
  <2> HIDE DEF Keys
  <2> QED  BY <1>1, <1>3
<1>5. a # None /\ b # None /\ c # None => Agree(x, y, z, w)
  <2> HIDE DEF Keys
  <2> QED  BY <1>1, <1>2
<1>6. PutsNullsLast(a, b, c, x, y, z, w)
  <2> HIDE DEF x, y, z, w
  <2> QED  BY <1>4, <1>5 DEF PutsNullsLast
<1>7. Agree(x, y, z, w)
  <2> HIDE DEF x, y, z, w
  <2> QED  BY <1>6, NullsLastAgrees
<1> QED  BY <1>7

\* What the review index and the reviews say of a store, usable or not.
LEMMA UsableIsHit ==
  ASSUME NEW c, IsShop(c), NEW q, NEW on
  PROVE  UsableEvidence(c, q, on) = None \/ IsHit(UsableEvidence(c, q, on))
BY DEF IsShop, IsHit, UsableEvidence, ReviewEvidence

\* The relevance that the orders of search share.
LEMMA SharedRelevanceAgrees ==
  ASSUME NEW a, NEW b, NEW c, IsShop(a), IsShop(b), IsShop(c),
         NEW q, IsQuery(q), NEW on
  PROVE  Agree(compareSharedRelevance(a, b, q, on),
               compareSharedRelevance(b, c, q, on),
               compareSharedRelevance(a, c, q, on),
               compareSharedRelevance(c, a, q, on))
<1> DEFINE menu(s) == Truth(VerifiedMenuMatch(s, q))
           included(s) == IncludedMatches(s, q)
           hit(s) == UsableEvidence(s, q, on)
           count(s) == IF Reviewed(s) THEN s.count ELSE 0
           latest(s) == IF Reviewed(s) THEN s.latest ELSE None
           Keys(u, v) == <<menu(v) - menu(u), included(v) - included(u),
                           compareEvidence(hit(u), hit(v)),
                           count(v) - count(u),
                           descendingNullable(latest(u), latest(v))>>
           x == Keys(a, b)
           y == Keys(b, c)
           z == Keys(a, c)
           w == Keys(c, a)
           n == 5
<1>1. ASSUME NEW s, IsShop(s)
      PROVE  /\ menu(s) \in Int /\ included(s) \in Int /\ count(s) \in Int
             /\ latest(s) \in Nat \cup {None}
             /\ hit(s) = None \/ IsHit(hit(s))
  <2>1. menu(s) \in Int
    BY DEF Truth
  <2>2. included(s) \in Int
    <3>1. IsFiniteSet(q.included)
      BY DEF IsQuery
    <3>2. IsFiniteSet(q.included \cap Categories(s))
      BY <3>1, FS_Intersection
    <3> QED  BY <3>2, FS_CardinalityType DEF IncludedMatches
  <2>3. count(s) \in Int
    BY <1>1 DEF IsShop
  <2>4. latest(s) \in Nat \cup {None}
    BY <1>1 DEF IsShop
  <2>5. hit(s) = None \/ IsHit(hit(s))
    BY <1>1, UsableIsHit
  <2> QED  BY <2>1, <2>2, <2>3, <2>4, <2>5
<1>2. /\ compareSharedRelevance(a, b, q, on) = FirstDifference(x)
      /\ compareSharedRelevance(b, c, q, on) = FirstDifference(y)
      /\ compareSharedRelevance(a, c, q, on) = FirstDifference(z)
      /\ compareSharedRelevance(c, a, q, on) = FirstDifference(w)
  BY DEF compareSharedRelevance
<1>3. /\ n \in Nat
      /\ DOMAIN x = 1..n /\ DOMAIN y = 1..n /\ DOMAIN z = 1..n
      /\ DOMAIN w = 1..n
  OBVIOUS
<1>4. Agree(x[1], y[1], z[1], w[1])
  <2> HIDE DEF menu, included, hit, count, latest
  <2> QED  BY <1>1 DEF Agree, Coherent, Opposite
<1>5. Agree(x[2], y[2], z[2], w[2])
  <2> HIDE DEF menu, included, hit, count, latest
  <2> QED  BY <1>1 DEF Agree, Coherent, Opposite
<1>6. Agree(x[3], y[3], z[3], w[3])
  <2> HIDE DEF menu, included, hit, count, latest
  <2> QED  BY <1>1, EvidenceAgrees
<1>7. Agree(x[4], y[4], z[4], w[4])
  <2> HIDE DEF menu, included, hit, count, latest
  <2> QED  BY <1>1 DEF Agree, Coherent, Opposite
<1>8. Agree(x[5], y[5], z[5], w[5])
  <2> HIDE DEF menu, included, hit, count, latest
  <2> QED  BY <1>1, NullableAgrees
<1>9. \A i \in 1..n : Agree(x[i], y[i], z[i], w[i])
  <2> HIDE DEF x, y, z, w
  <2> QED  BY <1>4, <1>5, <1>6, <1>7, <1>8
<1> HIDE DEF x, y, z, w, n
<1>10. Agree(FirstDifference(x), FirstDifference(y), FirstDifference(z),
             FirstDifference(w))
  BY <1>3, <1>9, FirstDifferenceAgrees
<1> QED  BY <1>2, <1>10

\* Whether a store is open and how far it is, in the order asked for.
LEMMA VisitConditionsAgree ==
  ASSUME NEW a, NEW b, NEW c, IsShop(a), IsShop(b), IsShop(c), NEW q
  PROVE  Agree(visitConditions(a, b, q), visitConditions(b, c, q),
               visitConditions(a, c, q), visitConditions(c, a, q))
<1> DEFINE Opening(u, v) == openingRank(u) - openingRank(v)
           Distance(u, v) == ascendingNumber(u.distance, v.distance)
           Keys(u, v) == IF q.sort = "DISTANCE"
                         THEN <<Distance(u, v), Opening(u, v)>>
                         ELSE <<Opening(u, v), Distance(u, v)>>
           x == Keys(a, b)
           y == Keys(b, c)
           z == Keys(a, c)
           w == Keys(c, a)
           n == 2
<1>1. \A s : IsShop(s) => openingRank(s) \in Int
  BY DEF IsShop, openingRank
<1>2. Agree(Opening(a, b), Opening(b, c), Opening(a, c), Opening(c, a))
  BY <1>1 DEF Agree, Coherent, Opposite
<1>3. Agree(Distance(a, b), Distance(b, c), Distance(a, c), Distance(c, a))
  BY NullableAgrees DEF IsShop
<1>4. /\ n \in Nat
      /\ DOMAIN x = 1..n /\ DOMAIN y = 1..n /\ DOMAIN z = 1..n
      /\ DOMAIN w = 1..n
  OBVIOUS
<1>5. \A i \in 1..n : Agree(x[i], y[i], z[i], w[i])
  <2> HIDE DEF Opening, Distance
  <2>1. CASE q.sort = "DISTANCE"
    <3>1. Agree(x[1], y[1], z[1], w[1]) /\ Agree(x[2], y[2], z[2], w[2])
      BY <1>2, <1>3, <2>1
    <3> HIDE DEF x, y, z, w
    <3> QED  BY <3>1
  <2>2. CASE q.sort # "DISTANCE"
    <3>1. Agree(x[1], y[1], z[1], w[1]) /\ Agree(x[2], y[2], z[2], w[2])
      BY <1>2, <1>3, <2>2
    <3> HIDE DEF x, y, z, w
    <3> QED  BY <3>1
  <2> QED  BY <2>1, <2>2
<1>6. /\ visitConditions(a, b, q) = FirstDifference(x)
      /\ visitConditions(b, c, q) = FirstDifference(y)
      /\ visitConditions(a, c, q) = FirstDifference(z)
      /\ visitConditions(c, a, q) = FirstDifference(w)
  BY DEF visitConditions
<1> HIDE DEF x, y, z, w, n
<1>7. Agree(FirstDifference(x), FirstDifference(y), FirstDifference(z),
            FirstDifference(w))
  BY <1>4, <1>5, FirstDifferenceAgrees
<1> QED  BY <1>6, <1>7

\* How complete a store is, and its rating drawn to the mean, are numbers.
LEMMA CompletenessIsInt ==
  ASSUME NEW c
  PROVE  calculateCompleteness(c) \in Int
BY DEF calculateCompleteness

\* So is the rating, since the mean counts for some ratings.
LEMMA AdjustedRatingIsInt ==
  ASSUME NEW c, IsShop(c), NEW mean \in Int
  PROVE  calculateAdjustedRating(c, mean) \in Int
<1>1. PriorWeight \in Nat \ {0}
  BY RecommendationAssumption DEF RecommendationAssumption
<1> DEFINE a == c.ratingSum + mean * PriorWeight
           b == c.rated + PriorWeight
<1>2. a \in Int /\ b \in Nat \ {0}
  <2>1. mean * PriorWeight \in Int
    BY <1>1
  <2> QED  BY <1>1, <2>1 DEF IsShop
<1> HIDE DEF a, b
<1>3. Rounded(a, b) \in Int
  BY <1>2, RoundedIsInt
<1> QED  BY <1>3 DEF a, b, calculateAdjustedRating

\* The whole comparison agrees, and is 0 only for stores of one id.
LEMMA CompareAgrees ==
  ASSUME NEW a, NEW b, NEW c, IsShop(a), IsShop(b), IsShop(c),
         a.id \in Int, b.id \in Int, c.id \in Int,
         NEW q, IsQuery(q), NEW on, NEW mean \in Int
  PROVE  /\ Agree(compareCandidates(a, b, q, on, mean),
                  compareCandidates(b, c, q, on, mean),
                  compareCandidates(a, c, q, on, mean),
                  compareCandidates(c, a, q, on, mean))
         /\ compareCandidates(a, c, q, on, mean) = 0 => a.id = c.id
<1> DEFINE Shared(u, v) == compareSharedRelevance(u, v, q, on)
           Visit(u, v) == visitConditions(u, v, q)
           complete(s) == calculateCompleteness(s)
           rating(s) == calculateAdjustedRating(s, mean)
           Keys(u, v) == <<Shared(u, v), Visit(u, v),
                           complete(v) - complete(u), rating(v) - rating(u),
                           u.id - v.id>>
           x == Keys(a, b)
           y == Keys(b, c)
           z == Keys(a, c)
           w == Keys(c, a)
           n == 5
<1>1. /\ compareCandidates(a, b, q, on, mean) = FirstDifference(x)
      /\ compareCandidates(b, c, q, on, mean) = FirstDifference(y)
      /\ compareCandidates(a, c, q, on, mean) = FirstDifference(z)
      /\ compareCandidates(c, a, q, on, mean) = FirstDifference(w)
  BY DEF compareCandidates
<1>2. /\ n \in Nat
      /\ DOMAIN x = 1..n /\ DOMAIN y = 1..n /\ DOMAIN z = 1..n
      /\ DOMAIN w = 1..n
  OBVIOUS
<1>3. \A s : IsShop(s) => complete(s) \in Int /\ rating(s) \in Int
  BY CompletenessIsInt, AdjustedRatingIsInt
<1>4. Agree(Shared(a, b), Shared(b, c), Shared(a, c), Shared(c, a))
  BY SharedRelevanceAgrees
<1>5. Agree(Visit(a, b), Visit(b, c), Visit(a, c), Visit(c, a))
  BY VisitConditionsAgree
<1>6. Agree(x[3], y[3], z[3], w[3]) /\ Agree(x[4], y[4], z[4], w[4])
  <2> HIDE DEF Shared, Visit, complete, rating
  <2> QED  BY <1>3 DEF Agree, Coherent, Opposite
<1>7. Agree(x[5], y[5], z[5], w[5]) /\ z[5] = a.id - c.id
  <2> HIDE DEF Shared, Visit, complete, rating
  <2> QED  BY DEF Agree, Coherent, Opposite
<1>8. Agree(x[1], y[1], z[1], w[1]) /\ Agree(x[2], y[2], z[2], w[2])
  <2> HIDE DEF Shared, Visit, complete, rating
  <2> QED  BY <1>4, <1>5
<1>9. \A i \in 1..n : Agree(x[i], y[i], z[i], w[i])
  <2> HIDE DEF x, y, z, w
  <2> QED  BY <1>6, <1>7, <1>8
<1>10. \A i \in 1..n : z[i] \in Int
  BY <1>9 DEF Agree, Coherent
<1>11. 5 \in 1..n
  OBVIOUS
<1> HIDE DEF x, y, z, w, n
<1>12. Agree(FirstDifference(x), FirstDifference(y), FirstDifference(z),
             FirstDifference(w))
  BY <1>2, <1>9, FirstDifferenceAgrees
<1>13. FirstDifference(z) = 0 => z[5] = 0
  BY <1>2, <1>10, <1>11, FirstDifferenceInt
<1> QED  BY <1>1, <1>7, <1>12, <1>13

\* recommendation-spec.md:222, for any stores and any query: of two stores
\* exactly one is first, and no three are in a circle, whatever is null
\* (rank-candidates.ts).
THEOREM RankIsAlwaysStrict == SearchSpec => []RankIsStrict
<1>1. ASSUME SearchInv PROVE RankIsStrict
  <2> SUFFICES ASSUME query # None,
                      NEW l \in shops, NEW r \in shops, NEW m \in shops
               PROVE  /\ l # r => (Before(l, r) <=> ~Before(r, l))
                      /\ ~(l = r /\ Before(l, r))
                      /\ Before(l, m) /\ Before(m, r) => Before(l, r)
    BY DEF RankIsStrict
  <2> DEFINE cmp(u, v) == compareCandidates(u, v, query, fts, Mean)
  <2>1. IsQuery(query)
    BY <1>1, SearchAssumption DEF SearchAssumption, SearchInv
  <2>2. Mean \in Int
    BY <1>1, MeanIsInt
  <2>3. \A c \in shops : IsShop(c) /\ c.id \in Int
    BY <1>1, FS_CardinalityType DEF SearchInv
  <2>4. ASSUME NEW a \in shops, NEW b \in shops, NEW c \in shops
        PROVE  /\ Agree(cmp(a, b), cmp(b, c), cmp(a, c), cmp(c, a))
               /\ cmp(a, c) = 0 => a.id = c.id
    BY <2>1, <2>2, <2>3, CompareAgrees
  <2>5. \A a, b \in shops : a.id = b.id => a = b
    BY <1>1 DEF SearchInv
  <2> DEFINE x == cmp(l, m)
             y == cmp(m, r)
             z == cmp(l, r)
             w == cmp(r, l)
  <2>6. Agree(x, y, z, w) /\ (z = 0 => l = r) /\ (l = r => z = w)
    BY <2>4, <2>5
  <2>7. /\ Before(l, m) <=> x < 0
        /\ Before(m, r) <=> y < 0
        /\ Before(l, r) <=> z < 0
        /\ Before(r, l) <=> w < 0
    BY DEF Before
  <2> HIDE DEF x, y, z, w
  <2> QED  BY <2>6, <2>7 DEF Agree, Coherent, Opposite
<1> QED  BY <1>1, SearchInvHolds, PTL


-----------------------------------------------------------------------------
(* The pages of the register *)

\* The register's order lists its rows, and any set of them is finite.
LEMMA RowsFinite ==
  ASSUME NEW rows \in SUBSET Row
  PROVE  IsFiniteSet(rows) /\ Cardinality(rows) \in Nat
<1>1. RowOrder \in Seq(Row) /\ Range(RowOrder) = Row
  BY IngestionAssumption DEF IngestionAssumption
<1> DEFINE N == Len(RowOrder)
           f == [i \in 1..N |-> RowOrder[i]]
<1>2. N \in Nat
  BY <1>1
<1>3. f \in Surjection(1..N, Row)
  <2>1. Row = {RowOrder[i] : i \in 1..N}
    BY <1>1, RangeEquality
  <2> HIDE DEF N
  <2> QED  BY <2>1 DEF Surjection
<1>4. IsFiniteSet(Row)
  <2> HIDE DEF f, N
  <2> QED  BY <1>2, <1>3, FS_Surjection, FS_Interval
<1> QED  BY <1>4, FS_Subset, FS_CardinalityType

\* upTo lists the rows among the first ones of the register's order.
ListsUpTo(upTo, rows) ==
  /\ upTo[0] = << >>
  /\ \A n \in 1..Len(RowOrder) :
       upTo[n] = IF RowOrder[n] \in rows
                 THEN Append(upTo[n - 1], RowOrder[n]) ELSE upTo[n - 1]

\* A listing is built row by row.
LEMMA ListingSteps ==
  ASSUME NEW rows
  PROVE  \E upTo \in [0..Len(RowOrder) -> Seq(Row)] :
           ListsUpTo(upTo, rows) /\ Listing(rows) = upTo[Len(RowOrder)]
<1> DEFINE N == Len(RowOrder)
           B == Seq(Row)
           Iter(f) == [n \in 0..N |->
             IF n = 0 THEN <<>>
             ELSE IF RowOrder[n] \in rows THEN Append(f[n - 1], RowOrder[n])
             ELSE f[n - 1]]
           upTo == CHOOSE f : f = Iter(f)
           op == [x \in (1..N) \X B |->
                    IF RowOrder[x[1]] \in rows
                    THEN Append(x[2], RowOrder[x[1]]) ELSE x[2]]
<1>1. N \in Nat /\ \A i \in 1..N : RowOrder[i] \in Row
  BY IngestionAssumption DEF IngestionAssumption
<1>2. op \in [(1..N) \X B -> B]
  <2> HIDE DEF N
  <2> QED  BY <1>1
<1>3. \A i \in 1..N, b \in B :
        op[<<i, b>>] = IF RowOrder[i] \in rows
                       THEN Append(b, RowOrder[i]) ELSE b
  OBVIOUS
<1>4. PICK g \in [0..N -> B] : IsRecursion(g, N, << >>, op)
  <2>1. << >> \in B
    OBVIOUS
  <2> HIDE DEF op, B, N
  <2> QED  BY <1>1, <1>2, <2>1, RecursionExists
<1>5. g = Iter(g)
  <2>1. ASSUME NEW n \in 0..N
        PROVE  g[n] = IF n = 0 THEN <<>>
                      ELSE IF RowOrder[n] \in rows
                           THEN Append(g[n - 1], RowOrder[n])
                      ELSE g[n - 1]
    <3>1. CASE n = 0
      <4> HIDE DEF op, B, N
      <4> QED  BY <1>4, <3>1 DEF IsRecursion
    <3>2. CASE n # 0
      <4>1. n \in 1..N /\ n - 1 \in 0..N
        BY <1>1, <3>2
      <4>2. g[n - 1] \in B /\ g[n] = op[<<n, g[n - 1]>>]
        <5> HIDE DEF op, B, N
        <5> QED  BY <1>4, <4>1 DEF IsRecursion
      <4> HIDE DEF op, B, N
      <4> QED  BY <1>3, <3>2, <4>1, <4>2
    <3> QED  BY <3>1, <3>2
  <2> HIDE DEF N, op
  <2> QED  BY <2>1
<1>6. upTo = Iter(upTo)
  <2> HIDE DEF N, op
  <2> QED  BY <1>5, Zenon
<1>7. upTo[0] = << >>
      /\ \A n \in 1..N :
           upTo[n] = IF RowOrder[n] \in rows
                     THEN Append(upTo[n - 1], RowOrder[n])
                     ELSE upTo[n - 1]
  <2>1. 0 \in 0..N /\ \A n \in 1..N : n \in 0..N /\ n # 0
    BY <1>1
  <2> HIDE DEF upTo, N
  <2> QED  BY <1>6, <2>1
<1> HIDE DEF upTo
<1> DEFINE T == {n \in Nat : n \in 0..N => upTo[n] \in B}
<1>8. 0 \in T
  <2>1. << >> \in B
    OBVIOUS
  <2> HIDE DEF B, N, op
  <2> QED  BY <1>7, <2>1
<1>9. ASSUME NEW n \in Nat, n \in T PROVE n + 1 \in T
  <2>1. CASE n + 1 \in 0..N
    <3>1. n \in 0..N /\ n + 1 \in 1..N /\ (n + 1) - 1 = n
      BY <1>1, <2>1
    <3>2. RowOrder[n + 1] \in Row /\ upTo[n] \in B
      BY <1>1, <1>9, <3>1
    <3>3. Append(upTo[n], RowOrder[n + 1]) \in B
      BY <3>2, AppendProperties
    <3> HIDE DEF N, B
    <3>4. upTo[n + 1] \in B
      BY <1>7, <3>1, <3>2, <3>3
    <3> QED  BY <3>4
  <2>2. CASE n + 1 \notin 0..N
    BY <2>2
  <2> QED  BY <2>1, <2>2
<1>10. \A n \in 0..N : upTo[n] \in B
  <2>1. Nat \subseteq T
    <3> HIDE DEF T, N
    <3> QED  BY <1>8, <1>9, Induction
  <2> QED  BY <2>1
<1>11. Listing(rows) = upTo[N]
  BY DEF Listing, upTo
<1> DEFINE lists == [n \in 0..N |-> upTo[n]]
<1>12. lists \in [0..N -> B] /\ \A n \in 0..N : lists[n] = upTo[n]
  BY <1>10
<1>13. 0 \in 0..N /\ N \in 0..N /\ \A n \in 1..N : n \in 0..N /\ n - 1 \in 0..N
  BY <1>1
<1>14. ListsUpTo(lists, rows) /\ Listing(rows) = lists[N]
  <2> HIDE DEF lists, B
  <2> QED  BY <1>7, <1>11, <1>12, <1>13 DEF ListsUpTo
<1> HIDE DEF lists
<1> QED  BY <1>12, <1>14

\* A listing is a sequence of rows.
LEMMA ListingIs ==
  ASSUME NEW rows
  PROVE  Listing(rows) \in Seq(Row)
<1> DEFINE N == Len(RowOrder)
<1>1. PICK upTo \in [0..N -> Seq(Row)] :
        ListsUpTo(upTo, rows) /\ Listing(rows) = upTo[N]
  BY ListingSteps
<1>2. N \in 0..N
  BY IngestionAssumption DEF IngestionAssumption
<1> QED  BY <1>1, <1>2

\* What the provider may answer is a page.
LEMMA ResponseIs ==
  ASSUME NEW n \in Nat \ {0}, NEW items \in Responses(n)
  PROVE  items \in Seq(Row) /\ Len(items) <= RowsPerPage
<1>1. ASSUME NEW l \in Seq(Row),
             l = Listing(register)
      PROVE  PageItems(n) \in Seq(Row) /\ Len(PageItems(n)) <= RowsPerPage
  <2> DEFINE a == (n - 1) * RowsPerPage
             b == n * RowsPerPage
             last == IF b < Len(l) THEN b ELSE Len(l)
  <2>1. RowsPerPage \in Nat \ {0}
    BY IngestionAssumption DEF IngestionAssumption
  <2>2. a \in Nat /\ b = a + RowsPerPage
    BY <2>1
  <2>3. PageItems(n) = SubSeq(l, a + 1, last)
    BY <1>1 DEF PageItems
  <2> HIDE DEF a, b
  <2>4. last \in Int /\ last <= Len(l) /\ last <= a + RowsPerPage
    BY <2>1, <2>2
  <2> HIDE DEF last
  <2>5. \A i \in a + 1 .. last : l[i] \in Row
    BY <2>2, <2>4
  <2>6. /\ SubSeq(l, a + 1, last) \in Seq(Row)
        /\ Len(SubSeq(l, a + 1, last))
             = IF a + 1 <= last THEN last - (a + 1) + 1 ELSE 0
    <3>1. a + 1 \in Int
      BY <2>2
    <3> QED  BY <2>4, <2>5, <3>1, SubSeqProperties
  <2> QED  BY <2>1, <2>2, <2>3, <2>4, <2>6
<1>2. PageItems(n) \in Seq(Row) /\ Len(PageItems(n)) <= RowsPerPage
  BY <1>1, ListingIs
<1>3. ASSUME NEW s \in Seq(Row), s # << >>
      PROVE  Front(s) \in Seq(Row) /\ Len(Front(s)) <= Len(s)
  <2> DEFINE k == Len(s) - 1
  <2>1. k \in Int /\ k <= Len(s) /\ 0 <= k /\ \A i \in 1..k : s[i] \in Row
    BY <1>3
  <2>2. Front(s) = SubSeq(s, 1, k)
    BY DEF Front
  <2> HIDE DEF k
  <2>3. /\ SubSeq(s, 1, k) \in Seq(Row)
        /\ Len(SubSeq(s, 1, k)) = IF 1 <= k THEN k - 1 + 1 ELSE 0
    BY <2>1, SubSeqProperties
  <2> QED  BY <2>1, <2>2, <2>3
<1>4. RowsPerPage \in Nat
  BY IngestionAssumption DEF IngestionAssumption
<1> QED  BY <1>2, <1>3, <1>4 DEF Responses

-----------------------------------------------------------------------------
(* What is stored of a snapshot *)

CountRecord == [read : Nat, inserted : Nat, updated : Nat, rejected : Nat]
StagedRows == UNION {[K -> Row] : K \in SUBSET STRING}
Checkpoints == UNION {[D -> CountRecord] : D \in SUBSET Nat}
SnapshotRecord ==
  [rows : SUBSET Row, staged : StagedRows, issues : SUBSET Row,
   checkpoint : Checkpoints,
   status : {"none", "RUNNING", "SUCCEEDED", "FAILED_FINAL"},
   attempt : Nat, counts : CountRecord]

\* What is stored of a content is rows of it, staged under their numbers.
StoredOf(c) ==
  {t \in SnapshotRecord :
     /\ t.rows \subseteq Range(c)
     /\ \A k \in DOMAIN t.staged :
          t.staged[k] \in Range(c) /\ t.staged[k].mngNo = k}

\* No number is listed twice in a content.
Distinct(c) == Cardinality(Ids(Range(c))) = Len(c)

\* A row is stored, and then staged under its number or reported.
Keeps(t, r) ==
  /\ r \in t.rows
  /\ Accepted(r) => r.mngNo \in DOMAIN t.staged
  /\ ~Accepted(r) => r \in t.issues

\* Nothing that was stored goes away.
Grows(t, u) ==
  /\ t.rows \subseteq u.rows /\ t.issues \subseteq u.issues
  /\ DOMAIN t.staged \subseteq DOMAIN u.staged
  /\ DOMAIN t.checkpoint \subseteq DOMAIN u.checkpoint

\* A row that is kept stays kept as what is stored grows.
LEMMA GrowsKeeps ==
  ASSUME NEW t, NEW u, NEW r, Grows(t, u), Keeps(t, r)
  PROVE  Keeps(u, r)
BY DEF Grows, Keeps

\* What grows and grows again has grown.
LEMMA GrowsOn ==
  ASSUME NEW t, NEW u, NEW v, Grows(t, u), Grows(u, v)
  PROVE  Grows(t, v)
BY DEF Grows

\* Rows are added, and the run and its checkpoints stay what they are.
Adds(t, u) ==
  Grows(t, u) /\ u.status = t.status /\ u.checkpoint = t.checkpoint

\* What is added in two steps is added.
LEMMA AddsOn ==
  ASSUME NEW t, NEW u, NEW v, Adds(t, u), Adds(u, v)
  PROVE  Adds(t, v)
BY GrowsOn DEF Adds

\* The accumulator of a page: the snapshot and the counts of the page.
Accumulators(c) == [t : StoredOf(c), n : CountRecord]

\* A row that is rejected is counted, the rows read were counted before.
Counts(n, m, row) ==
  m.read = n.read
  /\ m.rejected = IF Accepted(row) THEN n.rejected ELSE n.rejected + 1

\* One row more: what was stored stays, and the row is kept.
LEMMA PersistRowIs ==
  ASSUME NEW c \in Seq(Row), NEW acc \in Accumulators(c),
         NEW row \in Range(c)
  PROVE  /\ persistRow(acc, row) \in Accumulators(c)
         /\ Adds(acc.t, persistRow(acc, row).t)
         /\ Keeps(persistRow(acc, row).t, row)
         /\ Counts(acc.n, persistRow(acc, row).n, row)
<1> DEFINE t == acc.t
           n == acc.n
           new == persistRow(acc, row)
           staged == [k \in DOMAIN t.staged \cup {row.mngNo} |->
                        IF k = row.mngNo THEN row ELSE t.staged[k]]
           t1 == [t EXCEPT !.rows = @ \cup {row}]
           t2 == [t1 EXCEPT !.issues = @ \cup {row}]
           t3 == [t1 EXCEPT !.staged = staged]
           known == row.mngNo \in DOMAIN t.staged
<1>1. t \in StoredOf(c) /\ t \in SnapshotRecord /\ n \in CountRecord
      /\ acc = [t |-> t, n |-> n]
  BY DEF Accumulators, StoredOf
<1>2. row \in Row /\ row.mngNo \in STRING
  <2>1. row \in Row
    BY RangeOfSeq
  <2> QED  BY <2>1, IngestionAssumption DEF IngestionAssumption, SourceRow
<1>3. staged \in StagedRows
  <2>1. PICK K \in SUBSET STRING : t.staged \in [K -> Row]
    BY <1>1 DEF SnapshotRecord, StagedRows
  <2>2. staged \in [K \cup {row.mngNo} -> Row]
    BY <2>1, <1>2
  <2>3. K \cup {row.mngNo} \in SUBSET STRING
    BY <1>2
  <2> HIDE DEF staged
  <2> QED  BY <2>2, <2>3 DEF StagedRows
<1>4. /\ DOMAIN staged = DOMAIN t.staged \cup {row.mngNo}
      /\ \A k \in DOMAIN staged :
           staged[k] = IF k = row.mngNo THEN row ELSE t.staged[k]
  OBVIOUS
<1> HIDE DEF staged
<1>5. /\ t1 \in SnapshotRecord /\ t1.rows = t.rows \cup {row}
      /\ t1.staged = t.staged /\ t1.issues = t.issues
      /\ t1.checkpoint = t.checkpoint /\ t1.status = t.status
  BY <1>1, <1>2 DEF SnapshotRecord
<1> HIDE DEF t1
<1>6. /\ t2 \in SnapshotRecord /\ t2.rows = t1.rows
      /\ t2.staged = t.staged /\ t2.issues = t.issues \cup {row}
      /\ t2.checkpoint = t.checkpoint /\ t2.status = t.status
  BY <1>2, <1>5 DEF SnapshotRecord
<1>7. /\ t3 \in SnapshotRecord /\ t3.rows = t1.rows
      /\ t3.staged = staged /\ t3.issues = t.issues
      /\ t3.checkpoint = t.checkpoint /\ t3.status = t.status
  BY <1>3, <1>5 DEF SnapshotRecord
<1> HIDE DEF t2, t3
<1>8. t1 \in StoredOf(c) /\ Adds(t, t1)
  BY <1>1, <1>5 DEF StoredOf, Grows, Adds
<1>9. t2 \in StoredOf(c) /\ Adds(t, t2)
  BY <1>1, <1>5, <1>6 DEF StoredOf, Grows, Adds
<1>10. t3 \in StoredOf(c) /\ Adds(t, t3)
  <2>1. t3.rows \subseteq Range(c)
    BY <1>1, <1>5, <1>7 DEF StoredOf
  <2>2. ASSUME NEW k \in DOMAIN t3.staged
        PROVE  t3.staged[k] \in Range(c) /\ t3.staged[k].mngNo = k
    BY <1>1, <1>4, <1>7 DEF StoredOf
  <2> QED  BY <1>4, <1>5, <1>7, <2>1, <2>2 DEF StoredOf, Grows, Adds
<1>11. CASE ~Accepted(row)
  <2>1. new = [t |-> t2, n |-> [n EXCEPT !.rejected = @ + 1]]
    BY <1>1, <1>11 DEF persistRow, t1, t2
  <2>2. /\ [n EXCEPT !.rejected = @ + 1] \in CountRecord
        /\ Counts(n, [n EXCEPT !.rejected = @ + 1], row)
    <3> HIDE DEF n
    <3> QED  BY <1>1, <1>11 DEF CountRecord, Counts
  <2> HIDE DEF n, t
  <2>3. new.t = t2 /\ new \in Accumulators(c) /\ Counts(n, new.n, row)
    BY <1>9, <2>1, <2>2 DEF Accumulators
  <2>4. Keeps(t2, row)
    BY <1>5, <1>6, <1>11 DEF Keeps
  <2> HIDE DEF new
  <2> QED  BY <1>9, <2>3, <2>4 DEF new, t, n
<1>12. CASE Accepted(row) /\ known /\ t.staged[row.mngNo] = row
  <2>1. new = [t |-> t1, n |-> n]
    BY <1>1, <1>12 DEF persistRow, t1
  <2> HIDE DEF n, t
  <2>2. new.t = t1 /\ new \in Accumulators(c) /\ Counts(n, new.n, row)
    BY <1>1, <1>8, <1>12, <2>1 DEF Accumulators, Counts
  <2>3. Keeps(t1, row)
    BY <1>5, <1>12 DEF Keeps
  <2> HIDE DEF new
  <2> QED  BY <1>8, <2>2, <2>3 DEF new, t, n
<1>13. CASE Accepted(row) /\ ~ (known /\ t.staged[row.mngNo] = row)
  <2> DEFINE m == [n EXCEPT !.inserted = IF known THEN @ ELSE @ + 1,
                            !.updated = IF known THEN @ + 1 ELSE @]
  <2>1. new = [t |-> t3, n |-> m]
    BY <1>1, <1>13 DEF persistRow, t1, t3, staged
  <2>2. m \in CountRecord /\ Counts(n, m, row)
    <3> DEFINE a == IF known THEN n.inserted ELSE n.inserted + 1
               b == IF known THEN n.updated + 1 ELSE n.updated
    <3>1. m = [n EXCEPT !.inserted = a, !.updated = b]
      OBVIOUS
    <3>2. n.inserted \in Nat /\ n.updated \in Nat
      <4> HIDE DEF n, t
      <4> QED  BY <1>1 DEF CountRecord
    <3>3. a \in Nat /\ b \in Nat
      <4> HIDE DEF known, n
      <4> QED  BY <3>2
    <3> HIDE DEF a, b, m, n, t
    <3> QED  BY <1>1, <1>13, <3>1, <3>3 DEF CountRecord, Counts
  <2> HIDE DEF n, t, m
  <2>3. new.t = t3 /\ new \in Accumulators(c) /\ Counts(n, new.n, row)
    BY <1>10, <2>1, <2>2 DEF Accumulators
  <2>4. Keeps(t3, row)
    BY <1>4, <1>5, <1>7, <1>13 DEF Keeps
  <2> HIDE DEF new
  <2> QED  BY <1>10, <2>3, <2>4 DEF new, t, n
<1> QED  BY <1>11, <1>12, <1>13

\* The positions of the rows that are rejected.
RejectedOf(rows) == {i \in 1..Len(rows) : ~Accepted(rows[i])}

\* There are finitely many of them.
LEMMA RejectedFinite ==
  ASSUME NEW rows, Len(rows) \in Nat
  PROVE  /\ IsFiniteSet(RejectedOf(rows))
         /\ Cardinality(RejectedOf(rows)) \in Nat
<1>1. IsFiniteSet(1..Len(rows))
  BY FS_Interval
<1>2. RejectedOf(rows) \subseteq 1..Len(rows)
  BY DEF RejectedOf
<1> QED  BY <1>1, <1>2, FS_Subset, FS_CardinalityType

\* The rows of a page, one after the other, in one transaction.
LEMMA PersistPageIs ==
  ASSUME NEW c \in Seq(Row), NEW base \in Accumulators(c),
         NEW rows \in Seq(Range(c))
  PROVE  LET done == FoldLeft(persistRow, base, rows) IN
         /\ done \in Accumulators(c) /\ Adds(base.t, done.t)
         /\ \A i \in 1..Len(rows) : Keeps(done.t, rows[i])
         /\ done.n.read = base.n.read
         /\ done.n.rejected
              = base.n.rejected + Cardinality(RejectedOf(rows))
<1> DEFINE S == 1..Len(rows)
           B == Accumulators(c)
           pick == [s \in SUBSET S |-> Max(s)]
           op == [xb \in S \X B |-> persistRow(xb[2], rows[xb[1]])]
           Iter(f) == [s \in SUBSET S |->
             IF s = {} THEN base
             ELSE persistRow(f[s \ {Max(s)}], rows[Max(s)])]
           iter == CHOOSE f : f = Iter(f)
<1>1. Len(rows) \in Nat /\ DOMAIN rows = S
      /\ \A i \in S : rows[i] \in Range(c)
  OBVIOUS
<1>2. IsFiniteSet(S)
  BY <1>1, FS_Interval
<1>3. ASSUME NEW s \in SUBSET S, s # {} PROVE Max(s) \in s
  <2> DEFINE U == {Len(rows) - x : x \in s}
  <2>1. U \in SUBSET Nat /\ U # {}
    <3>1. \A x \in 1..Len(rows) : Len(rows) - x \in Nat
      BY <1>1
    <3> QED  BY <1>3, <3>1
  <2>2. PICK n \in U : \A m \in U : n <= m
    <3> HIDE DEF U
    <3> QED  BY <2>1, LeastElement
  <2>3. PICK x \in s : n = Len(rows) - x
    BY <2>2
  <2>4. \A y \in s : x >= y
    <3>1. ASSUME NEW y \in s PROVE x >= y
      <4>1. n <= Len(rows) - y
        BY <2>2
      <4>2. x \in Nat /\ y \in Nat
        BY <1>1
      <4> QED  BY <2>3, <4>1, <4>2, <1>1
    <3> QED  BY <3>1
  <2> QED  BY <2>3, <2>4 DEF Max
<1>4. Picks(pick, S)
  BY <1>3 DEF Picks
<1>5. ASSUME NEW x \in S, NEW b \in B
      PROVE  /\ op[<<x, b>>] = persistRow(b, rows[x])
             /\ persistRow(b, rows[x]) \in B
             /\ Adds(b.t, persistRow(b, rows[x]).t)
             /\ Keeps(persistRow(b, rows[x]).t, rows[x])
             /\ Counts(b.n, persistRow(b, rows[x]).n, rows[x])
  <2>1. /\ persistRow(b, rows[x]) \in B
        /\ Adds(b.t, persistRow(b, rows[x]).t)
        /\ Keeps(persistRow(b, rows[x]).t, rows[x])
        /\ Counts(b.n, persistRow(b, rows[x]).n, rows[x])
    BY <1>1, PersistRowIs
  <2>2. <<x, b>> \in S \X B /\ <<x, b>>[1] = x /\ <<x, b>>[2] = b
    OBVIOUS
  <2>3. op[<<x, b>>] = persistRow(<<x, b>>[2], rows[<<x, b>>[1]])
    <3> HIDE DEF S, B
    <3> QED  BY <2>2
  <2> QED  BY <2>1, <2>2, <2>3
<1>6. PICK k : IsFold(k, S, base, pick, op)
  <2> HIDE DEF S, op, pick, B, Iter, iter
  <2> QED  BY <1>2, <1>4, FoldExists
<1>7. \A s \in SUBSET S : k[s] \in B
  <2> HIDE DEF S, op, pick, B, Iter, iter
  <2>1. \A x \in S, b \in B : op[<<x, b>>] \in B
    BY <1>5
  <2>2. base \in B
    BY DEF B
  <2> QED  BY <1>2, <1>4, <2>1, <2>2, <1>6, FoldTyped
<1> DEFINE h == [s \in SUBSET S |-> k[s]]
<1>8. h = Iter(h)
  <2>1. ASSUME NEW s \in SUBSET S
        PROVE  h[s] = IF s = {} THEN base
                      ELSE persistRow(h[s \ {Max(s)}], rows[Max(s)])
    <3>1. h[s] = Folded(k, base, pick, op, s)
      BY <1>6 DEF IsFold
    <3>2. CASE s = {}
      BY <3>1, <3>2 DEF Folded
    <3>3. CASE s # {}
      <4>1. pick[s] = Max(s)
        OBVIOUS
      <4>2. pick[s] \in S /\ k[s \ {pick[s]}] \in B
            /\ h[s \ {pick[s]}] = k[s \ {pick[s]}]
        <5> HIDE DEF pick
        <5> QED  BY <3>3, <1>4, <1>7 DEF Picks
      <4>3. h[s] = op[<<pick[s], k[s \ {pick[s]}]>>]
        BY <3>1, <3>3 DEF Folded
      <4>4. h[s] = persistRow(h[s \ {pick[s]}], rows[pick[s]])
        <5> HIDE DEF op, pick, h, B, S
        <5> QED  BY <4>2, <4>3, <1>5
      <4> HIDE DEF pick, h
      <4> QED  BY <3>3, <4>1, <4>4
    <3> QED  BY <3>2, <3>3
  <2>2. h = [s \in SUBSET S |-> h[s]]
    OBVIOUS
  <2> HIDE DEF S, op, pick, h
  <2> QED  BY <2>1, <2>2
<1>9. iter = Iter(iter)
  <2> HIDE DEF S, h
  <2> QED  BY <1>8, Zenon
<1>10. FoldLeft(persistRow, base, rows) = iter[S]
  BY <1>1 DEF FoldLeft, MapThenFoldSet
<1> DEFINE Rejected(s) == {i \in s : ~Accepted(rows[i])}
           Good(s) == /\ iter[s] \in B /\ Adds(base.t, iter[s].t)
                      /\ \A i \in s : Keeps(iter[s].t, rows[i])
                      /\ iter[s].n.read = base.n.read
                      /\ iter[s].n.rejected
                           = base.n.rejected + Cardinality(Rejected(s))
           T == {s \in SUBSET S : Good(s)}
<1>11. {} \in T
  <2>1. iter[{}] = base
    <3> HIDE DEF iter, S
    <3> QED  BY <1>9
  <2>2. Adds(base.t, base.t)
    BY DEF Grows, Adds
  <2>3. Cardinality(Rejected({})) = 0 /\ base.n.rejected \in Nat
    <3>1. Rejected({}) = {}
      OBVIOUS
    <3>2. base.n \in CountRecord
      BY DEF Accumulators
    <3> QED  BY <3>1, <3>2, FS_EmptySet DEF CountRecord
  <2> HIDE DEF iter, Rejected
  <2> QED  BY <2>1, <2>2, <2>3
<1>12. ASSUME NEW s \in SUBSET S, s # {}, \A x \in s : s \ {x} \in T
       PROVE  s \in T
  <2> DEFINE x == Max(s)
             b == iter[s \ {x}]
  <2>1. x \in s
    BY <1>3, <1>12
  <2>2. iter[s] = persistRow(b, rows[x])
    <3> HIDE DEF iter, S
    <3> QED  BY <1>9, <1>12
  <2> HIDE DEF x
  <2>3. Good(s \ {x})
    BY <2>1, <1>12
  <2> HIDE DEF iter
  <2> HIDE DEF Rejected
  <2>4. /\ b \in B /\ Adds(base.t, b.t)
        /\ \A i \in s \ {x} : Keeps(b.t, rows[i])
        /\ b.n.read = base.n.read
        /\ b.n.rejected
             = base.n.rejected + Cardinality(Rejected(s \ {x}))
    BY <2>3
  <2>8. base.n.rejected \in Nat
    BY DEF Accumulators, CountRecord
  <2> HIDE DEF b, B
  <2>5. /\ iter[s] \in B /\ Adds(b.t, iter[s].t)
        /\ Keeps(iter[s].t, rows[x])
        /\ Counts(b.n, iter[s].n, rows[x])
    <3>1. x \in S
      BY <2>1
    <3> HIDE DEF op, S
    <3> QED  BY <2>2, <2>4, <3>1, <1>5
  <2>6. Adds(base.t, iter[s].t)
    BY <2>4, <2>5, AddsOn
  <2>7. ASSUME NEW i \in s PROVE Keeps(iter[s].t, rows[i])
    <3>1. CASE i = x
      BY <2>5, <3>1
    <3>2. CASE i # x
      BY <2>4, <2>5, <3>2, GrowsKeeps DEF Adds
    <3> QED  BY <3>1, <3>2
  <2>9. /\ Cardinality(Rejected(s \ {x})) \in Nat
        /\ Cardinality(Rejected(s))
             = IF Accepted(rows[x]) THEN Cardinality(Rejected(s \ {x}))
               ELSE Cardinality(Rejected(s \ {x})) + 1
    <3>1. IsFiniteSet(Rejected(s \ {x}))
      <4>1. Rejected(s \ {x}) \subseteq S
        BY DEF Rejected
      <4> QED  BY <4>1, <1>2, FS_Subset
    <3>2. CASE Accepted(rows[x])
      <4>1. Rejected(s) = Rejected(s \ {x})
        BY <2>1, <3>2 DEF Rejected
      <4> QED  BY <3>1, <3>2, <4>1, FS_CardinalityType
    <3>3. CASE ~Accepted(rows[x])
      <4>1. Rejected(s) = Rejected(s \ {x}) \cup {x}
            /\ x \notin Rejected(s \ {x})
        BY <2>1, <3>3 DEF Rejected
      <4> QED  BY <3>1, <3>3, <4>1, FS_CardinalityType, FS_AddElement
    <3> QED  BY <3>2, <3>3
  <2>10. /\ iter[s].n.read = base.n.read
         /\ iter[s].n.rejected
              = base.n.rejected + Cardinality(Rejected(s))
    <3>1. iter[s].n.read = b.n.read
          /\ iter[s].n.rejected = IF Accepted(rows[x]) THEN b.n.rejected
                                  ELSE b.n.rejected + 1
      BY <2>5 DEF Counts
    <3>2. \A u, v \in Nat : (u + v) + 1 = u + (v + 1)
      OBVIOUS
    <3>3. (base.n.rejected + Cardinality(Rejected(s \ {x}))) + 1
            = base.n.rejected + (Cardinality(Rejected(s \ {x})) + 1)
      BY <2>8, <2>9, <3>2
    <3> QED  BY <2>4, <2>9, <3>1, <3>3
  <2> QED  BY <2>5, <2>6, <2>7, <2>10
<1>13. S \in T
  <2> HIDE DEF T, S
  <2> QED  BY <1>2, <1>11, <1>12, SubsetInduction
<1>14. Rejected(S) = RejectedOf(rows)
  BY DEF RejectedOf
<1> HIDE DEF iter, Rejected
<1> QED  BY <1>10, <1>13, <1>14

\* The rows of a content differ, and so do their numbers.
LEMMA DistinctRows ==
  ASSUME NEW c \in Seq(Row), Distinct(c)
  PROVE  /\ \A i, j \in 1..Len(c) :
              c[i].managementNumber = c[j].managementNumber => i = j
         /\ \A r, q \in Range(c) :
              r.managementNumber = q.managementNumber => r = q
<1> DEFINE N == Len(c)
           I == Ids(Range(c))
           f == [i \in 1..N |-> c[i].managementNumber]
<1>1. N \in Nat /\ Range(c) = {c[i] : i \in 1..N}
      /\ \A i \in 1..N : c[i] \in Row
  BY RangeEquality
<1>2. f \in Surjection(1..N, I)
  <2> HIDE DEF N
  <2>1. /\ \A i \in 1..N : c[i].managementNumber \in I
        /\ \A x \in I : \E i \in 1..N : x = c[i].managementNumber
    <3>1. \A i \in 1..N : c[i] \in Range(c)
      BY <1>1
    <3>2. \A r \in Range(c) : \E i \in 1..N : r = c[i]
      BY <1>1
    <3>3. I = {r.managementNumber : r \in Range(c)}
      BY DEF Ids
    <3> HIDE DEF I
    <3> QED  BY <3>1, <3>2, <3>3
  <2> HIDE DEF I
  <2>2. f \in [1..N -> I]
    BY <2>1
  <2>3. \A x \in I : \E i \in 1..N : f[i] = x
    BY <2>1
  <2> HIDE DEF f
  <2> QED  BY <2>2, <2>3 DEF Surjection
<1>3. IsFiniteSet(1..N) /\ Cardinality(1..N) = N
  <2> HIDE DEF N
  <2>1. N \in Nat
    BY <1>1
  <2> DEFINE one == 1
  <2>2. /\ one \in Int /\ N \in Int
        /\ N = IF one > N THEN 0 ELSE N - one + 1
    BY <2>1
  <2>3. IsFiniteSet(one..N) /\ Cardinality(one..N) = N
    <3> HIDE DEF one
    <3> QED  BY <2>2, FS_Interval
  <2> QED  BY <2>3
<1>4. f \in Injection(1..N, I)
  <2> HIDE DEF f, I, N
  <2>1. Cardinality(I) = Cardinality(1..N)
    BY <1>3 DEF I, N, Distinct
  <2> QED  BY <1>2, <1>3, <2>1, FS_Surjection
<1>5. \A i, j \in 1..N :
        c[i].managementNumber = c[j].managementNumber => i = j
  <2>1. ASSUME NEW i \in 1..N, NEW j \in 1..N,
               c[i].managementNumber = c[j].managementNumber
        PROVE  i = j
    <3>1. f[i] = f[j]
      BY <2>1
    <3> HIDE DEF f, N, I
    <3> QED  BY <1>4, <3>1 DEF Injection, IsInjective
  <2> QED  BY <2>1
<1> HIDE DEF N
<1> QED  BY <1>1, <1>5 DEF N

-----------------------------------------------------------------------------
(* Snapshots and the processes that store them *)

\* A content is stored completely, with a checkpoint for every page.
Whole(t, c) ==
  /\ \A r \in Range(c) : Keeps(t, r)
  /\ \E m \in Nat :
       1..m \subseteq DOMAIN t.checkpoint /\ Len(c) <= m * RowsPerPage

\* What is stored is of its content, and whole where its run succeeded.
StoreOK(snap) ==
  \A c \in DOMAIN snap :
    /\ c \in Seq(Row) /\ Distinct(c) /\ snap[c] \in StoredOf(c)
    /\ snap[c].status = "SUCCEEDED" => Whole(snap[c], c)

Work ==
  [pc : {"idle", "fetch", "record", "start", "store"},
   pages : Seq(Seq(Row)), total : Nat, moments : SUBSET Seq(Row),
   next : Nat \ {0}, counts : CountRecord]

\* The pages before the next one are kept, with their checkpoints, whoever
\* wrote them last.
StoredUpTo(w, t) ==
  /\ w.next <= Len(w.pages) + 1
  /\ \A m \in 1..w.next - 1 :
       /\ m \in DOMAIN t.checkpoint
       /\ \A i \in 1..Len(w.pages[m]) : Keeps(t, w.pages[m][i])

\* Pages are no longer than asked for; what passed the assertion has no
\* number twice; a run that was started has its snapshot, and stored it up
\* to the next page.
WorkOK(w, snap) ==
  LET c == FlattenSeq(w.pages) IN
  /\ \A m \in 1..Len(w.pages) : Len(w.pages[m]) <= RowsPerPage
  /\ w.pc \in {"record", "start", "store"} => Distinct(c)
  /\ w.pc \in {"start", "store"} => c \in DOMAIN snap
  /\ IF w.pc = "store" THEN StoredUpTo(w, snap[c]) ELSE w.next = 1

SnapGrows(snap, snap2) ==
  \A c \in DOMAIN snap : c \in DOMAIN snap2 /\ Grows(snap[c], snap2[c])

IngestionInv ==
  /\ operators \subseteq Caller /\ register \subseteq Row
  /\ StoreOK(snapshot)
  /\ task \in [Caller -> Work]
  /\ \A p \in Caller : WorkOK(task[p], snapshot)

\* What a process knows is stored stays stored, whoever else writes.
LEMMA WorkStays ==
  ASSUME NEW w, NEW snap, NEW snap2, WorkOK(w, snap), SnapGrows(snap, snap2)
  PROVE  WorkOK(w, snap2)
<1> DEFINE c == FlattenSeq(w.pages)
<1>1. ASSUME w.pc = "store" PROVE StoredUpTo(w, snap2[c])
  <2>1. c \in DOMAIN snap /\ StoredUpTo(w, snap[c])
    BY <1>1 DEF WorkOK
  <2>2. Grows(snap[c], snap2[c])
    BY <2>1 DEF SnapGrows
  <2> HIDE DEF c
  <2>3. \A r : Keeps(snap[c], r) => Keeps(snap2[c], r)
    BY <2>2, GrowsKeeps
  <2> QED  BY <2>1, <2>2, <2>3 DEF StoredUpTo, Grows
<1>2. w.pc \in {"start", "store"} => c \in DOMAIN snap2
  BY DEF WorkOK, SnapGrows
<1> QED  BY <1>1, <1>2 DEF WorkOK

\* A step of one process that only adds to what is stored.
LEMMA ProcessStep ==
  ASSUME IngestionInv, NEW p \in Caller, NEW w \in Work,
         task' = [task EXCEPT ![p] = w],
         operators' = operators, register' = register,
         StoreOK(snapshot'), SnapGrows(snapshot, snapshot'),
         WorkOK(w, snapshot')
  PROVE  IngestionInv'
<1>1. task' \in [Caller -> Work]
  BY DEF IngestionInv
<1>2. ASSUME NEW q \in Caller PROVE WorkOK(task'[q], snapshot')
  <2>1. CASE q = p
    <3>1. task'[q] = w
      BY <2>1 DEF IngestionInv
    <3> QED  BY <3>1
  <2>2. CASE q # p
    <3>1. task'[q] = task[q] /\ WorkOK(task[q], snapshot)
      BY <2>2 DEF IngestionInv
    <3> QED  BY <3>1, WorkStays
  <2> QED  BY <2>1, <2>2
<1> QED  BY <1>1, <1>2 DEF IngestionInv

\* A step that writes nothing keeps what is stored.
LEMMA NothingStored ==
  ASSUME StoreOK(snapshot), snapshot' = snapshot
  PROVE  StoreOK(snapshot') /\ SnapGrows(snapshot, snapshot')
BY DEF SnapGrows, Grows

\* One snapshot is written.
LEMMA OneStored ==
  ASSUME StoreOK(snapshot), NEW c \in DOMAIN snapshot,
         NEW u \in StoredOf(c), Grows(snapshot[c], u),
         u.status = "SUCCEEDED" => Whole(u, c),
         DOMAIN snapshot' = DOMAIN snapshot,
         \A x \in DOMAIN snapshot :
           snapshot'[x] = IF x = c THEN u ELSE snapshot[x]
  PROVE  StoreOK(snapshot') /\ SnapGrows(snapshot, snapshot')
<1>1. StoreOK(snapshot')
  BY DEF StoreOK
<1>2. ASSUME NEW x \in DOMAIN snapshot
      PROVE  x \in DOMAIN snapshot' /\ Grows(snapshot[x], snapshot'[x])
  <2>1. Grows(snapshot[x], snapshot[x])
    BY DEF Grows
  <2> QED  BY <2>1
<1> QED  BY <1>1, <1>2 DEF SnapGrows

\* No process has begun.
LEMMA NoCallIs ==
  ASSUME NEW snap
  PROVE  NoCall \in Work /\ WorkOK(NoCall, snap)
<1>1. << >> \in Seq(Seq(Row)) /\ Len(<< >>) = 0
  OBVIOUS
<1>2. NoCall \in Work
  BY <1>1 DEF NoCall, Work, NoCounts, CountRecord
<1>3. WorkOK(NoCall, snap)
  BY <1>1 DEF NoCall, WorkOK
<1> QED  BY <1>2, <1>3

\* Nothing is stored and no process runs at first.
LEMMA IngestionStarts ==
  ASSUME IngestionInit
  PROVE  IngestionInv
<1>1. operators \subseteq Caller /\ register \subseteq Row
  BY IngestionAssumption DEF IngestionInit, IngestionAssumption
<1>2. DOMAIN snapshot = {}
  BY DEF IngestionInit
<1>3. StoreOK(snapshot)
  BY <1>2 DEF StoreOK
<1>4. task \in [Caller -> Work] /\ \A p \in Caller : task[p] = NoCall
  BY NoCallIs DEF IngestionInit
<1> QED  BY <1>1, <1>3, <1>4, NoCallIs DEF IngestionInv

\* A page more of the register, in a process that fetches.
LEMMA PageAdded ==
  ASSUME NEW w \in Work, NEW snap, WorkOK(w, snap), NEW items \in Seq(Row),
         Len(items) <= RowsPerPage, NEW total \in Nat
  PROVE  LET pages == Append(w.pages, items)
             v == [w EXCEPT !.pages = pages, !.total = total]
         IN  /\ v \in Work /\ v.pages = pages /\ v.pc = w.pc
             /\ v.next = w.next
             /\ \A m \in 1..Len(pages) : Len(pages[m]) <= RowsPerPage
<1> DEFINE pages == Append(w.pages, items)
           v == [w EXCEPT !.pages = pages, !.total = total]
<1>1. w.pages \in Seq(Seq(Row))
  BY DEF Work
<1>2. pages \in Seq(Seq(Row)) /\ Len(pages) = Len(w.pages) + 1
      /\ \A i \in 1..Len(w.pages) : pages[i] = w.pages[i]
      /\ pages[Len(w.pages) + 1] = items
  BY <1>1, AppendProperties
<1>3. v \in Work /\ v.pages = pages /\ v.pc = w.pc /\ v.next = w.next
  <2> HIDE DEF pages
  <2> QED  BY <1>2 DEF Work
<1>4. ASSUME NEW m \in 1..Len(pages) PROVE Len(pages[m]) <= RowsPerPage
  <2> DEFINE n == Len(w.pages)
  <2>1. n \in Nat
    BY <1>1
  <2>2. m \in 1..n \/ m = n + 1
    <3> HIDE DEF n, pages
    <3> QED  BY <1>2, <2>1 DEF n
  <2>3. \A i \in 1..n : Len(w.pages[i]) <= RowsPerPage
    BY DEF WorkOK
  <2>4. CASE m \in 1..n
    <3>1. pages[m] = w.pages[m]
      BY <1>2, <2>4
    <3> QED  BY <2>3, <2>4, <3>1
  <2>5. CASE m = n + 1
    <3>1. pages[m] = items
      BY <1>2, <2>5
    <3> QED  BY <3>1
  <2> QED  BY <2>2, <2>4, <2>5
<1> HIDE DEF v, pages
<1> QED  BY <1>3, <1>4 DEF v, pages

\* The pages of a process that did not finish fetching are any pages; those
\* that passed the assertion list no number twice.
LEMMA FetchKeeps ==
  ASSUME IngestionInv, NEW p \in Caller,
         NEW items \in Responses(PageNo(p)),
         FetchPage(p, items) \/ FetchLastPage(p, items)
  PROVE  IngestionInv'
<1> DEFINE w == task[p]
           pages == Append(w.pages, items)
           total == TotalOf(p)
           v == [w EXCEPT !.pages = pages, !.total = total]
           u == [v EXCEPT !.pc = "record"]
<1>1. w \in Work /\ WorkOK(w, snapshot) /\ w.pages \in Seq(Seq(Row))
      /\ w.pc = "fetch"
  BY DEF IngestionInv, Work, FetchPage, FetchLastPage
<1>2. items \in Seq(Row) /\ Len(items) <= RowsPerPage
  <2>1. PageNo(p) \in Nat \ {0}
    BY <1>1 DEF PageNo
  <2> QED  BY <2>1, ResponseIs
<1>3. total \in Nat
  <2>1. Cardinality(register) \in Nat
    BY RowsFinite DEF IngestionInv
  <2>2. w.total \in Nat
    BY <1>1 DEF Work
  <2> QED  BY <2>1, <2>2 DEF TotalOf
<1>4. v \in Work /\ v.pages = pages /\ v.pc = w.pc /\ v.next = w.next
      /\ \A m \in 1..Len(pages) : Len(pages[m]) <= RowsPerPage
  <2> HIDE DEF w, total
  <2> QED  BY <1>1, <1>2, <1>3, PageAdded
<1>5. pages \in Seq(Seq(Row))
  BY <1>1, <1>2, AppendProperties
<1>6. StoreOK(snapshot') /\ SnapGrows(snapshot, snapshot')
  BY NothingStored DEF FetchPage, FetchLastPage, IngestionInv
<1>7. CASE FetchPage(p, items)
  <2>1. task' = [task EXCEPT ![p] = v] /\ w.pc = "fetch"
        /\ operators' = operators /\ register' = register
    BY <1>7 DEF FetchPage, IngestionInv
  <2> HIDE DEF w, v, pages, total
  <2>2. WorkOK(v, snapshot')
    BY <1>1, <1>4, <2>1 DEF WorkOK
  <2> QED  BY <1>4, <1>6, <2>1, <2>2, ProcessStep
<1>8. CASE FetchLastPage(p, items)
  <2>1. task' = [task EXCEPT ![p] = u]
        /\ operators' = operators /\ register' = register
        /\ assertSnapshotPages(pages, total) /\ w.pc = "fetch"
    BY <1>8 DEF FetchLastPage, IngestionInv
  <2>2. Distinct(FlattenSeq(pages))
    <3> HIDE DEF pages
    <3> QED  BY <2>1 DEF assertSnapshotPages, Distinct
  <2> HIDE DEF w, v, pages, total
  <2>3. u \in Work /\ u.pages = pages /\ u.pc = "record"
        /\ u.next = 1
    BY <1>1, <1>4, <2>1 DEF Work, WorkOK
  <2> HIDE DEF u
  <2>4. WorkOK(u, snapshot')
    BY <1>4, <2>2, <2>3 DEF WorkOK
  <2> QED  BY <1>6, <2>1, <2>3, <2>4, ProcessStep
<1> QED  BY <1>7, <1>8

\* A call that ends without writing, and one that begins.
LEMMA CallKeeps ==
  ASSUME IngestionInv, NEW p \in Caller,
         Invoke(p) \/ FetchFails(p) \/ CrashIngestion(p)
  PROVE  IngestionInv'
<1>1. StoreOK(snapshot') /\ SnapGrows(snapshot, snapshot')
      /\ operators' = operators /\ register' = register
  BY NothingStored
     DEF Invoke, FetchFails, CrashIngestion, IngestionInv
<1>2. CASE FetchFails(p) \/ CrashIngestion(p)
  <2>1. task' = [task EXCEPT ![p] = NoCall]
    BY <1>2 DEF FetchFails, CrashIngestion
  <2> QED  BY <1>1, <2>1, NoCallIs, ProcessStep
<1>3. CASE Invoke(p)
  <2> DEFINE w == [NoCall EXCEPT !.pc = "fetch",
                                 !.moments = {Listing(register)}]
  <2>1. task' = [task EXCEPT ![p] = w]
    BY <1>3 DEF Invoke
  <2>2. w \in Work /\ w.pages = NoCall.pages /\ w.pc = "fetch"
        /\ w.next = NoCall.next /\ NoCall.pc = "idle"
    BY NoCallIs, ListingIs DEF Work, NoCall
  <2>3. WorkOK(w, snapshot')
    <3>1. WorkOK(NoCall, snapshot')
      BY NoCallIs
    <3> HIDE DEF w
    <3> QED  BY <2>2, <3>1 DEF WorkOK
  <2> HIDE DEF w
  <2> QED  BY <1>1, <2>1, <2>2, <2>3, ProcessStep
<1> QED  BY <1>2, <1>3

\* The register changes under a process that fetches.
LEMMA ChangeKeeps ==
  ASSUME IngestionInv, NEW new \in SUBSET Row,
         Change(new)
  PROVE  IngestionInv'
<1>1. /\ operators' \subseteq Caller /\ register' \subseteq Row
      /\ snapshot' = snapshot
  BY DEF Change, IngestionInv
<1>2. ASSUME NEW p \in Caller
      PROVE  /\ task'[p] \in Work /\ task'[p].pages = task[p].pages
             /\ task'[p].pc = task[p].pc /\ task'[p].next = task[p].next
  <2>1. task[p] \in Work /\ Listing(new) \in Seq(Row)
    BY ListingIs DEF IngestionInv
  <2>2. task'[p] = IF task[p].pc = "fetch"
                   THEN [task[p] EXCEPT !.moments = @ \cup {Listing(new)}]
                   ELSE task[p]
    BY DEF Change
  <2> DEFINE w == task[p]
             moments == w.moments \cup {Listing(new)}
             v == [w EXCEPT !.moments = moments]
  <2>3. moments \in SUBSET Seq(Row)
    BY <2>1 DEF Work
  <2> HIDE DEF moments
  <2>4. /\ v \in Work /\ v.pages = w.pages /\ v.pc = w.pc
        /\ v.next = w.next
    <3> HIDE DEF w
    <3> QED  BY <2>1, <2>3 DEF Work, w
  <2>5. task'[p] = v \/ task'[p] = w
    BY <2>2 DEF moments
  <2> HIDE DEF v
  <2> QED  BY <2>1, <2>4, <2>5
<1>3. ASSUME NEW p \in Caller PROVE WorkOK(task'[p], snapshot')
  <2>1. WorkOK(task[p], snapshot)
    BY DEF IngestionInv
  <2> QED  BY <1>1, <1>2, <2>1 DEF WorkOK, StoredUpTo
<1>4. task' \in [Caller -> Work]
  <2>1. task' = [p \in Caller |-> task'[p]]
    BY DEF Change
  <2> QED  BY <1>2, <2>1
<1> QED  BY <1>1, <1>3, <1>4 DEF IngestionInv

\* A snapshot without anything stored.
LEMMA NewSnapshotIs ==
  ASSUME NEW c
  PROVE  NewSnapshot \in StoredOf(c) /\ NewSnapshot.status = "none"
<1>1. << >> \in [{} -> Row] /\ << >> \in [{} -> CountRecord]
  <2>1. << >> \in Seq(Row) /\ << >> \in Seq(CountRecord) /\ Len(<< >>) = 0
    OBVIOUS
  <2>2. << >> \in [1..0 -> Row] /\ << >> \in [1..0 -> CountRecord]
    BY <2>1, LenProperties
  <2>3. 1..0 = {}
    OBVIOUS
  <2> QED  BY <2>2, <2>3
<1>2. << >> \in StagedRows /\ << >> \in Checkpoints /\ DOMAIN << >> = {}
  <2>1. {} \in SUBSET STRING /\ {} \in SUBSET Nat
    OBVIOUS
  <2> QED  BY <1>1, <2>1, Zenon DEF StagedRows, Checkpoints
<1>3. NewSnapshot \in SnapshotRecord
  BY <1>2 DEF NewSnapshot, SnapshotRecord, NoCounts, CountRecord
<1> QED  BY <1>2, <1>3 DEF NewSnapshot, StoredOf

\* The snapshot is registered, unless its content is known.
LEMMA UpsertKeeps ==
  ASSUME IngestionInv, NEW p \in Caller, upsertSnapshot(p)
  PROVE  IngestionInv'
<1> DEFINE w == task[p]
           c == Content(p)
           v == [w EXCEPT !.pc = "start"]
<1>1. w \in Work /\ WorkOK(w, snapshot) /\ w.pc = "record"
      /\ StoreOK(snapshot)
  BY DEF IngestionInv, upsertSnapshot
<1>2. c \in Seq(Row) /\ Distinct(c) /\ c = FlattenSeq(w.pages)
  <2>1. w.pages \in Seq(Seq(Row)) /\ c = FlattenSeq(w.pages)
    BY <1>1 DEF Work, Content
  <2>2. c \in Seq(Row)
    BY <2>1, FlattenIs
  <2> QED  BY <1>1, <2>1, <2>2 DEF WorkOK
<1>3. StoreOK(snapshot') /\ SnapGrows(snapshot, snapshot')
      /\ c \in DOMAIN snapshot'
  <2>1. CASE c \in Known
    <3>1. snapshot' = snapshot
      BY <2>1 DEF upsertSnapshot
    <3> QED  BY <1>1, <2>1, <3>1, NothingStored DEF Known
  <2>2. CASE c \notin Known
    <3>1. snapshot' = [x \in DOMAIN snapshot \cup {c} |->
                         IF x = c THEN NewSnapshot ELSE snapshot[x]]
      BY <2>2 DEF upsertSnapshot, Changed, Known
    <3>2. /\ DOMAIN snapshot' = DOMAIN snapshot \cup {c}
          /\ snapshot'[c] = NewSnapshot
          /\ \A x \in DOMAIN snapshot : snapshot'[x] = snapshot[x]
      BY <2>2, <3>1 DEF Known
    <3> HIDE DEF c
    <3>3. StoreOK(snapshot')
      BY <1>1, <1>2, <3>2, NewSnapshotIs DEF StoreOK
    <3>4. SnapGrows(snapshot, snapshot')
      BY <3>2 DEF SnapGrows, Grows
    <3> QED  BY <3>2, <3>3, <3>4
  <2> QED  BY <2>1, <2>2
<1>4. task' = [task EXCEPT ![p] = v]
      /\ operators' = operators /\ register' = register
  BY DEF upsertSnapshot, IngestionInv
<1>5. v \in Work /\ v.pages = w.pages /\ v.pc = "start" /\ v.next = w.next
  <2> HIDE DEF w
  <2> QED  BY <1>1 DEF Work
<1> HIDE DEF v, w, c
<1>6. WorkOK(v, snapshot')
  BY <1>1, <1>2, <1>3, <1>5 DEF WorkOK
<1> QED  BY <1>3, <1>4, <1>5, <1>6, ProcessStep

\* A run that may write has its snapshot.
LEMMA StartedHasSnapshot ==
  ASSUME IngestionInv, NEW p \in Caller, task[p].pc \in {"start", "store"}
  PROVE  LET c == Content(p) IN
         /\ task[p] \in Work /\ WorkOK(task[p], snapshot)
         /\ task[p].pages \in Seq(Seq(Row))
         /\ c = FlattenSeq(task[p].pages)
         /\ c \in DOMAIN snapshot /\ c \in Seq(Row) /\ Distinct(c)
         /\ snapshot[c] \in StoredOf(c) /\ snapshot[c] \in SnapshotRecord
         /\ StoreOK(snapshot)
<1> DEFINE w == task[p]
           c == Content(p)
<1>1. w \in Work /\ WorkOK(w, snapshot) /\ StoreOK(snapshot)
      /\ c = FlattenSeq(w.pages)
  BY DEF IngestionInv, Content
<1>2. c \in DOMAIN snapshot
  BY <1>1 DEF WorkOK
<1>3. c \in Seq(Row) /\ Distinct(c) /\ snapshot[c] \in StoredOf(c)
  <2> HIDE DEF c
  <2> QED  BY <1>1, <1>2 DEF StoreOK
<1> HIDE DEF c
<1> QED  BY <1>1, <1>2, <1>3 DEF Work, StoredOf, c

\* Only the status, the attempt and the counts of a snapshot change.
LEMMA HeadKeeps ==
  ASSUME NEW c, NEW t \in StoredOf(c), NEW u \in SnapshotRecord,
         u.rows = t.rows, u.staged = t.staged, u.issues = t.issues,
         u.checkpoint = t.checkpoint
  PROVE  u \in StoredOf(c) /\ Grows(t, u)
BY DEF StoredOf, Grows

\* An attempt begins: the run is RUNNING.
LEMMA StartKeeps ==
  ASSUME IngestionInv, NEW p \in Caller, startRun(p)
  PROVE  IngestionInv'
<1> DEFINE w == task[p]
           c == Content(p)
           t == snapshot[c]
           u == [t EXCEPT !.status = "RUNNING", !.attempt = @ + 1,
                          !.counts = NoCounts]
           v == [w EXCEPT !.pc = "store"]
<1>1. /\ w \in Work /\ WorkOK(w, snapshot) /\ StoreOK(snapshot)
      /\ c = FlattenSeq(w.pages) /\ c \in DOMAIN snapshot
      /\ t \in StoredOf(c) /\ t \in SnapshotRecord
      /\ w.pages \in Seq(Seq(Row)) /\ Distinct(c)
  BY StartedHasSnapshot DEF startRun
<1>2. /\ u \in SnapshotRecord /\ u.rows = t.rows /\ u.staged = t.staged
      /\ u.issues = t.issues /\ u.checkpoint = t.checkpoint
      /\ u.status = "RUNNING"
  <2>1. NoCounts \in CountRecord
    BY DEF NoCounts, CountRecord
  <2> DEFINE n == t.attempt + 1
  <2>2. n \in Nat
    <3> HIDE DEF t
    <3> QED  BY <1>1 DEF SnapshotRecord
  <2>3. u = [t EXCEPT !.status = "RUNNING", !.attempt = n,
                      !.counts = NoCounts]
    OBVIOUS
  <2> HIDE DEF t, n, u
  <2> QED  BY <1>1, <2>1, <2>2, <2>3 DEF SnapshotRecord
<1>3. u \in StoredOf(c) /\ Grows(t, u)
  <2> HIDE DEF t, u, c
  <2> QED  BY <1>1, <1>2, HeadKeeps
<1>4. /\ DOMAIN snapshot' = DOMAIN snapshot
      /\ \A x \in DOMAIN snapshot :
           snapshot'[x] = IF x = c THEN u ELSE snapshot[x]
  <2> HIDE DEF c
  <2> QED  BY <1>1 DEF startRun, c
<1>5. StoreOK(snapshot') /\ SnapGrows(snapshot, snapshot')
  <2> HIDE DEF u, c
  <2> QED  BY <1>1, <1>2, <1>3, <1>4, OneStored DEF t
<1>6. task' = [task EXCEPT ![p] = v]
      /\ operators' = operators /\ register' = register
  BY DEF startRun, IngestionInv
<1>7. v \in Work /\ v.pages = w.pages /\ v.pc = "store" /\ v.next = w.next
  <2> HIDE DEF w
  <2> QED  BY <1>1 DEF Work
<1>8. WorkOK(v, snapshot')
  <2>1. w.next = 1
    BY <1>1 DEF WorkOK, startRun
  <2>2. \A x : StoredUpTo(v, x)
    <3>1. Len(v.pages) \in Nat /\ 1..1 - 1 = {}
      BY <1>1, <1>7
    <3> HIDE DEF v, w
    <3> QED  BY <1>7, <2>1, <3>1 DEF StoredUpTo
  <2> HIDE DEF v, w, c
  <2>3. c \in DOMAIN snapshot'
    BY <1>1, <1>4
  <2> QED  BY <1>1, <1>7, <2>2, <2>3 DEF WorkOK
<1> HIDE DEF v, w, c
<1> QED  BY <1>5, <1>6, <1>7, <1>8, ProcessStep

\* The run is closed: FAILED_FINAL, or SUCCEEDED after its last page.
LEMMA EndKeeps ==
  ASSUME IngestionInv, NEW p \in Caller,
         finishRun(p) \/ failRun(p)
  PROVE  IngestionInv'
<1> DEFINE w == task[p]
           c == Content(p)
           t == snapshot[c]
           f == [t EXCEPT !.status = "FAILED_FINAL"]
           s == [t EXCEPT !.status = "SUCCEEDED", !.counts = w.counts]
<1>1. /\ w \in Work /\ WorkOK(w, snapshot) /\ StoreOK(snapshot)
      /\ c = FlattenSeq(w.pages) /\ c \in DOMAIN snapshot
      /\ t \in StoredOf(c) /\ t \in SnapshotRecord
      /\ w.pages \in Seq(Seq(Row)) /\ w.pc = "store"
  BY StartedHasSnapshot DEF finishRun, failRun
<1>2. task' = [task EXCEPT ![p] = NoCall]
      /\ operators' = operators /\ register' = register
  BY DEF finishRun, failRun
<1>3. CASE failRun(p)
  <2>1. /\ f \in SnapshotRecord /\ f.rows = t.rows /\ f.staged = t.staged
        /\ f.issues = t.issues /\ f.checkpoint = t.checkpoint
        /\ f.status = "FAILED_FINAL"
    <3> HIDE DEF t
    <3> QED  BY <1>1 DEF SnapshotRecord
  <2>2. f \in StoredOf(c) /\ Grows(t, f)
    <3> HIDE DEF t, f, c
    <3> QED  BY <1>1, <2>1, HeadKeeps
  <2>3. /\ DOMAIN snapshot' = DOMAIN snapshot
        /\ \A x \in DOMAIN snapshot :
             snapshot'[x] = IF x = c THEN f ELSE snapshot[x]
    <3> HIDE DEF c
    <3> QED  BY <1>1, <1>3 DEF failRun, c
  <2>4. StoreOK(snapshot') /\ SnapGrows(snapshot, snapshot')
    <3> HIDE DEF f, c
    <3> QED  BY <1>1, <2>1, <2>2, <2>3, OneStored DEF t
  <2> QED  BY <1>2, <2>4, NoCallIs, ProcessStep
<1>4. CASE finishRun(p)
  <2>1. /\ s \in SnapshotRecord /\ s.rows = t.rows /\ s.staged = t.staged
        /\ s.issues = t.issues /\ s.checkpoint = t.checkpoint
    <3>1. w.counts \in CountRecord
      BY <1>1 DEF Work
    <3> HIDE DEF t, w
    <3> QED  BY <1>1, <3>1 DEF SnapshotRecord
  <2>2. s \in StoredOf(c) /\ Grows(t, s)
    <3> HIDE DEF t, s, c
    <3> QED  BY <1>1, <2>1, HeadKeeps
  <2>3. /\ DOMAIN snapshot' = DOMAIN snapshot
        /\ \A x \in DOMAIN snapshot :
             snapshot'[x] = IF x = c THEN s ELSE snapshot[x]
    <3> HIDE DEF c
    <3> QED  BY <1>1, <1>4 DEF finishRun, c
  <2>4. /\ StoredUpTo(w, t) /\ w.next \in Nat
        /\ w.next - 1 = Len(w.pages) /\ Len(w.pages) \in Nat
    <3>1. StoredUpTo(w, t)
      BY <1>1 DEF WorkOK
    <3>2. w.next \in Nat /\ Len(w.pages) \in Nat
      BY <1>1 DEF Work
    <3>3. w.next > Len(w.pages) /\ w.next <= Len(w.pages) + 1
      BY <1>4, <3>1 DEF finishRun, StoredUpTo
    <3> HIDE DEF w
    <3> QED  BY <3>1, <3>2, <3>3
  <2>5. Whole(t, c)
    <3> DEFINE k == Len(w.pages)
    <3>1. \A m \in 1..k : /\ m \in DOMAIN t.checkpoint
                          /\ \A i \in 1..Len(w.pages[m]) :
                               Keeps(t, w.pages[m][i])
      BY <2>4 DEF StoredUpTo
    <3>2. \A r \in Range(c) : Keeps(t, r)
      <4>1. \A r \in Range(c) :
              \E m \in 1..k : \E i \in 1..Len(w.pages[m]) : r = w.pages[m][i]
        <5> HIDE DEF w, c
        <5> QED  BY <1>1, FlattenIs
      <4> HIDE DEF t, w, c, k
      <4> QED  BY <3>1, <4>1
    <3>3. RowsPerPage \in Nat
      BY IngestionAssumption DEF IngestionAssumption
    <3>4. \A m \in 1..k : Len(w.pages[m]) <= RowsPerPage
      BY <1>1 DEF WorkOK
    <3>5. Len(c) <= k * RowsPerPage
      <4> HIDE DEF w, c
      <4> QED  BY <1>1, <3>3, <3>4, FlattenIs
    <3> HIDE DEF t, w, c, k
    <3>6. 1..k \subseteq DOMAIN t.checkpoint /\ k \in Nat
      BY <2>4, <3>1 DEF k
    <3> QED  BY <3>2, <3>5, <3>6 DEF Whole
  <2>6. Whole(s, c)
    <3> HIDE DEF s, t, c
    <3> QED  BY <2>1, <2>5 DEF Whole, Keeps
  <2>7. StoreOK(snapshot') /\ SnapGrows(snapshot, snapshot')
    <3> HIDE DEF s, c
    <3> QED  BY <1>1, <2>2, <2>3, <2>6, OneStored DEF t
  <2> QED  BY <1>2, <2>7, NoCallIs, ProcessStep
<1> QED  BY <1>3, <1>4

\* The counts of a run and of a page add up to counts.
LEMMA CountsAdd ==
  ASSUME NEW a \in CountRecord, NEW b \in CountRecord
  PROVE  [k \in DOMAIN a |-> a[k] + b[k]] \in CountRecord
<1> DEFINE sum == [k \in DOMAIN a |-> a[k] + b[k]]
           F == {"read", "inserted", "updated", "rejected"}
<1>1. DOMAIN a = F /\ \A k \in F : a[k] \in Nat /\ b[k] \in Nat
  BY DEF CountRecord
<1>2. /\ sum = [k \in F |-> a[k] + b[k]]
      /\ \A k \in F : a[k] + b[k] \in Nat
  BY <1>1
<1>3. sum \in [F -> Nat]
  BY <1>2
<1> HIDE DEF sum
<1> QED  BY <1>3 DEF CountRecord

\* The next page of a process, written.
DonePage(p) ==
  LET rows == task[p].pages[task[p].next] IN
  FoldLeft(persistRow, [t |-> snapshot[Content(p)],
                        n |-> [NoCounts EXCEPT !.read = Len(rows)]], rows)

\* A page that is written adds its rows and counts them.
LEMMA DonePageIs ==
  ASSUME IngestionInv, NEW p \in Caller, persistPage(p)
  PROVE  LET w == task[p]
             c == Content(p)
             t == snapshot[c]
             rows == w.pages[w.next]
             done == DonePage(p)
         IN  /\ w.next \in Nat \ {0} /\ w.next \in 1..Len(w.pages)
             /\ rows \in Seq(Row) /\ w.counts \in CountRecord
             /\ done.t \in StoredOf(c) /\ done.t \in SnapshotRecord
             /\ done.n \in CountRecord /\ Adds(t, done.t)
             /\ \A i \in 1..Len(rows) : Keeps(done.t, rows[i])
             /\ done.n.read = Len(rows)
             /\ done.n.rejected = Cardinality(RejectedOf(rows))
<1> DEFINE w == task[p]
           c == Content(p)
           t == snapshot[c]
           n == w.next
           rows == w.pages[n]
           base == [t |-> t, n |-> [NoCounts EXCEPT !.read = Len(rows)]]
           done == DonePage(p)
<1>1. /\ w \in Work /\ WorkOK(w, snapshot) /\ StoreOK(snapshot)
      /\ c = FlattenSeq(w.pages) /\ c \in DOMAIN snapshot
      /\ c \in Seq(Row) /\ Distinct(c)
      /\ t \in StoredOf(c) /\ t \in SnapshotRecord
      /\ w.pages \in Seq(Seq(Row)) /\ w.pc = "store"
  BY StartedHasSnapshot DEF persistPage
<1>2. n \in Nat \ {0} /\ n \in 1..Len(w.pages) /\ w.counts \in CountRecord
  <2>1. n \in Nat \ {0} /\ w.counts \in CountRecord
    BY <1>1 DEF Work
  <2>2. n <= Len(w.pages) /\ Len(w.pages) \in Nat
    BY <1>1 DEF persistPage
  <2> HIDE DEF n
  <2> QED  BY <2>1, <2>2
<1>3. rows \in Seq(Row) /\ rows \in Seq(Range(c)) /\ Len(rows) \in Nat
  <2>1. rows \in Seq(Row) /\ Len(rows) \in Nat
    <3> HIDE DEF n
    <3> QED  BY <1>1, <1>2
  <2>2. \A i \in 1..Len(rows) : rows[i] \in Range(c)
    <3> HIDE DEF w, c, n
    <3> QED  BY <1>1, <1>2, FlattenIs
  <2>3. rows = [i \in 1..Len(rows) |-> rows[i]]
    <3> HIDE DEF rows
    <3> QED  BY <2>1
  <2> HIDE DEF rows, c
  <2> QED  BY <2>1, <2>2, <2>3
<1>4. /\ base \in Accumulators(c) /\ base.t = t
      /\ base.n.read = Len(rows) /\ base.n.rejected = 0
  <2>1. /\ [NoCounts EXCEPT !.read = Len(rows)] \in CountRecord
        /\ [NoCounts EXCEPT !.read = Len(rows)].read = Len(rows)
        /\ [NoCounts EXCEPT !.read = Len(rows)].rejected = 0
    <3> HIDE DEF rows
    <3> QED  BY <1>3 DEF NoCounts, CountRecord
  <2> HIDE DEF t, c, rows
  <2> QED  BY <1>1, <2>1 DEF Accumulators
<1>5. /\ done \in Accumulators(c) /\ Adds(t, done.t)
      /\ \A i \in 1..Len(rows) : Keeps(done.t, rows[i])
      /\ done.n.read = Len(rows)
      /\ done.n.rejected = 0 + Cardinality(RejectedOf(rows))
  <2>1. done = FoldLeft(persistRow, base, rows)
    BY DEF DonePage
  <2> HIDE DEF t, c, rows, base, done
  <2> QED  BY <1>1, <1>3, <1>4, <2>1, PersistPageIs
<1>6. /\ done.t \in StoredOf(c) /\ done.t \in SnapshotRecord
      /\ done.n \in CountRecord
  <2> HIDE DEF done, c
  <2> QED  BY <1>5 DEF Accumulators, StoredOf
<1>7. 0 + Cardinality(RejectedOf(rows)) = Cardinality(RejectedOf(rows))
  <2>1. Cardinality(RejectedOf(rows)) \in Nat
    <3> HIDE DEF rows
    <3> QED  BY <1>3, RejectedFinite
  <2> QED  BY <2>1
<1> HIDE DEF done, rows, t, c
<1> QED  BY <1>1, <1>2, <1>3, <1>5, <1>6, <1>7
         DEF done, c, t, rows

\* A page is written with its checkpoint, over whatever was there.
LEMMA PersistKeeps ==
  ASSUME IngestionInv, NEW p \in Caller, persistPage(p)
  PROVE  IngestionInv'
<1> DEFINE w == task[p]
           c == Content(p)
           t == snapshot[c]
           n == w.next
           rows == w.pages[n]
           done == DonePage(p)
           checkpoint == CheckpointOf(done.t, n, done.n)
           u == [done.t EXCEPT !.checkpoint = checkpoint]
           counts == [k \in DOMAIN w.counts |-> w.counts[k] + done.n[k]]
           v == [w EXCEPT !.next = n + 1, !.counts = counts]
<1>1. /\ w \in Work /\ WorkOK(w, snapshot) /\ StoreOK(snapshot)
      /\ c = FlattenSeq(w.pages) /\ c \in DOMAIN snapshot
      /\ c \in Seq(Row) /\ Distinct(c)
      /\ t \in StoredOf(c) /\ t \in SnapshotRecord
      /\ w.pages \in Seq(Seq(Row)) /\ w.pc = "store"
  BY StartedHasSnapshot DEF persistPage
<1>2. n \in Nat \ {0} /\ n \in 1..Len(w.pages) /\ w.counts \in CountRecord
  BY DonePageIs
<1>3. /\ done.t \in StoredOf(c) /\ done.t \in SnapshotRecord
      /\ done.n \in CountRecord
  BY DonePageIs
<1>4. /\ Grows(t, done.t) /\ done.t.status = t.status
      /\ \A i \in 1..Len(rows) : Keeps(done.t, rows[i])
  BY DonePageIs DEF Adds
<1>5. /\ checkpoint \in Checkpoints
      /\ DOMAIN checkpoint = DOMAIN done.t.checkpoint \cup {n}
  <2> HIDE DEF done, n
  <2>1. PICK D \in SUBSET Nat : done.t.checkpoint \in [D -> CountRecord]
    BY <1>3 DEF SnapshotRecord, Checkpoints
  <2>2. checkpoint \in [D \cup {n} -> CountRecord]
    BY <1>3, <2>1 DEF CheckpointOf
  <2>3. D \cup {n} \in SUBSET Nat
    BY <1>2
  <2>4. DOMAIN checkpoint = DOMAIN done.t.checkpoint \cup {n}
    BY DEF CheckpointOf
  <2> HIDE DEF checkpoint
  <2> QED  BY <2>2, <2>3, <2>4 DEF Checkpoints
<1>6. /\ u \in SnapshotRecord /\ u.rows = done.t.rows
      /\ u.staged = done.t.staged /\ u.issues = done.t.issues
      /\ u.checkpoint = checkpoint /\ u.status = done.t.status
  <2> HIDE DEF done, checkpoint
  <2> QED  BY <1>3, <1>5 DEF SnapshotRecord
<1>7. u \in StoredOf(c) /\ Grows(done.t, u)
  <2> HIDE DEF done, checkpoint, u, c
  <2> QED  BY <1>3, <1>5, <1>6 DEF StoredOf, Grows
<1>8. Grows(t, u)
  <2> HIDE DEF t, done, u
  <2> QED  BY <1>4, <1>7, GrowsOn
<1>9. snapshot' = [x \in DOMAIN snapshot \cup {c} |->
                      IF x = c THEN u ELSE snapshot[x]]
  BY DEF persistPage, Changed, Known, DonePage
<1>10. /\ DOMAIN snapshot' = DOMAIN snapshot
       /\ \A x \in DOMAIN snapshot :
            snapshot'[x] = IF x = c THEN u ELSE snapshot[x]
  <2> HIDE DEF u, c
  <2> QED  BY <1>1, <1>9
<1>11. ASSUME NEW m \in 1..n
       PROVE  /\ m \in DOMAIN u.checkpoint
              /\ \A i \in 1..Len(w.pages[m]) : Keeps(u, w.pages[m][i])
  <2>1. m \in 1..n - 1 \/ m = n
    <3> HIDE DEF n
    <3> QED  BY <1>2
  <2>2. CASE m \in 1..n - 1
    <3>1. StoredUpTo(w, t)
      BY <1>1 DEF WorkOK
    <3>2. m \in DOMAIN t.checkpoint
          /\ \A i \in 1..Len(w.pages[m]) : Keeps(t, w.pages[m][i])
      <4> HIDE DEF w, t
      <4> QED  BY <2>2, <3>1 DEF StoredUpTo, w
    <3> HIDE DEF w, t, u
    <3> QED  BY <3>2, <1>8, GrowsKeeps DEF Grows
  <2>3. CASE m = n
    <3>1. \A i \in 1..Len(rows) : Keeps(u, rows[i])
      <4> HIDE DEF rows, done, u
      <4> QED  BY <1>4, <1>7, GrowsKeeps
    <3>2. n \in DOMAIN u.checkpoint
      <4> HIDE DEF n, u, checkpoint
      <4> QED  BY <1>5, <1>6
    <3> HIDE DEF u, n, w
    <3> QED  BY <2>3, <3>1, <3>2
  <2> QED  BY <2>1, <2>2, <2>3
<1>12. u.status = "SUCCEEDED" => Whole(u, c)
  <2>1. ASSUME t.status = "SUCCEEDED" PROVE Whole(u, c)
    <3>1. Whole(t, c)
      <4> HIDE DEF c
      <4> QED  BY <1>1, <2>1 DEF StoreOK, t
    <3> HIDE DEF t, u, c
    <3>2. \A r : Keeps(t, r) => Keeps(u, r)
      BY <1>8, GrowsKeeps
    <3> QED  BY <3>1, <3>2, <1>8 DEF Whole, Grows
  <2> HIDE DEF t, u, done, c
  <2> QED  BY <2>1, <1>4, <1>6
<1>13. StoreOK(snapshot') /\ SnapGrows(snapshot, snapshot')
  <2> HIDE DEF u, c
  <2> QED  BY <1>1, <1>7, <1>8, <1>10, <1>12, OneStored DEF t
<1>14. task' = [task EXCEPT ![p] = v]
      /\ operators' = operators /\ register' = register
  BY DEF persistPage, IngestionInv, DonePage
<1>15. v \in Work /\ v.pages = w.pages /\ v.pc = "store" /\ v.next = n + 1
  <2>1. counts \in CountRecord
    <3> HIDE DEF done, w
    <3> QED  BY <1>2, <1>3, CountsAdd
  <2>2. n + 1 \in Nat \ {0}
    <3> HIDE DEF n
    <3> QED  BY <1>2
  <2> HIDE DEF w, n, counts
  <2> QED  BY <1>1, <2>1, <2>2 DEF Work
<1>16. StoredUpTo(v, u)
  <2>1. n + 1 <= Len(w.pages) + 1 /\ (n + 1) - 1 = n
    <3> HIDE DEF n, w
    <3>1. Len(w.pages) \in Nat
      BY <1>1
    <3> QED  BY <1>2, <3>1
  <2> HIDE DEF u, v, w, n
  <2> QED  BY <1>11, <1>15, <2>1 DEF StoredUpTo
<1> HIDE DEF u, v, w, c, n
<1>17. WorkOK(v, snapshot')
  <2>1. snapshot'[c] = u /\ c \in DOMAIN snapshot'
    BY <1>1, <1>10
  <2> QED  BY <1>1, <1>15, <1>16, <2>1 DEF WorkOK
<1> QED  BY <1>13, <1>14, <1>15, <1>17, ProcessStep

-----------------------------------------------------------------------------
(* SucceededIsComplete *)

\* Whatever the operators, the register and the failures do.
LEMMA IngestionKeeps ==
  ASSUME IngestionInv, [IngestionNext]_ingestionVars
  PROVE  IngestionInv'
<1>1. ASSUME NEW new \in SUBSET Row, Change(new) PROVE IngestionInv'
  BY <1>1, ChangeKeeps
<1>2. ASSUME NEW p \in Caller,
             Invoke(p) \/ FetchFails(p) \/ CrashIngestion(p)
      PROVE  IngestionInv'
  BY <1>2, CallKeeps
<1>3. ASSUME NEW p \in Caller, NEW items \in Responses(PageNo(p)),
             FetchPage(p, items) \/ FetchLastPage(p, items)
      PROVE  IngestionInv'
  BY <1>3, FetchKeeps
<1>4. ASSUME NEW p \in Caller, upsertSnapshot(p) PROVE IngestionInv'
  BY <1>4, UpsertKeeps
<1>5. ASSUME NEW p \in Caller, startRun(p) PROVE IngestionInv'
  BY <1>5, StartKeeps
<1>6. ASSUME NEW p \in Caller, persistPage(p) PROVE IngestionInv'
  BY <1>6, PersistKeeps
<1>7. ASSUME NEW p \in Caller, finishRun(p) \/ failRun(p)
      PROVE  IngestionInv'
  BY <1>7, EndKeeps
<1>8. CASE UNCHANGED ingestionVars
  BY <1>8 DEF ingestionVars, IngestionInv
<1>9. operators \subseteq Caller
  BY DEF IngestionInv
<1> QED  BY <1>1, <1>2, <1>3, <1>4, <1>5, <1>6, <1>7, <1>8, <1>9
         DEF IngestionNext

\* Rows that differ in the number as sent differ in the number as trimmed.
NumbersApart ==
  \A r, q \in Row :
    r.mngNo = q.mngNo => r.managementNumber = q.managementNumber

\* Whole is what the property asks for.
LEMMA WholeIsComplete ==
  ASSUME IngestionInv, NumbersApart
  PROVE  SucceededIsComplete
<1> SUFFICES ASSUME NEW c \in Known, Succeeded(c)
             PROVE  /\ snapshot[c].rows = Range(c)
                    /\ \A r \in Range(c) :
                         IF Accepted(r) THEN r \in Range(snapshot[c].staged)
                                        ELSE r \in snapshot[c].issues
                    /\ \A n \in 1..Len(c) :
                         \E k \in DOMAIN snapshot[c].checkpoint :
                           (k - 1) * RowsPerPage < n /\ n <= k * RowsPerPage
  BY DEF SucceededIsComplete
<1> DEFINE t == snapshot[c]
<1>1. c \in Seq(Row) /\ Distinct(c) /\ t \in StoredOf(c) /\ Whole(t, c)
  BY DEF IngestionInv, StoreOK, Succeeded, Known
<1> HIDE DEF t
<1>2. t.rows = Range(c)
  BY <1>1 DEF StoredOf, Whole, Keeps
<1>3. ASSUME NEW r \in Range(c)
      PROVE  IF Accepted(r) THEN r \in Range(t.staged) ELSE r \in t.issues
  <2>1. Keeps(t, r)
    BY <1>1 DEF Whole
  <2>2. CASE Accepted(r)
    <3>1. r.mngNo \in DOMAIN t.staged
      BY <2>1, <2>2 DEF Keeps
    <3>2. t.staged[r.mngNo] \in Range(c) /\ t.staged[r.mngNo].mngNo = r.mngNo
      BY <1>1, <3>1 DEF StoredOf
    <3>3. t.staged[r.mngNo] = r
      <4>1. r.managementNumber = t.staged[r.mngNo].managementNumber
        BY <1>1, <3>2, RangeOfSeq DEF NumbersApart
      <4> QED  BY <1>1, <3>2, <4>1, DistinctRows
    <3> QED  BY <2>2, <3>1, <3>3 DEF Range
  <2>3. CASE ~Accepted(r)
    BY <2>1, <2>3 DEF Keeps
  <2> QED  BY <2>2, <2>3
<1>4. ASSUME NEW n \in 1..Len(c)
      PROVE  \E k \in DOMAIN t.checkpoint :
               (k - 1) * RowsPerPage < n /\ n <= k * RowsPerPage
  <2>1. PICK m \in Nat :
          1..m \subseteq DOMAIN t.checkpoint /\ Len(c) <= m * RowsPerPage
    BY <1>1 DEF Whole
  <2>2. RowsPerPage \in Nat \ {0} /\ n \in Nat \ {0} /\ Len(c) \in Nat
        /\ n <= Len(c)
    BY <1>1, IngestionAssumption DEF IngestionAssumption
  <2> DEFINE K == {k \in Nat : n <= k * RowsPerPage}
  <2>3. m \in K
    <3> DEFINE a == m * RowsPerPage
    <3>1. a \in Nat /\ Len(c) <= a
      BY <2>1, <2>2
    <3>2. n <= a
      <4> HIDE DEF a
      <4> QED  BY <2>2, <3>1
    <3> QED  BY <3>2
  <2>4. PICK k \in K : \A j \in K : k <= j
    <3> HIDE DEF K
    <3>1. K \in SUBSET Nat /\ K # {}
      BY <2>3 DEF K
    <3> QED  BY <3>1, LeastElement
  <2>5. k # 0
    <3>1. 0 * RowsPerPage = 0
      BY <2>2
    <3> QED  BY <2>2, <2>4, <3>1
  <2>6. k - 1 \in Nat /\ k - 1 \notin K
    <3>1. k \in Nat /\ k - 1 \in Nat /\ ~ (k <= k - 1)
      BY <2>4, <2>5
    <3> HIDE DEF K
    <3> QED  BY <2>4, <3>1
  <2>7. (k - 1) * RowsPerPage < n
    <3> DEFINE a == (k - 1) * RowsPerPage
    <3>1. a \in Nat /\ ~ (n <= a)
      BY <2>2, <2>6
    <3> HIDE DEF a
    <3>2. a < n
      BY <2>2, <3>1
    <3> QED  BY <3>2 DEF a
  <2>8. k \in 1..m
    <3> HIDE DEF K
    <3>1. k \in Nat /\ k <= m
      BY <2>3, <2>4 DEF K
    <3> QED  BY <2>5, <3>1
  <2> QED  BY <2>1, <2>4, <2>7, <2>8
<1> QED  BY <1>2, <1>3, <1>4 DEF t

\* Whatever attempts crashed, failed or ran beside it: a snapshot whose run
\* succeeded has every row stored, every row staged under its number or
\* reported, and a checkpoint for every page; where rows that differ in the
\* number as sent differ in the number as trimmed.
THEOREM SucceededIsWhole ==
  ASSUME NumbersApart
  PROVE  IngestionSpec => []SucceededIsComplete
<1>1. IngestionInit => IngestionInv
  BY IngestionStarts
<1>2. IngestionInv /\ [IngestionNext]_ingestionVars => IngestionInv'
  BY IngestionKeeps
<1>3. IngestionInv => SucceededIsComplete
  BY WholeIsComplete
<1> QED  BY <1>1, <1>2, <1>3, PTL DEF IngestionSpec

-----------------------------------------------------------------------------
(* Sums over the pages *)

\* f adds up the first n numbers of v.
AddsUp(f, v, n) == \A i \in 1..n : f[i] = f[i - 1] + v[i]

\* Two sums of the same numbers are the same.
LEMMA SumsAgree ==
  ASSUME NEW N \in Nat, NEW f, NEW g, NEW v, f[0] = g[0],
         AddsUp(f, v, N), AddsUp(g, v, N)
  PROVE  f[N] = g[N]
<1> USE DEF AddsUp
<1> DEFINE T == {n \in Nat : n \in 0..N => f[n] = g[n]}
<1>1. 0 \in T
  OBVIOUS
<1>2. ASSUME NEW n \in Nat, n \in T PROVE n + 1 \in T
  <2>1. CASE n + 1 \in 0..N
    <3>1. n \in 0..N /\ n + 1 \in 1..N /\ (n + 1) - 1 = n
      BY <2>1
    <3>2. f[n] = g[n]
      BY <1>2, <3>1
    <3>3. f[n + 1] = f[(n + 1) - 1] + v[n + 1]
          /\ g[n + 1] = g[(n + 1) - 1] + v[n + 1]
      BY <3>1
    <3>4. f[n + 1] = g[n + 1]
      BY <3>1, <3>2, <3>3
    <3> QED  BY <3>4
  <2>2. CASE n + 1 \notin 0..N
    BY <2>2
  <2> QED  BY <2>1, <2>2
<1>3. Nat \subseteq T
  <2> HIDE DEF T
  <2> QED  BY <1>1, <1>2, Induction
<1>4. N \in T /\ N \in 0..N
  BY <1>3
<1> QED  BY <1>4

\* total is what the field f of the first n checkpoints adds up to.
SumsTo(cp, f, n, total) ==
  \E g \in [0..n -> Nat] :
    g[0] = 0 /\ g[n] = total /\ \A i \in 1..n : g[i] = g[i - 1] + cp[i][f]

\* No checkpoint adds up to nothing.
LEMMA SumOfNone ==
  ASSUME NEW cp, NEW f
  PROVE  SumsTo(cp, f, 0, 0)
<1> DEFINE g == [i \in 0..0 |-> 0]
<1>1. g \in [0..0 -> Nat] /\ g[0] = 0
  OBVIOUS
<1> HIDE DEF g
<1> QED  BY <1>1 DEF SumsTo

\* One checkpoint more, whatever becomes of those after it.
LEMMA SumOfOneMore ==
  ASSUME NEW n \in Nat, NEW cp, NEW cp2, NEW f, NEW total,
         SumsTo(cp, f, n, total), \A i \in 1..n : cp2[i] = cp[i],
         cp2[n + 1][f] \in Nat
  PROVE  SumsTo(cp2, f, n + 1, total + cp2[n + 1][f])
<1>1. PICK g \in [0..n -> Nat] :
        /\ g[0] = 0 /\ g[n] = total
        /\ \A i \in 1..n : g[i] = g[i - 1] + cp[i][f]
  BY DEF SumsTo
<1> DEFINE h == [i \in 0..n + 1 |->
                   IF i = n + 1 THEN total + cp2[n + 1][f] ELSE g[i]]
<1>2. total \in Nat /\ total + cp2[n + 1][f] \in Nat
  <2>1. n \in 0..n
    OBVIOUS
  <2> QED  BY <1>1, <2>1
<1>3. h \in [0..n + 1 -> Nat]
  BY <1>1, <1>2
<1>4. h[0] = 0 /\ h[n + 1] = total + cp2[n + 1][f] /\ h[n] = total
  BY <1>1
<1>5. ASSUME NEW i \in 1..n PROVE h[i] = h[i - 1] + cp2[i][f]
  <2>1. h[i] = g[i] /\ h[i - 1] = g[i - 1]
    OBVIOUS
  <2> HIDE DEF h
  <2> QED  BY <1>1, <2>1
<1>6. \A i \in 1..n + 1 : h[i] = h[i - 1] + cp2[i][f]
  <2> HIDE DEF h
  <2>1. ASSUME NEW i \in 1..n + 1 PROVE h[i] = h[i - 1] + cp2[i][f]
    <3>1. CASE i \in 1..n
      BY <1>5, <3>1
    <3>2. CASE i \notin 1..n
      <4>1. i = n + 1 /\ i - 1 = n
        BY <3>2
      <4> QED  BY <1>4, <4>1
    <3> QED  BY <3>1, <3>2
  <2> QED  BY <2>1
<1> HIDE DEF h
<1> QED  BY <1>3, <1>4, <1>6 DEF SumsTo

\* What all checkpoints add up to is their total, whatever the order in
\* which it is taken.
LEMMA TotalIs ==
  ASSUME NEW n \in Nat, NEW cp, DOMAIN cp = 1..n, NEW field,
         \A i \in 1..n : cp[i][field] \in Nat,
         NEW total, SumsTo(cp, field, n, total)
  PROVE  Total(cp, field) = total
<1> DEFINE S == 1..n
           v == [i \in S |-> cp[i][field]]
           zero == 0
           pick == [s \in SUBSET S |-> CHOOSE x \in s : TRUE]
           op == [xb \in S \X Nat |-> v[xb[1]] + xb[2]]
           Iter(f) == [s \in SUBSET S |->
             IF s = {} THEN 0
             ELSE cp[CHOOSE x \in s : TRUE][field]
                    + f[s \ {CHOOSE x \in s : TRUE}]]
           iter == CHOOSE f : f = Iter(f)
<1>1. IsFiniteSet(S) /\ zero \in Nat
  <2>1. IsFiniteSet(1..n)
    BY FS_Interval
  <2> QED  BY <2>1
<1>2. Picks(pick, S)
  BY DEF Picks
<1>3. \A x \in S : v[x] = cp[x][field] /\ v[x] \in Nat
  OBVIOUS
<1>4. \A x \in S, b \in Nat :
        op[<<x, b>>] = v[x] + b /\ v[x] + b \in Nat /\ op[<<x, b>>] \in Nat
  <2>1. ASSUME NEW x \in S, NEW b \in Nat
        PROVE  op[<<x, b>>] = v[x] + b /\ v[x] + b \in Nat
    <3>1. <<x, b>> \in S \X Nat /\ <<x, b>>[1] = x /\ <<x, b>>[2] = b
      OBVIOUS
    <3> HIDE DEF S, v
    <3>2. op[<<x, b>>] = v[<<x, b>>[1]] + <<x, b>>[2]
      BY <3>1
    <3> QED  BY <3>1, <3>2, <1>3
  <2> QED  BY <2>1
<1>5. PICK k : IsFold(k, S, zero, pick, op)
  <2> HIDE DEF S, zero, op, pick, Iter, iter
  <2> QED  BY <1>1, <1>2, FoldExists
<1>6. \A s \in SUBSET S : k[s] \in Nat
  <2>1. \A x \in S, b \in Nat : op[<<x, b>>] \in Nat
    BY <1>4
  <2> HIDE DEF S, zero, op, pick, Iter, iter
  <2> QED  BY <1>1, <1>2, <1>5, <2>1, FoldTyped
<1> DEFINE h == [s \in SUBSET S |-> k[s]]
<1>7. h = Iter(h)
  <2>1. ASSUME NEW s \in SUBSET S
        PROVE  h[s] = IF s = {} THEN 0
                      ELSE cp[CHOOSE x \in s : TRUE][field]
                             + h[s \ {CHOOSE x \in s : TRUE}]
    <3>1. h[s] = Folded(k, zero, pick, op, s)
      BY <1>5 DEF IsFold
    <3>2. CASE s = {}
      BY <3>1, <3>2 DEF Folded
    <3>3. CASE s # {}
      <4>1. pick[s] = CHOOSE x \in s : TRUE
        OBVIOUS
      <4>2. pick[s] \in S /\ k[s \ {pick[s]}] \in Nat
            /\ h[s \ {pick[s]}] = k[s \ {pick[s]}]
        <5> HIDE DEF pick
        <5> QED  BY <3>3, <1>2, <1>6 DEF Picks
      <4>3. h[s] = op[<<pick[s], k[s \ {pick[s]}]>>]
        BY <3>1, <3>3 DEF Folded
      <4>4. h[s] = cp[pick[s]][field] + h[s \ {pick[s]}]
        <5> HIDE DEF op, pick, h, S, v
        <5> QED  BY <4>2, <4>3, <1>3, <1>4
      <4> HIDE DEF pick, h
      <4> QED  BY <3>3, <4>1, <4>4
    <3> QED  BY <3>2, <3>3
  <2>2. h = [s \in SUBSET S |-> h[s]]
    OBVIOUS
  <2> HIDE DEF S, op, pick, h
  <2> QED  BY <2>1, <2>2
<1>8. iter = Iter(iter)
  <2> HIDE DEF S, h
  <2> QED  BY <1>7, Zenon
<1>9. Total(cp, field) = iter[S]
  BY DEF Total, MapThenSumSet, MapThenFoldSet
<1>10. iter[{}] = 0
  <2> HIDE DEF iter, S
  <2> QED  BY <1>8
<1>11. ASSUME NEW s \in SUBSET S, s # {}
       PROVE  pick[s] \in s /\ iter[s] = v[pick[s]] + iter[s \ {pick[s]}]
  <2>1. pick[s] \in s /\ pick[s] \in S
    <3> HIDE DEF pick
    <3> QED  BY <1>2, <1>11 DEF Picks
  <2>2. iter[s] = cp[pick[s]][field] + iter[s \ {pick[s]}]
    <3> HIDE DEF iter, S
    <3> QED  BY <1>8, <1>11
  <2> HIDE DEF iter, pick, v
  <2> QED  BY <2>1, <2>2, <1>3
<1> HIDE DEF iter, pick, v, op, h
<1> DEFINE Typed == {s \in SUBSET S : iter[s] \in Nat}
<1>12. SUBSET S \subseteq Typed
  <2>1. ASSUME NEW s \in SUBSET S, s # {}, \A x \in s : s \ {x} \in Typed
        PROVE  s \in Typed
    <3>1. pick[s] \in s /\ iter[s] = v[pick[s]] + iter[s \ {pick[s]}]
      BY <1>11, <2>1
    <3>2. v[pick[s]] \in Nat /\ iter[s \ {pick[s]}] \in Nat
      BY <1>3, <2>1, <3>1
    <3>3. iter[s] \in Nat
      <4> HIDE DEF S
      <4> QED  BY <3>1, <3>2
    <3> QED  BY <3>3
  <2>2. {} \in Typed
    BY <1>10
  <2> HIDE DEF Typed, S
  <2> QED  BY <1>1, <2>1, <2>2, SubsetInduction
<1> DEFINE T == {s \in SUBSET S :
                   \A x \in s : iter[s] = v[x] + iter[s \ {x}]}
<1>13. ASSUME NEW s \in SUBSET S, s # {}, \A x \in s : s \ {x} \in T
       PROVE  s \in T
  <2> DEFINE y == pick[s]
  <2>1. y \in s /\ iter[s] = v[y] + iter[s \ {y}]
    BY <1>11, <1>13
  <2> HIDE DEF y
  <2>2. ASSUME NEW x \in s, x # y PROVE iter[s] = v[x] + iter[s \ {x}]
    <3> DEFINE rest == iter[(s \ {x}) \ {y}]
    <3>1. (s \ {y}) \ {x} = (s \ {x}) \ {y} /\ (s \ {x}) \ {y} \in SUBSET S
      OBVIOUS
    <3>2. /\ iter[s \ {y}] = v[x] + rest
          /\ iter[s \ {x}] = v[y] + rest
      <4>1. y \in s \ {x} /\ x \in s \ {y}
        BY <2>1, <2>2
      <4>2. iter[s \ {y}] = v[x] + iter[(s \ {y}) \ {x}]
        BY <1>13, <2>1, <4>1
      <4>3. iter[s \ {x}] = v[y] + iter[(s \ {x}) \ {y}]
        BY <1>13, <4>1
      <4> QED  BY <3>1, <4>2, <4>3
    <3>3. rest \in Nat
      <4> HIDE DEF S
      <4> QED  BY <1>12, <3>1
    <3>4. v[x] \in Nat /\ v[y] \in Nat
      BY <1>3, <2>1, <1>13
    <3>5. \A a, b, c \in Nat : a + (b + c) = b + (a + c)
      OBVIOUS
    <3> HIDE DEF rest, S
    <3> QED  BY <2>1, <3>2, <3>3, <3>4, <3>5
  <2> QED  BY <2>1, <2>2
<1>14. SUBSET S \subseteq T
  <2>1. {} \in T
    OBVIOUS
  <2> HIDE DEF T, S
  <2> QED  BY <1>1, <1>13, <2>1, SubsetInduction
<1>15. PICK g \in [0..n -> Nat] :
         /\ g[0] = 0 /\ g[n] = total
         /\ \A i \in 1..n : g[i] = g[i - 1] + cp[i][field]
  BY DEF SumsTo
<1> DEFINE F == [i \in 0..n |-> iter[1..i]]
<1>16. \A i \in 1..n : F[i] = F[i - 1] + v[i]
  <2>1. ASSUME NEW i \in 1..n PROVE F[i] = F[i - 1] + v[i]
    <3>1. /\ F[i] = iter[1..i] /\ F[i - 1] = iter[1..i - 1]
          /\ (1..i) \ {i} = 1..i - 1 /\ i \in 1..i
          /\ 1..i \in SUBSET S /\ 1..i - 1 \in SUBSET S
      OBVIOUS
    <3> HIDE DEF F
    <3>2. iter[1..i] = v[i] + iter[1..i - 1]
      BY <3>1, <1>14
    <3>3. v[i] \in Nat /\ iter[1..i - 1] \in Nat
      BY <3>1, <1>3, <1>12
    <3> HIDE DEF S
    <3> QED  BY <3>1, <3>2, <3>3
  <2> QED  BY <2>1
<1>17. F[0] = 0 /\ F[n] = iter[S]
  <2>1. 1..0 = {} /\ 0 \in 0..n /\ n \in 0..n
    OBVIOUS
  <2> QED  BY <2>1, <1>10
<1> HIDE DEF F
<1>18. \A i \in 1..n : g[i] = g[i - 1] + v[i]
  BY <1>3, <1>15
<1>19. F[n] = g[n]
  <2>1. n \in 0..n /\ F[0] = g[0]
    BY <1>15, <1>17
  <2>2. AddsUp(F, v, n) /\ AddsUp(g, v, n)
    BY <1>16, <1>18 DEF AddsUp
  <2> HIDE DEF S
  <2> QED  BY <2>1, <2>2, SumsAgree
<1> QED  BY <1>9, <1>15, <1>17, <1>19

\* The rejected rows of two pages.
LEMMA RejectedAdd ==
  ASSUME NEW S, NEW a \in Seq(S), NEW b \in Seq(S)
  PROVE  Cardinality(RejectedOf(a \o b))
           = Cardinality(RejectedOf(a)) + Cardinality(RejectedOf(b))
<1> DEFINE m == Len(a)
           R == RejectedOf(b)
           Q == {m + j : j \in R}
           f == [j \in R |-> m + j]
<1>1. /\ m \in Nat /\ Len(b) \in Nat /\ Len(a \o b) = m + Len(b)
      /\ \A i \in 1..m : (a \o b)[i] = a[i]
      /\ \A j \in 1..Len(b) : (a \o b)[m + j] = b[j]
  BY ConcatProperties
<1>2. R \subseteq 1..Len(b) /\ RejectedOf(a) \subseteq 1..m
  BY DEF RejectedOf
<1>3. f \in Bijection(R, Q)
  <2>1. \A j \in R : j \in Int /\ m + j \in Q
    BY <1>1, <1>2
  <2>2. f \in [R -> Q] /\ \A j \in R : f[j] = m + j
    BY <2>1
  <2>3. \A y \in Q : \E j \in R : f[j] = y
    BY <2>2
  <2>4. \A i, j \in R : f[i] = f[j] => i = j
    <3> HIDE DEF R, f, m
    <3> QED  BY <1>1, <2>1, <2>2
  <2> HIDE DEF f, R, Q
  <2> QED  BY <2>2, <2>3, <2>4
           DEF Bijection, Injection, Surjection, IsInjective
<1>4. /\ IsFiniteSet(R) /\ Cardinality(R) \in Nat
      /\ IsFiniteSet(RejectedOf(a)) /\ Cardinality(RejectedOf(a)) \in Nat
  BY <1>1, RejectedFinite
<1>5. IsFiniteSet(Q) /\ Cardinality(Q) = Cardinality(R)
  <2> HIDE DEF f, R, Q
  <2>1. ExistsBijection(R, Q)
    BY <1>3 DEF ExistsBijection
  <2> QED  BY <1>4, <2>1, FS_Bijection
<1>6. RejectedOf(a \o b) = RejectedOf(a) \cup Q
  <2>1. ASSUME NEW i \in RejectedOf(a \o b)
        PROVE  i \in RejectedOf(a) \cup Q
    <3>1. i \in 1..m + Len(b) /\ ~Accepted((a \o b)[i])
      BY <1>1, <2>1 DEF RejectedOf
    <3>2. CASE i \in 1..m
      BY <1>1, <3>1, <3>2 DEF RejectedOf
    <3>3. CASE i \notin 1..m
      <4> DEFINE j == i - m
      <4>1. j \in 1..Len(b) /\ i = m + j
        <5> HIDE DEF m
        <5> QED  BY <1>1, <3>1, <3>3
      <4> HIDE DEF j, m
      <4>2. j \in R
        BY <1>1, <3>1, <4>1 DEF RejectedOf
      <4> QED  BY <4>1, <4>2
    <3> QED  BY <3>2, <3>3
  <2>2. ASSUME NEW i \in RejectedOf(a)
        PROVE  i \in RejectedOf(a \o b)
    <3>1. i \in 1..m /\ ~Accepted(a[i]) /\ i \in 1..m + Len(b)
      BY <1>1, <2>2 DEF RejectedOf
    <3> QED  BY <1>1, <3>1 DEF RejectedOf
  <2>3. ASSUME NEW j \in R
        PROVE  m + j \in RejectedOf(a \o b)
    <3>1. j \in 1..Len(b) /\ ~Accepted(b[j])
      BY <2>3 DEF RejectedOf
    <3>2. m + j \in 1..m + Len(b) /\ (a \o b)[m + j] = b[j]
      <4> HIDE DEF m
      <4> QED  BY <1>1, <3>1
    <3> QED  BY <1>1, <3>1, <3>2 DEF RejectedOf
  <2> HIDE DEF R
  <2> QED  BY <2>1, <2>2, <2>3
<1>7. RejectedOf(a) \cap Q = {}
  <2> HIDE DEF R, m
  <2>1. \A j \in R : ~ (m + j \in 1..m)
    BY <1>1, <1>2
  <2> QED  BY <1>2, <2>1
<1>8. Cardinality(RejectedOf(a \o b))
        = Cardinality(RejectedOf(a)) + Cardinality(Q)
          - Cardinality(RejectedOf(a) \cap Q)
  <2> HIDE DEF R, Q
  <2> QED  BY <1>4, <1>5, <1>6, FS_Union
<1>9. Cardinality(RejectedOf(a) \cap Q) = 0
  <2> HIDE DEF Q
  <2> QED  BY <1>7, FS_EmptySet
<1>10. \A x, y \in Nat : x + y - 0 = x + y
  OBVIOUS
<1> HIDE DEF R, Q
<1> QED  BY <1>4, <1>5, <1>8, <1>9, <1>10 DEF R

\* In a content without a number twice, the positions of the rejected rows
\* are as many as the rows.
LEMMA RejectedRows ==
  ASSUME NEW c \in Seq(Row), Distinct(c)
  PROVE  Cardinality(RejectedOf(c))
           = Cardinality({r \in Range(c) : ~Accepted(r)})
<1> DEFINE R == RejectedOf(c)
           Q == {r \in Range(c) : ~Accepted(r)}
           f == [i \in R |-> c[i]]
<1>1. Range(c) = {c[i] : i \in 1..Len(c)}
  BY RangeEquality
<1>2. f \in [R -> Q] /\ \A i \in R : f[i] = c[i]
  BY <1>1 DEF RejectedOf
<1>3. \A q \in Q : \E i \in R : f[i] = q
  <2>1. \A q \in Q : \E i \in 1..Len(c) : q = c[i]
    BY <1>1
  <2> QED  BY <2>1 DEF RejectedOf
<1>4. \A i, j \in R : f[i] = f[j] => i = j
  <2>1. \A i \in R : i \in 1..Len(c) /\ f[i] = c[i]
    BY <1>2 DEF RejectedOf
  <2> HIDE DEF f, R
  <2> QED  BY <2>1, DistinctRows
<1>5. IsFiniteSet(R)
  BY RejectedFinite
<1>6. ExistsBijection(R, Q)
  <2> HIDE DEF f, R, Q
  <2> QED  BY <1>2, <1>3, <1>4
           DEF Bijection, Injection, Surjection, IsInjective,
               ExistsBijection
<1> HIDE DEF R, Q
<1>7. Cardinality(Q) = Cardinality(R)
  BY <1>5, <1>6, FS_Bijection
<1> QED  BY <1>7 DEF R, Q

\* The first n checkpoints say how many rows their pages have, and how many
\* of them are rejected.
SaysOf(cp, pages, n) ==
  \A m \in 1..n :
    /\ cp[m].read = Len(pages[m])
    /\ cp[m].rejected = Cardinality(RejectedOf(pages[m]))

\* What the checkpoints of all pages say of them adds up to what holds of
\* the rows: how many there are, and how many are rejected.
LEMMA PagesAddUp ==
  ASSUME NEW pages \in Seq(Seq(Row)), NEW cp, NEW read, NEW rejected,
         SumsTo(cp, "read", Len(pages), read),
         SumsTo(cp, "rejected", Len(pages), rejected),
         SaysOf(cp, pages, Len(pages))
  PROVE  /\ read = Len(FlattenSeq(pages))
         /\ rejected = Cardinality(RejectedOf(FlattenSeq(pages)))
<1> DEFINE N == Len(pages)
<1>1. N \in Nat /\ N \in 0..N /\ \A i \in 1..N : pages[i] \in Seq(Row)
  OBVIOUS
<1>2. PICK flat \in [0..N -> Seq(Row)] :
        /\ flat[0] = << >> /\ flat[N] = FlattenSeq(pages)
        /\ \A i \in 1..N : flat[i] = flat[i - 1] \o pages[i]
  BY FlattenPrefixes
<1>3. PICK g \in [0..N -> Nat] :
        /\ g[0] = 0 /\ g[N] = read
        /\ \A i \in 1..N : g[i] = g[i - 1] + cp[i].read
  BY DEF SumsTo
<1>4. PICK h \in [0..N -> Nat] :
        /\ h[0] = 0 /\ h[N] = rejected
        /\ \A i \in 1..N : h[i] = h[i - 1] + cp[i].rejected
  BY DEF SumsTo
<1> DEFINE L == [i \in 0..N |-> Len(flat[i])]
           R == [i \in 0..N |-> Cardinality(RejectedOf(flat[i]))]
           u == [i \in 1..N |-> cp[i].read]
           v == [i \in 1..N |-> cp[i].rejected]
<1>5. L[0] = g[0] /\ R[0] = h[0]
  <2>1. RejectedOf(<< >>) = {}
    <3>1. 1..Len(<< >>) = {}
      OBVIOUS
    <3> QED  BY <3>1 DEF RejectedOf
  <2>2. L[0] = Len(flat[0]) /\ R[0] = Cardinality(RejectedOf(flat[0]))
    BY <1>1
  <2>3. Len(<< >>) = 0 /\ Cardinality({}) = 0
    BY FS_EmptySet
  <2> HIDE DEF L, R
  <2> QED  BY <1>2, <1>3, <1>4, <2>1, <2>2, <2>3
<1>6. ASSUME NEW i \in 1..N
      PROVE  /\ L[i] = L[i - 1] + u[i] /\ g[i] = g[i - 1] + u[i]
             /\ R[i] = R[i - 1] + v[i] /\ h[i] = h[i - 1] + v[i]
  <2>1. i - 1 \in 0..N /\ i \in 0..N
    BY <1>1
  <2>2. flat[i - 1] \in Seq(Row) /\ pages[i] \in Seq(Row)
        /\ flat[i] = flat[i - 1] \o pages[i]
    BY <1>1, <1>2, <2>1
  <2>3. Len(flat[i]) = Len(flat[i - 1]) + Len(pages[i])
    BY <2>2, ConcatProperties
  <2>4. Cardinality(RejectedOf(flat[i]))
          = Cardinality(RejectedOf(flat[i - 1]))
              + Cardinality(RejectedOf(pages[i]))
    BY <2>2, RejectedAdd
  <2>5. /\ L[i] = Len(flat[i]) /\ L[i - 1] = Len(flat[i - 1])
        /\ R[i] = Cardinality(RejectedOf(flat[i]))
        /\ R[i - 1] = Cardinality(RejectedOf(flat[i - 1]))
    BY <2>1
  <2>6. u[i] = Len(pages[i]) /\ v[i] = Cardinality(RejectedOf(pages[i]))
        /\ u[i] = cp[i].read /\ v[i] = cp[i].rejected
    BY DEF SaysOf
  <2> HIDE DEF L, R, u, v, N
  <2> QED  BY <1>3, <1>4, <2>3, <2>4, <2>5, <2>6
<1> HIDE DEF u, v
<1>7. L[N] = g[N]
  <2>1. AddsUp(L, u, N) /\ AddsUp(g, u, N)
    BY <1>6 DEF AddsUp
  <2> HIDE DEF L, N
  <2> QED  BY <1>1, <1>5, <2>1, SumsAgree
<1>8. R[N] = h[N]
  <2>1. AddsUp(R, v, N) /\ AddsUp(h, v, N)
    BY <1>6 DEF AddsUp
  <2> HIDE DEF R, N
  <2> QED  BY <1>1, <1>5, <2>1, SumsAgree
<1>9. L[N] = Len(flat[N]) /\ R[N] = Cardinality(RejectedOf(flat[N]))
  BY <1>1
<1> HIDE DEF L, R
<1> QED  BY <1>1, <1>2, <1>3, <1>4, <1>7, <1>8, <1>9

-----------------------------------------------------------------------------
(* The pages that are needed, and the report *)

\* So many rows that page n is not empty, or n is the first page.
Needs(n, len) == n = 1 \/ (n - 1) * RowsPerPage < len
AllNeeded(n, len) == \A m \in 1..n : Needs(m, len)

\* Only pages that are needed are asked for.
PagesNeeded(w) ==
  /\ w.pc = "fetch" => AllNeeded(Len(w.pages) + 1, w.total)
  /\ w.pc \in {"record", "start", "store"} =>
       /\ w.pages # << >>
       /\ AllNeeded(Len(w.pages), Len(FlattenSeq(w.pages)))

\* A checkpoint is of a page that is needed.
CheckpointsOf(t, c) ==
  \A k \in DOMAIN t.checkpoint : k \in Nat \ {0} /\ Needs(k, Len(c))
CheckpointsNeeded(snap) == \A c \in DOMAIN snap : CheckpointsOf(snap[c], c)

\* The run counted what the checkpoints before the next page say, and they
\* say what is in their pages.
CountedUpTo(w, cp) ==
  /\ \A f \in DOMAIN NoCounts : SumsTo(cp, f, w.next - 1, w.counts[f])
  /\ SaysOf(cp, w.pages, w.next - 1)

Counted(w, snap) ==
  LET t == snap[FlattenSeq(w.pages)] IN
  IF w.pc = "store"
  THEN t.status = "RUNNING" /\ CountedUpTo(w, t.checkpoint)
  ELSE w.counts = NoCounts

\* What a succeeded run of a content has to report.
Reported(t, c) ==
  /\ \A f \in DOMAIN NoCounts : t.counts[f] = Total(t.checkpoint, f)
  /\ t.counts.read = Len(c)
  /\ t.counts.rejected = Cardinality({r \in Range(c) : ~Accepted(r)})
AllReported(snap) ==
  \A c \in DOMAIN snap : snap[c].status = "SUCCEEDED" => Reported(snap[c], c)

OneOperator == \A p, q \in operators : p = q

ReportInv ==
  /\ \A p \in Caller : PagesNeeded(task[p])
  /\ CheckpointsNeeded(snapshot)
  /\ OneOperator => /\ \A p \in operators : Counted(task[p], snapshot)
                    /\ AllReported(snapshot)

\* A step of one process that keeps what its run and the snapshots report.
LEMMA ReportStep ==
  ASSUME IngestionInv, ReportInv, NEW p \in operators, NEW w,
         task' = [task EXCEPT ![p] = w], operators' = operators,
         PagesNeeded(w), CheckpointsNeeded(snapshot'),
         OneOperator => Counted(w, snapshot') /\ AllReported(snapshot')
  PROVE  ReportInv'
<1>1. p \in Caller /\ task \in [Caller -> Work]
  BY DEF IngestionInv
<1>2. \A q \in Caller : task'[q] = IF q = p THEN w ELSE task[q]
  BY <1>1
<1>3. \A q \in Caller : PagesNeeded(task'[q])
  BY <1>2 DEF ReportInv
<1>4. OneOperator' => OneOperator
  BY DEF OneOperator
<1>5. ASSUME OneOperator
      PROVE  /\ \A q \in operators : Counted(task'[q], snapshot')
             /\ AllReported(snapshot')
  <2>1. \A q \in operators : task'[q] = w
    BY <1>1, <1>2, <1>5 DEF OneOperator
  <2> QED  BY <1>5, <2>1
<1> QED  BY <1>3, <1>4, <1>5 DEF ReportInv

\* Nothing is written.
LEMMA NothingReported ==
  ASSUME ReportInv, snapshot' = snapshot
  PROVE  /\ CheckpointsNeeded(snapshot')
         /\ OneOperator => AllReported(snapshot')
BY DEF ReportInv

\* One snapshot is written.
LEMMA OneReported ==
  ASSUME ReportInv, NEW c \in DOMAIN snapshot, NEW u,
         DOMAIN snapshot' = DOMAIN snapshot,
         \A x \in DOMAIN snapshot :
           snapshot'[x] = IF x = c THEN u ELSE snapshot[x],
         CheckpointsOf(u, c),
         OneOperator => (u.status = "SUCCEEDED" => Reported(u, c))
  PROVE  /\ CheckpointsNeeded(snapshot')
         /\ OneOperator => AllReported(snapshot')
BY DEF ReportInv, CheckpointsNeeded, AllReported

\* The first page is always needed.
LEMMA FirstNeeded ==
  ASSUME NEW len
  PROVE  AllNeeded(0 + 1, len)
BY DEF AllNeeded, Needs

\* No process has begun, or one has not fetched anything.
LEMMA NoCallReports ==
  ASSUME NEW snap
  PROVE  PagesNeeded(NoCall) /\ Counted(NoCall, snap)
BY DEF NoCall, PagesNeeded, Counted

\* There is nothing to report at first.
LEMMA ReportStarts ==
  ASSUME IngestionInit
  PROVE  ReportInv
<1>1. DOMAIN snapshot = {}
  BY DEF IngestionInit
<1>2. \A p \in Caller : task[p] = NoCall
  BY DEF IngestionInit
<1>3. \A p \in operators : task[p] = NoCall
  BY <1>2 DEF IngestionInit
<1>4. CheckpointsNeeded(snapshot) /\ AllReported(snapshot)
  BY <1>1 DEF CheckpointsNeeded, AllReported
<1> QED  BY <1>2, <1>3, <1>4, NoCallReports DEF ReportInv

\* A call that ends without writing, and one that begins.
LEMMA CallReports ==
  ASSUME IngestionInv, ReportInv, NEW p \in operators,
         Invoke(p) \/ FetchFails(p) \/ CrashIngestion(p)
  PROVE  ReportInv'
<1>1. snapshot' = snapshot /\ operators' = operators
  BY DEF Invoke, FetchFails, CrashIngestion
<1>2. CheckpointsNeeded(snapshot') /\ (OneOperator => AllReported(snapshot'))
  BY <1>1, NothingReported
<1>3. CASE FetchFails(p) \/ CrashIngestion(p)
  <2>1. task' = [task EXCEPT ![p] = NoCall]
    BY <1>3 DEF FetchFails, CrashIngestion
  <2> QED  BY <1>1, <1>2, <2>1, NoCallReports, ReportStep
<1>4. CASE Invoke(p)
  <2> DEFINE w == [NoCall EXCEPT !.pc = "fetch",
                                 !.moments = {Listing(register)}]
  <2>1. task' = [task EXCEPT ![p] = w]
    BY <1>4 DEF Invoke
  <2>2. w.pc = "fetch" /\ w.pages = << >> /\ w.counts = NoCounts
    BY DEF NoCall
  <2> HIDE DEF w
  <2>3. PagesNeeded(w)
    <3>1. Len(w.pages) = 0
      BY <2>2
    <3>2. AllNeeded(Len(w.pages) + 1, w.total)
      BY <3>1, FirstNeeded
    <3> QED  BY <2>2, <3>2 DEF PagesNeeded
  <2>4. Counted(w, snapshot')
    BY <2>2 DEF Counted
  <2> QED  BY <1>1, <1>2, <2>1, <2>3, <2>4, ReportStep
<1> QED  BY <1>3, <1>4

\* The register changes under a process that fetches.
LEMMA ChangeReports ==
  ASSUME IngestionInv, ReportInv, NEW new \in SUBSET Row, Change(new)
  PROVE  ReportInv'
<1>1. snapshot' = snapshot /\ operators' = operators
  BY DEF Change
<1>2. ASSUME NEW p \in Caller
      PROVE  /\ task'[p].pages = task[p].pages /\ task'[p].pc = task[p].pc
             /\ task'[p].next = task[p].next
             /\ task'[p].total = task[p].total
             /\ task'[p].counts = task[p].counts
  <2>1. task[p] \in Work
    BY DEF IngestionInv
  <2>2. task'[p] = IF task[p].pc = "fetch"
                   THEN [task[p] EXCEPT !.moments = @ \cup {Listing(new)}]
                   ELSE task[p]
    BY DEF Change
  <2> DEFINE w == task[p]
             v == [w EXCEPT !.moments = w.moments \cup {Listing(new)}]
  <2>3. /\ v.pages = w.pages /\ v.pc = w.pc /\ v.next = w.next
        /\ v.total = w.total /\ v.counts = w.counts
    <3> HIDE DEF w
    <3> QED  BY <2>1 DEF Work, w
  <2>4. task'[p] = v \/ task'[p] = w
    BY <2>2
  <2> HIDE DEF v
  <2> QED  BY <2>3, <2>4
<1>3. \A p \in Caller : PagesNeeded(task'[p])
  BY <1>2 DEF ReportInv, PagesNeeded
<1>4. ASSUME OneOperator, NEW p \in operators
      PROVE  Counted(task'[p], snapshot')
  <2>1. Counted(task[p], snapshot) /\ p \in Caller
    BY <1>4 DEF ReportInv, IngestionInv
  <2> QED  BY <1>1, <1>2, <2>1 DEF Counted, CountedUpTo
<1>5. OneOperator' => OneOperator
  BY <1>1 DEF OneOperator
<1>6. CheckpointsNeeded(snapshot') /\ (OneOperator => AllReported(snapshot'))
  BY <1>1, NothingReported
<1> QED  BY <1>1, <1>3, <1>4, <1>5, <1>6 DEF ReportInv

\* A page is asked for when those before it do not hold all rows.
LEMMA FetchReports ==
  ASSUME IngestionInv, ReportInv, NEW p \in operators,
         NEW items \in Responses(PageNo(p)),
         FetchPage(p, items) \/ FetchLastPage(p, items)
  PROVE  ReportInv'
<1> DEFINE w == task[p]
           n == Len(w.pages)
           pages == Append(w.pages, items)
           total == TotalOf(p)
           v == [w EXCEPT !.pages = pages, !.total = total]
           u == [v EXCEPT !.pc = "record"]
<1>1. /\ p \in Caller /\ w \in Work /\ w.pages \in Seq(Seq(Row))
      /\ w.pc = "fetch" /\ n \in Nat /\ PageNo(p) = n + 1
  <2>1. p \in Caller /\ w \in Work
    BY DEF IngestionInv
  <2> QED  BY <2>1 DEF Work, FetchPage, FetchLastPage, PageNo
<1>2. items \in Seq(Row)
  <2>1. PageNo(p) \in Nat \ {0}
    BY <1>1
  <2> QED  BY <2>1, ResponseIs
<1>3. total \in Nat /\ RowsPerPage \in Nat \ {0}
  <2>1. Cardinality(register) \in Nat
    BY RowsFinite DEF IngestionInv
  <2>2. w.total \in Nat
    BY <1>1 DEF Work
  <2> QED  BY <2>1, <2>2, IngestionAssumption
           DEF TotalOf, IngestionAssumption
<1>4. Len(pages) = n + 1 /\ pages # << >> /\ pages \in Seq(Seq(Row))
  BY <1>1, <1>2, AppendProperties
<1>5. AllNeeded(n + 1, total)
  <2>1. CASE n = 0
    <3> HIDE DEF total, n
    <3> QED  BY <2>1, FirstNeeded
  <2>2. CASE n # 0
    <3>1. total = w.total
      BY <1>1, <2>2 DEF TotalOf
    <3>2. AllNeeded(n + 1, w.total)
      BY <1>1 DEF ReportInv, PagesNeeded
    <3> QED  BY <3>1, <3>2
  <2> QED  BY <2>1, <2>2
<1>6. snapshot' = snapshot /\ operators' = operators
  BY DEF FetchPage, FetchLastPage
<1>7. CheckpointsNeeded(snapshot') /\ (OneOperator => AllReported(snapshot'))
  BY <1>6, NothingReported
<1>8. OneOperator => w.counts = NoCounts
  BY <1>1 DEF ReportInv, Counted
<1>9. v.pages = pages /\ v.total = total /\ v.pc = "fetch"
      /\ v.counts = w.counts
  <2> HIDE DEF w, pages, total
  <2> QED  BY <1>1 DEF Work
<1>10. u.pages = pages /\ u.pc = "record" /\ u.counts = w.counts
  <2> HIDE DEF w, pages, total
  <2> QED  BY <1>1 DEF Work
<1>11. CASE FetchPage(p, items)
  <2>1. task' = [task EXCEPT ![p] = v]
    BY <1>11 DEF FetchPage, IngestionInv
  <2>2. (n + 1) * RowsPerPage < total
    <3>1. ~ (PageNo(p) * RowsPerPage >= total)
      BY <1>11 DEF FetchPage, IsLastPage
    <3> DEFINE a == (n + 1) * RowsPerPage
    <3>2. a \in Nat /\ ~ (a >= total)
      BY <1>1, <1>3, <3>1
    <3> HIDE DEF a, total
    <3> QED  BY <1>3, <3>2 DEF a
  <2> HIDE DEF w, v, pages, total, n
  <2>3. AllNeeded((n + 1) + 1, total)
    <3>1. ASSUME NEW m \in 1..(n + 1) + 1 PROVE Needs(m, total)
      <4>1. CASE m \in 1..n + 1
        BY <1>5, <4>1 DEF AllNeeded
      <4>2. CASE m \notin 1..n + 1
        <5>1. m - 1 = n + 1
          BY <1>1, <4>2
        <5> QED  BY <2>2, <5>1 DEF Needs
      <4> QED  BY <4>1, <4>2
    <3> QED  BY <3>1 DEF AllNeeded
  <2>4. PagesNeeded(v)
    BY <1>4, <1>9, <2>3 DEF PagesNeeded
  <2>5. OneOperator => Counted(v, snapshot')
    BY <1>8, <1>9 DEF Counted
  <2> QED  BY <1>6, <1>7, <2>1, <2>4, <2>5, ReportStep
<1>12. CASE FetchLastPage(p, items)
  <2>1. task' = [task EXCEPT ![p] = u] /\ assertSnapshotPages(pages, total)
    BY <1>12 DEF FetchLastPage, IngestionInv
  <2> HIDE DEF w, v, u, pages, total, n
  <2>2. Len(FlattenSeq(pages)) = total
    BY <2>1 DEF assertSnapshotPages
  <2>3. PagesNeeded(u)
    BY <1>4, <1>5, <1>10, <2>2 DEF PagesNeeded
  <2>4. OneOperator => Counted(u, snapshot')
    BY <1>8, <1>10 DEF Counted
  <2> QED  BY <1>6, <1>7, <2>1, <2>3, <2>4, ReportStep
<1> QED  BY <1>11, <1>12

\* The snapshot is registered, unless its content is known.
LEMMA UpsertReports ==
  ASSUME IngestionInv, ReportInv, NEW p \in operators, upsertSnapshot(p)
  PROVE  ReportInv'
<1> DEFINE w == task[p]
           c == Content(p)
           v == [w EXCEPT !.pc = "start"]
<1>1. p \in Caller /\ w \in Work /\ w.pc = "record"
  BY DEF IngestionInv, upsertSnapshot
<1>2. CheckpointsNeeded(snapshot') /\ (OneOperator => AllReported(snapshot'))
  <2>1. CASE c \in Known
    <3>1. snapshot' = snapshot
      BY <2>1 DEF upsertSnapshot
    <3> QED  BY <3>1, NothingReported
  <2>2. CASE c \notin Known
    <3>1. snapshot' = [x \in DOMAIN snapshot \cup {c} |->
                         IF x = c THEN NewSnapshot ELSE snapshot[x]]
      BY <2>2 DEF upsertSnapshot, Changed, Known
    <3>2. /\ DOMAIN snapshot' = DOMAIN snapshot \cup {c}
          /\ snapshot'[c] = NewSnapshot
          /\ \A x \in DOMAIN snapshot : snapshot'[x] = snapshot[x]
      BY <2>2, <3>1 DEF Known
    <3>3. NewSnapshot.status = "none" /\ DOMAIN NewSnapshot.checkpoint = {}
      BY DEF NewSnapshot
    <3> HIDE DEF c
    <3> QED  BY <3>2, <3>3
             DEF ReportInv, CheckpointsNeeded, CheckpointsOf, AllReported
  <2> QED  BY <2>1, <2>2
<1>3. task' = [task EXCEPT ![p] = v] /\ operators' = operators
  BY DEF upsertSnapshot, IngestionInv
<1>4. v.pages = w.pages /\ v.pc = "start" /\ v.counts = w.counts
  <2> HIDE DEF w
  <2> QED  BY <1>1 DEF Work
<1>5. PagesNeeded(w) /\ (OneOperator => w.counts = NoCounts)
  BY <1>1 DEF ReportInv, Counted
<1> HIDE DEF v, w
<1>6. PagesNeeded(v) /\ (OneOperator => Counted(v, snapshot'))
  BY <1>1, <1>4, <1>5 DEF PagesNeeded, Counted
<1> QED  BY <1>2, <1>3, <1>6, ReportStep

\* An attempt begins: nothing is counted, and the run is RUNNING.
LEMMA StartReports ==
  ASSUME IngestionInv, ReportInv, NEW p \in operators, startRun(p)
  PROVE  ReportInv'
<1> DEFINE w == task[p]
           c == Content(p)
           t == snapshot[c]
           u == [t EXCEPT !.status = "RUNNING", !.attempt = @ + 1,
                          !.counts = NoCounts]
           v == [w EXCEPT !.pc = "store"]
<1>1. /\ p \in Caller /\ w \in Work /\ WorkOK(w, snapshot)
      /\ w.pc = "start" /\ c = FlattenSeq(w.pages) /\ c \in DOMAIN snapshot
      /\ t \in SnapshotRecord
  <2>1. p \in Caller
    BY DEF IngestionInv
  <2> QED  BY <2>1, StartedHasSnapshot DEF startRun
<1>2. u.checkpoint = t.checkpoint /\ u.status = "RUNNING"
  <2> HIDE DEF t
  <2> QED  BY <1>1 DEF SnapshotRecord
<1>3. /\ DOMAIN snapshot' = DOMAIN snapshot
      /\ \A x \in DOMAIN snapshot :
           snapshot'[x] = IF x = c THEN u ELSE snapshot[x]
  <2> HIDE DEF c
  <2> QED  BY <1>1 DEF startRun, c
<1>4. CheckpointsNeeded(snapshot') /\ (OneOperator => AllReported(snapshot'))
  <2>1. CheckpointsOf(t, c)
    BY <1>1 DEF ReportInv, CheckpointsNeeded
  <2> HIDE DEF u, c, t
  <2>2. CheckpointsOf(u, c)
    BY <1>2, <2>1 DEF CheckpointsOf
  <2> QED  BY <1>1, <1>2, <1>3, <2>2, OneReported
<1>5. task' = [task EXCEPT ![p] = v] /\ operators' = operators
  BY DEF startRun, IngestionInv
<1>6. v.pages = w.pages /\ v.pc = "store" /\ v.counts = w.counts
      /\ v.next = w.next
  <2> HIDE DEF w
  <2> QED  BY <1>1 DEF Work
<1>7. PagesNeeded(w) /\ (OneOperator => w.counts = NoCounts) /\ w.next = 1
  BY <1>1 DEF ReportInv, Counted, WorkOK
<1>8. snapshot'[c].status = "RUNNING"
  BY <1>1, <1>2, <1>3
<1> HIDE DEF v, w, c
<1>9. PagesNeeded(v)
  BY <1>1, <1>6, <1>7 DEF PagesNeeded
<1>10. ASSUME OneOperator PROVE Counted(v, snapshot')
  <2>1. \A cp, f : SumsTo(cp, f, 1 - 1, 0)
    <3>1. 1 - 1 = 0
      OBVIOUS
    <3> QED  BY <3>1, SumOfNone
  <2>2. 1..1 - 1 = {} /\ \A f \in DOMAIN NoCounts : NoCounts[f] = 0
    BY DEF NoCounts
  <2>3. \A cp : CountedUpTo(v, cp)
    BY <1>6, <1>7, <1>10, <2>1, <2>2 DEF CountedUpTo, SaysOf
  <2> QED  BY <1>1, <1>6, <1>8, <2>3 DEF Counted
<1> QED  BY <1>4, <1>5, <1>9, <1>10, ReportStep

\* When every page is written there is a checkpoint for each and no other:
\* one left by an earlier attempt is of a page that is needed.
LEMMA CheckpointsAtEnd ==
  ASSUME NEW pages \in Seq(Seq(Row)), pages # << >>, NEW t,
         \A m \in 1..Len(pages) : Len(pages[m]) <= RowsPerPage,
         \A m \in 1..Len(pages) : m \in DOMAIN t.checkpoint,
         CheckpointsOf(t, FlattenSeq(pages))
  PROVE  DOMAIN t.checkpoint = 1..Len(pages)
<1> DEFINE N == Len(pages)
           len == Len(FlattenSeq(pages))
<1>1. RowsPerPage \in Nat \ {0} /\ N \in Nat \ {0}
  BY EmptySeq, IngestionAssumption DEF IngestionAssumption
<1>2. len \in Nat /\ len <= N * RowsPerPage
  <2>1. RowsPerPage \in Nat
    BY <1>1
  <2> QED  BY <2>1, FlattenIs
<1>3. ASSUME NEW k \in DOMAIN t.checkpoint PROVE k \in 1..N
  <2>1. k \in Nat \ {0} /\ Needs(k, len)
    BY DEF CheckpointsOf
  <2>2. CASE k = 1
    <3> HIDE DEF N
    <3> QED  BY <1>1, <2>2
  <2>3. CASE k # 1 /\ k > N
    <3> DEFINE d == (k - 1) - N
               a == N * RowsPerPage
               b == d * RowsPerPage
    <3>1. d \in Nat /\ k - 1 = N + d
      <4> HIDE DEF N
      <4> QED  BY <1>1, <2>1, <2>3
    <3>2. (k - 1) * RowsPerPage = a + b /\ a \in Nat /\ b \in Nat
      <4> HIDE DEF N, d
      <4>1. \A x, y, r \in Nat : (x + y) * r = x * r + y * r
        OBVIOUS
      <4> QED  BY <1>1, <3>1, <4>1
    <3>3. (k - 1) * RowsPerPage < len
      BY <2>1, <2>3 DEF Needs
    <3> HIDE DEF a, b, N, len
    <3>4. len <= a
      BY <1>2 DEF a
    <3> QED  BY <1>2, <3>2, <3>3, <3>4
  <2> HIDE DEF N
  <2> QED  BY <1>1, <2>1, <2>2, <2>3
<1> QED  BY <1>3

\* A content has a page, and no page is longer than asked for.
WorkPages(w) ==
  /\ w.pages # << >>
  /\ \A m \in 1..Len(w.pages) : Len(w.pages[m]) <= RowsPerPage

\* A run that wrote every page counted its content, and what the
\* checkpoints say.
LEMMA CountedIsReported ==
  ASSUME NEW w \in Work, NEW t \in SnapshotRecord, NEW s,
         WorkPages(w), CheckpointsOf(t, FlattenSeq(w.pages)),
         Distinct(FlattenSeq(w.pages)),
         StoredUpTo(w, t), CountedUpTo(w, t.checkpoint),
         w.next - 1 = Len(w.pages),
         s.checkpoint = t.checkpoint, s.counts = w.counts
  PROVE  Reported(s, FlattenSeq(w.pages))
<1> DEFINE c == FlattenSeq(w.pages)
           N == Len(w.pages)
           cp == t.checkpoint
<1>1. w.pages \in Seq(Seq(Row)) /\ N \in Nat /\ w.counts \in CountRecord
  BY DEF Work
<1>2. DOMAIN cp = 1..N
  <2>1. \A m \in 1..N : m \in DOMAIN cp
    BY DEF StoredUpTo
  <2> HIDE DEF cp
  <2> QED  BY <1>1, <2>1, CheckpointsAtEnd DEF WorkPages, cp
<1>3. /\ \A f \in DOMAIN NoCounts : SumsTo(cp, f, N, w.counts[f])
      /\ SaysOf(cp, w.pages, N)
  BY DEF CountedUpTo
<1>4. \A m \in 1..N : cp[m] \in CountRecord
  <2>1. cp \in Checkpoints
    BY DEF SnapshotRecord
  <2>2. PICK D \in SUBSET Nat : cp \in [D -> CountRecord]
    BY <2>1 DEF Checkpoints
  <2> HIDE DEF cp, N
  <2> QED  BY <1>2, <2>2
<1>5. ASSUME NEW f \in DOMAIN NoCounts
      PROVE  s.counts[f] = Total(s.checkpoint, f)
  <2>1. \A i \in 1..N : cp[i][f] \in Nat
    BY <1>4 DEF CountRecord, NoCounts
  <2>2. SumsTo(cp, f, N, w.counts[f])
    BY <1>3
  <2> HIDE DEF cp, N
  <2>3. Total(cp, f) = w.counts[f]
    BY <1>1, <1>2, <2>1, <2>2, TotalIs
  <2> QED  BY <2>3 DEF cp
<1>6. w.counts.read = Len(c) /\ w.counts.rejected = Cardinality(RejectedOf(c))
  <2>1. /\ SumsTo(cp, "read", N, w.counts.read)
        /\ SumsTo(cp, "rejected", N, w.counts.rejected)
    BY <1>3 DEF NoCounts
  <2> HIDE DEF cp
  <2> DEFINE pages == w.pages
  <2>2. pages \in Seq(Seq(Row)) /\ SaysOf(cp, pages, Len(pages))
    BY <1>1, <1>3
  <2>3. /\ SumsTo(cp, "read", Len(pages), w.counts.read)
        /\ SumsTo(cp, "rejected", Len(pages), w.counts.rejected)
    BY <2>1
  <2> HIDE DEF pages, N
  <2>4. w.counts.read = Len(FlattenSeq(pages))
        /\ w.counts.rejected = Cardinality(RejectedOf(FlattenSeq(pages)))
    BY <2>2, <2>3, PagesAddUp
  <2> QED  BY <2>4 DEF pages
<1>7. Cardinality(RejectedOf(c))
        = Cardinality({r \in Range(c) : ~Accepted(r)})
  <2>1. c \in Seq(Row)
    BY <1>1, FlattenIs
  <2> HIDE DEF c
  <2> QED  BY <2>1, RejectedRows DEF c
<1> HIDE DEF c, cp
<1> QED  BY <1>5, <1>6, <1>7 DEF Reported, c

\* The run is closed: FAILED_FINAL, or SUCCEEDED with what it counted.
LEMMA EndReports ==
  ASSUME IngestionInv, ReportInv, NEW p \in operators,
         finishRun(p) \/ failRun(p)
  PROVE  ReportInv'
<1> DEFINE w == task[p]
           c == Content(p)
           t == snapshot[c]
           f == [t EXCEPT !.status = "FAILED_FINAL"]
           s == [t EXCEPT !.status = "SUCCEEDED", !.counts = w.counts]
<1>1. /\ p \in Caller /\ w \in Work /\ WorkOK(w, snapshot)
      /\ w.pc = "store" /\ c = FlattenSeq(w.pages) /\ c \in DOMAIN snapshot
      /\ t \in SnapshotRecord /\ Distinct(c)
      /\ w.pages \in Seq(Seq(Row))
  <2>1. p \in Caller
    BY DEF IngestionInv
  <2> QED  BY <2>1, StartedHasSnapshot DEF finishRun, failRun
<1>2. /\ f.checkpoint = t.checkpoint /\ f.status = "FAILED_FINAL"
      /\ s.checkpoint = t.checkpoint /\ s.counts = w.counts
  <2> HIDE DEF t, w
  <2> QED  BY <1>1 DEF SnapshotRecord
<1>3. CheckpointsOf(t, c)
  BY <1>1 DEF ReportInv, CheckpointsNeeded
<1>4. task' = [task EXCEPT ![p] = NoCall] /\ operators' = operators
  BY DEF finishRun, failRun
<1>5. CASE failRun(p)
  <2>1. /\ DOMAIN snapshot' = DOMAIN snapshot
        /\ \A x \in DOMAIN snapshot :
             snapshot'[x] = IF x = c THEN f ELSE snapshot[x]
    <3> HIDE DEF c
    <3> QED  BY <1>1, <1>5 DEF failRun, c
  <2> HIDE DEF f, c, t
  <2>2. CheckpointsOf(f, c)
    BY <1>2, <1>3 DEF CheckpointsOf
  <2>3. /\ CheckpointsNeeded(snapshot')
        /\ OneOperator => AllReported(snapshot')
    BY <1>1, <1>2, <2>1, <2>2, OneReported
  <2> QED  BY <1>4, <2>3, NoCallReports, ReportStep
<1>6. CASE finishRun(p)
  <2>1. /\ DOMAIN snapshot' = DOMAIN snapshot
        /\ \A x \in DOMAIN snapshot :
             snapshot'[x] = IF x = c THEN s ELSE snapshot[x]
    <3> HIDE DEF c
    <3> QED  BY <1>1, <1>6 DEF finishRun, c
  <2>2. StoredUpTo(w, t) /\ w.next - 1 = Len(w.pages)
    <3>1. StoredUpTo(w, t)
      BY <1>1 DEF WorkOK
    <3>2. w.next \in Nat /\ Len(w.pages) \in Nat
      BY <1>1 DEF Work
    <3>3. w.next > Len(w.pages) /\ w.next <= Len(w.pages) + 1
      BY <1>6, <3>1 DEF finishRun, StoredUpTo
    <3> HIDE DEF w
    <3> QED  BY <3>1, <3>2, <3>3
  <2>3. WorkPages(w)
    BY <1>1 DEF ReportInv, PagesNeeded, WorkOK, WorkPages
  <2>4. ASSUME OneOperator PROVE Reported(s, c)
    <3>1. CountedUpTo(w, t.checkpoint)
      <4>1. Counted(w, snapshot)
        BY <2>4 DEF ReportInv
      <4> QED  BY <1>1, <4>1 DEF Counted
    <3> HIDE DEF s, t, w, c
    <3>2. Reported(s, FlattenSeq(w.pages))
      BY <1>1, <1>2, <1>3, <2>2, <2>3, <3>1, CountedIsReported
    <3> QED  BY <1>1, <3>2
  <2> HIDE DEF s, c, t, w
  <2>5. CheckpointsOf(s, c)
    BY <1>2, <1>3 DEF CheckpointsOf
  <2>6. /\ CheckpointsNeeded(snapshot')
        /\ OneOperator => AllReported(snapshot')
    BY <1>1, <2>1, <2>4, <2>5, OneReported
  <2> QED  BY <1>4, <2>6, NoCallReports, ReportStep
<1> QED  BY <1>5, <1>6

\* A page is written and counted.
LEMMA PersistReports ==
  ASSUME IngestionInv, ReportInv, NEW p \in operators, persistPage(p)
  PROVE  ReportInv'
<1> DEFINE w == task[p]
           c == Content(p)
           t == snapshot[c]
           n == w.next
           rows == w.pages[n]
           done == DonePage(p)
           checkpoint == CheckpointOf(done.t, n, done.n)
           u == [done.t EXCEPT !.checkpoint = checkpoint]
           counts == [k \in DOMAIN w.counts |-> w.counts[k] + done.n[k]]
           v == [w EXCEPT !.next = n + 1, !.counts = counts]
<1>1. /\ p \in Caller /\ w \in Work /\ WorkOK(w, snapshot)
      /\ w.pc = "store" /\ c = FlattenSeq(w.pages) /\ c \in DOMAIN snapshot
      /\ w.pages \in Seq(Seq(Row))
  <2>1. p \in Caller
    BY DEF IngestionInv
  <2> QED  BY <2>1, StartedHasSnapshot DEF persistPage
<1>2. /\ n \in Nat \ {0} /\ n \in 1..Len(w.pages) /\ w.counts \in CountRecord
      /\ done.t \in SnapshotRecord /\ done.n \in CountRecord
      /\ done.t.checkpoint = t.checkpoint /\ done.t.status = t.status
      /\ done.n.read = Len(rows)
      /\ done.n.rejected = Cardinality(RejectedOf(rows))
  BY <1>1, DonePageIs DEF Adds
<1>3. u.checkpoint = checkpoint /\ u.status = t.status
  <2> HIDE DEF done, checkpoint
  <2> QED  BY <1>2 DEF SnapshotRecord
<1>4. /\ DOMAIN checkpoint = DOMAIN t.checkpoint \cup {n}
      /\ checkpoint[n] = done.n
      /\ \A k \in DOMAIN t.checkpoint :
           k # n => checkpoint[k] = t.checkpoint[k]
  <2> HIDE DEF done, n, t
  <2> QED  BY <1>2 DEF CheckpointOf
<1>5. /\ DOMAIN snapshot' = DOMAIN snapshot
      /\ \A x \in DOMAIN snapshot :
           snapshot'[x] = IF x = c THEN u ELSE snapshot[x]
  <2>1. snapshot' = [x \in DOMAIN snapshot \cup {c} |->
                       IF x = c THEN u ELSE snapshot[x]]
    BY DEF persistPage, Changed, Known, DonePage
  <2> HIDE DEF u, c
  <2> QED  BY <1>1, <2>1
<1>6. task' = [task EXCEPT ![p] = v] /\ operators' = operators
  BY DEF persistPage, DonePage
<1>7. v.pages = w.pages /\ v.pc = "store" /\ v.next = n + 1
      /\ v.counts = counts
  <2> HIDE DEF w, n, counts
  <2> QED  BY <1>1 DEF Work
<1>8. PagesNeeded(w) /\ CheckpointsOf(t, c)
  BY <1>1 DEF ReportInv, CheckpointsNeeded
<1>9. CheckpointsOf(u, c)
  <2>1. Needs(n, Len(c))
    <3> HIDE DEF w, n, c
    <3> QED  BY <1>1, <1>2, <1>8 DEF PagesNeeded, AllNeeded
  <2> HIDE DEF n, u, c, t, checkpoint
  <2> QED  BY <1>2, <1>3, <1>4, <1>8, <2>1 DEF CheckpointsOf
<1>10. ASSUME OneOperator
       PROVE  t.status = "RUNNING" /\ CountedUpTo(w, t.checkpoint)
  <2>1. Counted(w, snapshot)
    BY <1>10 DEF ReportInv
  <2> QED  BY <1>1, <2>1 DEF Counted
<1>11. ASSUME CountedUpTo(w, t.checkpoint)
       PROVE  CountedUpTo(v, checkpoint)
  <2>1. StoredUpTo(w, t)
    BY <1>1 DEF WorkOK
  <2>2. \A m \in 1..n - 1 : m # n /\ m \in DOMAIN t.checkpoint
    <3>1. \A m \in 1..n - 1 : m # n
      <4> HIDE DEF n
      <4> QED  BY <1>2
    <3> QED  BY <2>1, <3>1 DEF StoredUpTo
  <2>3. \A m \in 1..n - 1 : checkpoint[m] = t.checkpoint[m]
    <3> HIDE DEF checkpoint, t, n
    <3> QED  BY <1>4, <2>2
  <2>4. (n - 1) + 1 = n /\ (n + 1) - 1 = n /\ n - 1 \in Nat
    <3> HIDE DEF n
    <3> QED  BY <1>2
  <2>5. ASSUME NEW f \in DOMAIN NoCounts
        PROVE  SumsTo(checkpoint, f, n, v.counts[f])
    <3>1. f \in DOMAIN w.counts /\ done.n[f] \in Nat
      <4> HIDE DEF done, w
      <4> QED  BY <1>2 DEF NoCounts, CountRecord
    <3>2. v.counts[f] = w.counts[f] + done.n[f]
      <4>1. v.counts[f] = counts[f]
        BY <1>7
      <4> HIDE DEF v, w, done
      <4> QED  BY <3>1, <4>1
    <3>3. SumsTo(t.checkpoint, f, n - 1, w.counts[f])
      BY <1>11 DEF CountedUpTo
    <3> HIDE DEF v, w, done, t, n, checkpoint
    <3>4. checkpoint[(n - 1) + 1][f] = done.n[f]
      BY <1>4, <2>4
    <3>5. SumsTo(checkpoint, f, (n - 1) + 1, w.counts[f] + done.n[f])
      BY <2>3, <2>4, <3>1, <3>3, <3>4, SumOfOneMore
    <3> QED  BY <2>4, <3>2, <3>5
  <2>6. ASSUME NEW m \in 1..n
        PROVE  /\ checkpoint[m].read = Len(v.pages[m])
               /\ checkpoint[m].rejected
                    = Cardinality(RejectedOf(v.pages[m]))
    <3>1. CASE m = n
      <4>1. v.pages[m] = rows
        BY <1>7, <3>1
      <4> HIDE DEF v, rows, done, checkpoint, n
      <4> QED  BY <1>2, <1>4, <3>1, <4>1
    <3>2. CASE m # n
      <4>1. m \in 1..n - 1
        <5> HIDE DEF n
        <5> QED  BY <1>2, <3>2
      <4> HIDE DEF v, w, checkpoint, t
      <4> QED  BY <1>7, <1>11, <2>3, <4>1 DEF CountedUpTo, SaysOf
    <3> QED  BY <3>1, <3>2
  <2> HIDE DEF v, n, checkpoint
  <2> QED  BY <1>7, <2>4, <2>5, <2>6 DEF CountedUpTo, SaysOf
<1> HIDE DEF u, v, w, c, n, t, checkpoint
<1>12. /\ CheckpointsNeeded(snapshot')
       /\ OneOperator => AllReported(snapshot')
  <2>1. OneOperator => u.status # "SUCCEEDED"
    BY <1>3, <1>10
  <2> QED  BY <1>1, <1>5, <1>9, <2>1, OneReported
<1>13. PagesNeeded(v)
  BY <1>1, <1>7, <1>8 DEF PagesNeeded
<1>14. ASSUME OneOperator PROVE Counted(v, snapshot')
  <2>1. snapshot'[c] = u
    BY <1>1, <1>5
  <2> QED  BY <1>1, <1>3, <1>7, <1>10, <1>11, <1>14, <2>1 DEF Counted
<1> QED  BY <1>6, <1>12, <1>13, <1>14, ReportStep

\* Whatever the operators, the register and the failures do.
LEMMA ReportKeeps ==
  ASSUME IngestionInv, ReportInv, [IngestionNext]_ingestionVars
  PROVE  ReportInv'
<1>1. ASSUME NEW new \in SUBSET Row, Change(new) PROVE ReportInv'
  BY <1>1, ChangeReports
<1>2. ASSUME NEW p \in operators,
             Invoke(p) \/ FetchFails(p) \/ CrashIngestion(p)
      PROVE  ReportInv'
  BY <1>2, CallReports
<1>3. ASSUME NEW p \in operators, NEW items \in Responses(PageNo(p)),
             FetchPage(p, items) \/ FetchLastPage(p, items)
      PROVE  ReportInv'
  BY <1>3, FetchReports
<1>4. ASSUME NEW p \in operators, upsertSnapshot(p) PROVE ReportInv'
  BY <1>4, UpsertReports
<1>5. ASSUME NEW p \in operators, startRun(p) PROVE ReportInv'
  BY <1>5, StartReports
<1>6. ASSUME NEW p \in operators, persistPage(p) PROVE ReportInv'
  BY <1>6, PersistReports
<1>7. ASSUME NEW p \in operators, finishRun(p) \/ failRun(p)
      PROVE  ReportInv'
  BY <1>7, EndReports
<1>8. CASE UNCHANGED ingestionVars
  BY <1>8 DEF ingestionVars, ReportInv, OneOperator
<1> QED  BY <1>1, <1>2, <1>3, <1>4, <1>5, <1>6, <1>7, <1>8
         DEF IngestionNext

\* With one operator, the counts a succeeded run reports are those of its
\* checkpoints, and account for every row of its content, also when an
\* attempt before it stopped half way.
THEOREM ReportAlwaysAgrees ==
  IngestionSpec => []ReportAgrees
<1>1. IngestionInit => IngestionInv /\ ReportInv
  BY IngestionStarts, ReportStarts
<1>2. IngestionInv /\ ReportInv /\ [IngestionNext]_ingestionVars =>
        (IngestionInv /\ ReportInv)'
  BY IngestionKeeps, ReportKeeps
<1>3. ReportInv => ReportAgrees
  BY DEF ReportInv, ReportAgrees, OneOperator, AllReported, Reported,
         Succeeded, Known
<1> QED  BY <1>1, <1>2, <1>3, PTL DEF IngestionSpec

-----------------------------------------------------------------------------
(* Listings of the register *)

\* The register's order lists no row twice.
LEMMA OrderApart ==
  ASSUME NEW i \in 1..Len(RowOrder), NEW j \in 1..Len(RowOrder),
         RowOrder[i] = RowOrder[j]
  PROVE  i = j
<1> DEFINE N == Len(RowOrder)
           f == [n \in 1..N |-> RowOrder[n]]
<1>1. /\ RowOrder \in Seq(Row) /\ Range(RowOrder) = Row
      /\ N = Cardinality(Row) /\ N \in Nat
  BY IngestionAssumption DEF IngestionAssumption
<1>2. f \in Surjection(1..N, Row)
  <2>1. Row = {RowOrder[n] : n \in 1..N}
    BY <1>1, RangeEquality
  <2> HIDE DEF N
  <2> QED  BY <2>1 DEF Surjection
<1>3. IsFiniteSet(1..N) /\ Cardinality(1..N) = N
  <2> HIDE DEF N
  <2> DEFINE one == 1
  <2>1. /\ one \in Int /\ N \in Int
        /\ N = IF one > N THEN 0 ELSE N - one + 1
    BY <1>1
  <2>2. IsFiniteSet(one..N) /\ Cardinality(one..N) = N
    <3> HIDE DEF one
    <3> QED  BY <2>1, FS_Interval
  <2> QED  BY <2>2
<1>4. f[i] = f[j] /\ i \in 1..N /\ j \in 1..N
  OBVIOUS
<1> HIDE DEF f, N
<1>5. f \in Injection(1..N, Row)
  BY <1>1, <1>2, <1>3, FS_Surjection
<1> QED  BY <1>4, <1>5 DEF Injection, IsInjective

\* M is L without its i-th element.
Without(L, i, M) ==
  /\ i \in 1..Len(L) /\ Len(L) = Len(M) + 1
  /\ \A m \in 1..Len(L) :
       /\ m < i => L[m] = M[m]
       /\ m > i => L[m] = M[m - 1]

\* One more element at the end of both, or at the end of the first.
LEMMA WithoutAppend ==
  ASSUME NEW L \in Seq(Row), NEW M \in Seq(Row), NEW i, Without(L, i, M),
         NEW r \in Row
  PROVE  /\ Without(Append(L, r), i, Append(M, r))
         /\ Append(L, r)[i] = L[i]
<1> DEFINE LL == Append(L, r)
           MM == Append(M, r)
<1>1. /\ Len(L) \in Nat /\ Len(M) \in Nat /\ Len(L) = Len(M) + 1
      /\ Len(LL) = Len(L) + 1 /\ Len(MM) = Len(M) + 1
      /\ \A m \in 1..Len(L) : LL[m] = L[m]
      /\ \A m \in 1..Len(M) : MM[m] = M[m]
      /\ LL[Len(L) + 1] = r /\ MM[Len(M) + 1] = r /\ i \in 1..Len(L)
  BY AppendProperties DEF Without
<1>2. ASSUME NEW m \in 1..Len(LL)
      PROVE  /\ m < i => LL[m] = MM[m]
             /\ m > i => LL[m] = MM[m - 1]
  <2> HIDE DEF LL, MM
  <2>1. CASE m = Len(L) + 1
    <3>1. m - 1 = Len(M) + 1 /\ ~ (m < i)
      BY <1>1, <2>1
    <3> QED  BY <1>1, <2>1, <3>1
  <2>2. CASE m # Len(L) + 1
    <3>1. m \in 1..Len(L)
      BY <1>1, <2>2
    <3>2. m < i => m \in 1..Len(M)
      BY <1>1, <3>1
    <3>3. m > i => m - 1 \in 1..Len(M)
      BY <1>1, <3>1
    <3> QED  BY <1>1, <3>1, <3>2, <3>3 DEF Without
  <2> QED  BY <2>1, <2>2
<1> HIDE DEF LL, MM
<1>3. i \in 1..Len(LL) /\ Len(LL) = Len(MM) + 1
  BY <1>1
<1> QED  BY <1>1, <1>2, <1>3 DEF Without, LL, MM

\* A row that is not listed leaves out one place.
LEMMA ListingWithout ==
  ASSUME NEW rows \in SUBSET Row, NEW r \in rows
  PROVE  \E i : /\ Without(Listing(rows), i, Listing(rows \ {r}))
                /\ Listing(rows)[i] = r
<1> DEFINE N == Len(RowOrder)
<1>1. N \in Nat /\ N \in 0..N /\ \A n \in 1..N : RowOrder[n] \in Row
  BY IngestionAssumption DEF IngestionAssumption
<1>2. PICK t \in 1..N : RowOrder[t] = r
  <2>1. Row = {RowOrder[n] : n \in 1..N}
    BY IngestionAssumption, RangeEquality DEF IngestionAssumption
  <2> QED  BY <2>1
<1>3. PICK g \in [0..N -> Seq(Row)] :
        ListsUpTo(g, rows) /\ Listing(rows) = g[N]
  BY ListingSteps
<1>4. PICK h \in [0..N -> Seq(Row)] :
        ListsUpTo(h, rows \ {r}) /\ Listing(rows \ {r}) = h[N]
  BY ListingSteps
<1> DEFINE At(n) == \E i : Without(g[n], i, h[n]) /\ g[n][i] = r
           T == {n \in Nat : n \in 0..N =>
                   IF n < t THEN g[n] = h[n] ELSE At(n)}
<1>5. 0 \in T
  BY <1>3, <1>4 DEF ListsUpTo
<1>6. ASSUME NEW n \in Nat, n \in T, NEW m, m = n + 1, m \in 0..N
      PROVE  IF m < t THEN g[m] = h[m] ELSE At(m)
  <2> DEFINE x == RowOrder[m]
  <2>1. n \in 0..N /\ m \in 1..N /\ m - 1 = n /\ x \in Row
        /\ g[n] \in Seq(Row) /\ h[n] \in Seq(Row)
    <3>1. n \in 0..N /\ m \in 1..N /\ m - 1 = n
      BY <1>1, <1>6
    <3> HIDE DEF N
    <3> QED  BY <1>1, <3>1
  <2>2. /\ g[m] = IF x \in rows THEN Append(g[n], x) ELSE g[n]
        /\ h[m] = IF x \in rows \ {r} THEN Append(h[n], x) ELSE h[n]
    <3> QED  BY <1>3, <1>4, <2>1 DEF ListsUpTo
  <2>3. x = r <=> m = t
    <3> QED  BY <1>2, <2>1, OrderApart
  <2>4. IF n < t THEN g[n] = h[n] ELSE At(n)
    BY <1>6, <2>1
  <2>5. m \in Nat /\ t \in Nat
    BY <2>1, <1>1
  <2>6. CASE m < t
    <3>1. n < t /\ x # r
      BY <2>1, <2>3, <2>6
    <3> QED  BY <2>2, <2>4, <2>6, <3>1
  <2>7. CASE m = t
    <3>1. n < t /\ x = r
      BY <2>1, <2>3, <2>7
    <3>2. g[m] = Append(g[n], r) /\ h[m] = g[n]
      <4> QED  BY <2>2, <2>4, <3>1
    <3> DEFINE L == Append(g[n], r)
               i == Len(g[n]) + 1
    <3>3. /\ Len(g[n]) \in Nat /\ Len(L) = Len(g[n]) + 1 /\ L[i] = r
          /\ \A y \in 1..Len(g[n]) : L[y] = g[n][y]
      BY <2>1, AppendProperties
    <3>4. Without(L, i, g[n])
      <4> HIDE DEF L
      <4>1. i \in 1..Len(L) /\ Len(L) = Len(g[n]) + 1
        BY <3>3
      <4>2. \A y \in 1..Len(L) : /\ ~ (y > i)
                                 /\ y < i => y \in 1..Len(g[n])
        BY <3>3
      <4> HIDE DEF i
      <4> QED  BY <3>3, <4>1, <4>2 DEF Without
    <3>5. At(m)
      <4> HIDE DEF L, i
      <4>1. g[m] = L
        BY <3>2 DEF L
      <4> QED  BY <3>2, <3>3, <3>4, <4>1
    <3> HIDE DEF At
    <3> QED  BY <2>1, <2>7, <3>5
  <2>8. CASE m > t
    <3>1. ~ (n < t) /\ x # r
      BY <2>1, <2>3, <2>8
    <3>2. PICK i : Without(g[n], i, h[n]) /\ g[n][i] = r
      BY <2>4, <3>1
    <3>3. CASE x \in rows
      <4>1. g[m] = Append(g[n], x) /\ h[m] = Append(h[n], x)
        <5> QED  BY <2>2, <3>1, <3>3
      <4>2. /\ Without(Append(g[n], x), i, Append(h[n], x))
            /\ Append(g[n], x)[i] = g[n][i]
        <5> HIDE DEF x
        <5>1. Without(g[n], i, h[n])
          BY <3>2
        <5>2. x \in Row /\ g[n] \in Seq(Row) /\ h[n] \in Seq(Row)
          BY <2>1
        <5> QED  BY <5>1, <5>2, WithoutAppend, Zenon
      <4>3. At(m)
        <5> HIDE DEF x
        <5> QED  BY <3>2, <4>1, <4>2
      <4> HIDE DEF At
      <4> QED  BY <2>8, <2>5, <4>3
    <3>4. CASE x \notin rows
      <4>1. g[m] = g[n] /\ h[m] = h[n]
        <5> QED  BY <2>2, <3>4
      <4>2. At(m)
        <5> QED  BY <3>2, <4>1
      <4> HIDE DEF At
      <4> QED  BY <2>8, <2>5, <4>2
    <3> QED  BY <3>3, <3>4
  <2> HIDE DEF At
  <2>9. m < t \/ m = t \/ m > t
    BY <2>5
  <2> QED  BY <2>6, <2>7, <2>8, <2>9
<1>7. N \in T
  <2>1. \A n \in Nat : n \in T => n + 1 \in T
    <3> HIDE DEF At
    <3> QED  BY <1>6
  <2> HIDE DEF T, N
  <2> QED  BY <1>1, <1>5, <2>1, Induction
<1>8. At(N)
  <2>1. ~ (N < t)
    BY <1>1
  <2> HIDE DEF N, At
  <2> QED  BY <1>1, <1>7, <2>1
<1> QED  BY <1>3, <1>4, <1>8

\* A listing is as long as there are rows.
LEMMA ListingLength ==
  ASSUME NEW rows \in SUBSET Row
  PROVE  Len(Listing(rows)) = Cardinality(rows)
<1> DEFINE N == Len(RowOrder)
           T == {s \in SUBSET Row : Len(Listing(s)) = Cardinality(s)}
<1>1. Len(Listing({})) = 0
  <2>1. PICK g \in [0..N -> Seq(Row)] :
          ListsUpTo(g, {}) /\ Listing({}) = g[N]
    BY ListingSteps
  <2> DEFINE Z == {n \in Nat : n \in 0..N => g[n] = << >>}
  <2>2. 0 \in Z
    BY <2>1 DEF ListsUpTo
  <2>3. N \in Nat /\ N \in 0..N
    BY IngestionAssumption DEF IngestionAssumption
  <2>4. ASSUME NEW n \in Nat, n \in Z PROVE n + 1 \in Z
    <3>1. CASE n + 1 \in 0..N
      <4>1. n \in 0..N /\ n + 1 \in 1..N /\ (n + 1) - 1 = n
        BY <2>3, <3>1
      <4> HIDE DEF N
      <4> QED  BY <2>1, <2>4, <4>1 DEF ListsUpTo, N
    <3>2. CASE n + 1 \notin 0..N
      BY <3>2
    <3> QED  BY <3>1, <3>2
  <2>5. N \in Z
    <3> HIDE DEF Z, N
    <3> QED  BY <2>2, <2>3, <2>4, Induction
  <2> QED  BY <2>1, <2>3, <2>5
<1>2. {} \in T
  <2>1. {} \in SUBSET Row /\ Cardinality({}) = 0
    BY FS_EmptySet
  <2> QED  BY <1>1, <2>1
<1>3. ASSUME NEW s \in SUBSET Row, s # {}, \A x \in s : s \ {x} \in T
      PROVE  s \in T
  <2>1. PICK r \in s : TRUE
    BY <1>3
  <2>2. PICK i : Without(Listing(s), i, Listing(s \ {r}))
    BY ListingWithout
  <2>3. Len(Listing(s)) = Len(Listing(s \ {r})) + 1
    BY <2>2 DEF Without
  <2>4. Len(Listing(s \ {r})) = Cardinality(s \ {r})
    BY <1>3, <2>1
  <2>5. Cardinality(s) = Cardinality(s \ {r}) + 1
    <3>1. IsFiniteSet(s \ {r}) /\ Cardinality(s \ {r}) \in Nat
      <4>1. s \ {r} \in SUBSET Row
        OBVIOUS
      <4> QED  BY <4>1, RowsFinite
    <3>2. s = (s \ {r}) \cup {r} /\ r \notin s \ {r}
      BY <2>1
    <3> QED  BY <3>1, <3>2, FS_AddElement
  <2> QED  BY <2>3, <2>4, <2>5
<1>4. IsFiniteSet(Row)
  BY RowsFinite
<1>5. rows \in T
  <2> HIDE DEF T
  <2> QED  BY <1>2, <1>3, <1>4, SubsetInduction
<1> QED  BY <1>5

\* One row has another state of itself, maybe at another place.
OneMoved(L1, L2) ==
  \E M \in Seq(Row), i, j \in Nat :
    /\ Without(L1, i, M) /\ Without(L2, j, M)
    /\ L1[i].managementNumber = L2[j].managementNumber

\* What one change of the register may do to its listing.
Alike(L1, L2) == L1 = L2 \/ Len(L1) # Len(L2) \/ OneMoved(L1, L2)

\* A change of the register adds a row, removes one or replaces one.
LEMMA ChangeIs ==
  ASSUME register \subseteq Row, NEW new \in SUBSET Row, Change(new)
  PROVE  Alike(Listing(register), Listing(new))
<1>1. /\ Len(Listing(register)) = Cardinality(register)
      /\ Len(Listing(new)) = Cardinality(new)
      /\ Listing(register) \in Seq(Row) /\ Listing(new) \in Seq(Row)
  BY ListingLength, ListingIs
<1>2. ASSUME NEW s \in SUBSET Row, NEW r \in Row, r \notin s
      PROVE  Cardinality(s \cup {r}) # Cardinality(s)
  <2>1. IsFiniteSet(s) /\ Cardinality(s) \in Nat
    BY RowsFinite
  <2>2. Cardinality(s \cup {r}) = Cardinality(s) + 1
    BY <1>2, <2>1, FS_AddElement
  <2> QED  BY <2>1, <2>2
<1>3. CASE \E r \in Row : new \in {register \cup {r}, register \ {r}}
  <2>1. PICK r \in Row : new \in {register \cup {r}, register \ {r}}
    BY <1>3
  <2>2. new # register
    BY DEF Change
  <2>3. Cardinality(new) # Cardinality(register)
    <3>1. CASE new = register \cup {r}
      BY <1>2, <2>2, <3>1
    <3>2. CASE new = register \ {r}
      <4>1. register = new \cup {r} /\ r \notin new
        BY <2>2, <3>2
      <4> QED  BY <1>2, <4>1
    <3> QED  BY <2>1, <3>1, <3>2
  <2> QED  BY <1>1, <2>3 DEF Alike
<1>4. CASE \E r \in register, q \in Row :
             /\ new = (register \ {r}) \cup {q}
             /\ q.managementNumber = r.managementNumber
  <2>1. PICK r \in register, q \in Row :
          /\ new = (register \ {r}) \cup {q}
          /\ q.managementNumber = r.managementNumber
    BY <1>4
  <2> DEFINE rest == register \ {r}
  <2>2. CASE q \in rest
    <3>1. new = rest /\ register = rest \cup {r} /\ r \notin rest
      BY <2>1, <2>2
    <3>2. Cardinality(new) # Cardinality(register)
      BY <1>2, <3>1
    <3> QED  BY <1>1, <3>2 DEF Alike
  <2>3. CASE q \notin rest
    <3>1. q \in new /\ new \ {q} = rest
      BY <2>1, <2>3
    <3>2. PICK i : /\ Without(Listing(register), i, Listing(rest))
                   /\ Listing(register)[i] = r
      BY ListingWithout
    <3>3. PICK j : /\ Without(Listing(new), j, Listing(rest))
                   /\ Listing(new)[j] = q
      BY <3>1, ListingWithout
    <3>4. Listing(rest) \in Seq(Row)
      BY ListingIs
    <3>5. i \in Nat /\ j \in Nat
      BY <1>1, <3>2, <3>3 DEF Without
    <3> HIDE DEF rest
    <3>6. OneMoved(Listing(register), Listing(new))
      BY <2>1, <3>2, <3>3, <3>4, <3>5 DEF OneMoved
    <3> QED  BY <3>6 DEF Alike
  <2> QED  BY <2>2, <2>3
<1> QED  BY <1>3, <1>4 DEF Change

\* The first rows of one listing and the others of another.
MixOf(c, L1, L2, b) ==
  \A x \in 1..Len(c) : c[x] = IF x <= b THEN L1[x] ELSE L2[x]

\* A mix of two listings that differ in one row: without a number twice it
\* is one of the two.
LEMMA OneOfTwo ==
  ASSUME NEW c \in Seq(Row), NEW L1 \in Seq(Row), NEW L2 \in Seq(Row),
         Len(L1) = Len(c), Len(L2) = Len(c), OneMoved(L1, L2), Distinct(c),
         NEW b \in Nat, 0 < b, b < Len(c),
         MixOf(c, L1, L2, b)
  PROVE  c = L1 \/ c = L2
<1> DEFINE n == Len(c)
<1> USE DEF MixOf
<1>1. PICK M \in Seq(Row), i \in Nat, j \in Nat :
        /\ Without(L1, i, M) /\ Without(L2, j, M)
        /\ L1[i].managementNumber = L2[j].managementNumber
  BY DEF OneMoved
<1>2. /\ n \in Nat /\ i \in 1..n /\ j \in 1..n /\ b \in 1..n
      /\ b + 1 \in 1..n
      /\ \A x \in 1..n : /\ x < i => L1[x] = M[x]
                         /\ x > i => L1[x] = M[x - 1]
                         /\ x < j => L2[x] = M[x]
                         /\ x > j => L2[x] = M[x - 1]
  BY <1>1 DEF Without
<1>3. CASE i <= b /\ j <= b
  <2>1. \A x \in 1..n : c[x] = L1[x]
    <3>1. ASSUME NEW x \in 1..n, x > b PROVE L1[x] = L2[x]
      <4>1. x > i /\ x > j
        BY <1>2, <1>3, <3>1
      <4> HIDE DEF n
      <4> QED  BY <1>2, <4>1
    <3>2. \A x \in 1..n : x <= b \/ x > b
      BY <1>2
    <3> HIDE DEF n
    <3> QED  BY <3>1, <3>2 DEF n
  <2> QED  BY <2>1, SeqEqual
<1>4. CASE i > b /\ j > b
  <2>1. \A x \in 1..n : c[x] = L2[x]
    <3>1. ASSUME NEW x \in 1..n, x <= b PROVE L1[x] = L2[x]
      <4>1. x < i /\ x < j
        BY <1>2, <1>4, <3>1
      <4> HIDE DEF n
      <4> QED  BY <1>2, <4>1
    <3> HIDE DEF n
    <3> QED  BY <3>1 DEF n
  <2> QED  BY <2>1, SeqEqual
<1>5. ~ (i <= b /\ j > b)
  <2>1. SUFFICES ASSUME i <= b, j > b PROVE FALSE
    OBVIOUS
  <2>2. c[i] = L1[i] /\ c[j] = L2[j] /\ i # j
    <3>1. ~ (j <= b) /\ i # j
      BY <1>2, <2>1
    <3> QED  BY <1>2, <2>1, <3>1
  <2> HIDE DEF n
  <2> QED  BY <1>1, <1>2, <2>2, DistinctRows DEF n
<1>6. ~ (i > b /\ j <= b)
  <2>1. SUFFICES ASSUME i > b, j <= b PROVE FALSE
    OBVIOUS
  <2> DEFINE d == b + 1
  <2>2. d \in 1..n /\ b < i /\ d > j /\ d - 1 = b /\ ~ (d <= b) /\ d # b
    BY <1>2, <2>1
  <2> HIDE DEF d, n
  <2>3. L1[b] = M[b] /\ L2[d] = M[b]
    BY <1>2, <2>2
  <2>4. c[b] = L1[b] /\ c[d] = L2[d]
    BY <1>2, <2>2 DEF n
  <2>5. c[b].managementNumber = c[d].managementNumber
    BY <2>3, <2>4
  <2> QED  BY <1>2, <2>2, <2>5, DistinctRows DEF n
<1>7. (i <= b \/ i > b) /\ (j <= b \/ j > b)
  BY <1>2
<1> QED  BY <1>3, <1>4, <1>5, <1>6, <1>7

-----------------------------------------------------------------------------
(* The pages of one or two listings *)

\* A page is a part of what a listing has at its place.
SliceOf(page, L, m) ==
  /\ Len(page) <= RowsPerPage /\ (m - 1) * RowsPerPage + Len(page) <= Len(L)
  /\ \A i \in 1..Len(page) : page[i] = L[(m - 1) * RowsPerPage + i]

\* What the provider may answer to a request for a page that is needed.
LEMMA ResponseIsPart ==
  ASSUME NEW n \in Nat \ {0}, NEW items \in Responses(n),
         Needs(n, Len(Listing(register)))
  PROVE  SliceOf(items, Listing(register), n)
<1> DEFINE L == Listing(register)
           a == (n - 1) * RowsPerPage
           b == n * RowsPerPage
           last == IF b < Len(L) THEN b ELSE Len(L)
<1>1. L \in Seq(Row) /\ Len(L) \in Nat
  BY ListingIs
<1>2. RowsPerPage \in Nat \ {0}
  BY IngestionAssumption DEF IngestionAssumption
<1>3. a \in Nat /\ b = a + RowsPerPage
  BY <1>2
<1>4. a <= Len(L)
  <2>1. n = 1 => a = 0
    BY <1>2
  <2>2. n = 1 \/ a < Len(L)
    BY DEF Needs
  <2> HIDE DEF a, L
  <2> QED  BY <1>1, <1>3, <2>1, <2>2
<1>5. PageItems(n) = SubSeq(L, a + 1, last)
  BY DEF PageItems
<1> HIDE DEF a, b, L
<1>6. /\ last \in Int /\ last <= Len(L) /\ last <= a + RowsPerPage
      /\ a <= last
  BY <1>1, <1>2, <1>3, <1>4
<1> HIDE DEF last
<1>7. SliceOf(PageItems(n), L, n)
  <2>1. \A i \in a + 1 .. last : L[i] \in Row
    BY <1>1, <1>3, <1>6
  <2>2. a + 1 \in Int
    BY <1>3
  <2> DEFINE s == SubSeq(L, a + 1, last)
  <2>3. /\ Len(s) = IF a + 1 <= last THEN last - (a + 1) + 1 ELSE 0
        /\ \A i \in 1 .. last - (a + 1) + 1 : s[i] = L[a + 1 + i - 1]
    BY <1>6, <2>1, <2>2, SubSeqProperties
  <2> HIDE DEF s
  <2>4. Len(s) = last - a /\ last - (a + 1) + 1 = last - a
    BY <1>3, <1>6, <2>3
  <2>5. \A i \in 1..Len(s) : s[i] = L[a + i]
    <3>1. \A i \in 1..Len(s) : a + 1 + i - 1 = a + i
      BY <1>3
    <3> QED  BY <2>3, <2>4, <3>1
  <2>6. Len(s) <= RowsPerPage /\ a + Len(s) <= Len(L)
    BY <1>1, <1>2, <1>3, <1>6, <2>4
  <2> QED  BY <1>5, <2>5, <2>6 DEF SliceOf, a, s
<1>8. ASSUME PageItems(n) # << >> PROVE SliceOf(Front(PageItems(n)), L, n)
  <2> DEFINE s == PageItems(n)
             k == Len(s) - 1
  <2>1. s \in Seq(Row) /\ Len(s) \in Nat \ {0}
    <3>1. s \in Responses(n)
      BY DEF Responses
    <3> HIDE DEF s
    <3>2. s \in Seq(Row)
      BY <3>1, ResponseIs
    <3> QED  BY <1>8, <3>2, EmptySeq DEF s
  <2> HIDE DEF s
  <2>2. k \in Nat /\ k < Len(s) /\ \A i \in 1..k : s[i] \in Row
    BY <2>1
  <2>3. Front(s) = SubSeq(s, 1, k)
    BY DEF Front
  <2> DEFINE f == SubSeq(s, 1, k)
  <2>4. Len(f) = k /\ \A i \in 1..k : f[i] = s[i]
    <3> HIDE DEF k
    <3>1. /\ Len(SubSeq(s, 1, k)) = IF 1 <= k THEN k - 1 + 1 ELSE 0
          /\ \A i \in 1 .. k - 1 + 1 : SubSeq(s, 1, k)[i] = s[1 + i - 1]
      BY <2>2, SubSeqProperties
    <3> HIDE DEF f
    <3>2. k - 1 + 1 = k /\ \A i \in 1..k : 1 + i - 1 = i
      BY <2>2
    <3>3. Len(f) = k
      BY <2>2, <3>1, <3>2 DEF f
    <3>4. ASSUME NEW i \in 1..k PROVE f[i] = s[i]
      <4>1. i \in 1..k - 1 + 1 /\ 1 + i - 1 = i
        BY <3>2
      <4>2. SubSeq(s, 1, k)[i] = s[1 + i - 1]
        BY <3>1, <4>1
      <4> QED  BY <4>1, <4>2 DEF f
    <3> QED  BY <3>3, <3>4
  <2> HIDE DEF f
  <2>5. /\ Len(s) <= RowsPerPage /\ a + Len(s) <= Len(L)
        /\ \A i \in 1..Len(s) : s[i] = L[a + i]
    BY <1>7 DEF SliceOf, a, s
  <2>6. /\ Len(f) <= RowsPerPage /\ a + Len(f) <= Len(L)
        /\ \A i \in 1..Len(f) : f[i] = L[a + i]
    <3>1. \A i \in 1..k : i \in 1..Len(s)
      BY <2>1, <2>2
    <3> HIDE DEF k
    <3>2. k <= RowsPerPage /\ a + k <= Len(L)
      BY <1>1, <1>2, <1>3, <2>1, <2>2, <2>5
    <3>3. \A i \in 1..k : f[i] = L[a + i]
      BY <2>4, <2>5, <3>1
    <3> QED  BY <2>4, <3>2, <3>3
  <2> QED  BY <2>3, <2>6 DEF SliceOf, a, s, f
<1>9. items = PageItems(n) \/ (items = Front(PageItems(n))
                                 /\ PageItems(n) # << >>)
  BY DEF Responses
<1> QED  BY <1>7, <1>8, <1>9 DEF L

\* A page has a part of a listing, that is as long as the first page said.
PageOf(page, L, m, total) == SliceOf(page, L, m) /\ Len(L) = total

\* The first pages are of one listing, the others of another.
PagesOf(pages, L1, L2, k, total) ==
  \A m \in 1..Len(pages) :
    PageOf(pages[m], IF m <= k THEN L1 ELSE L2, m, total)

\* Pages of two listings, that together have as many rows as they should,
\* are the first rows of the one and the others of the other: no page is
\* short.
LEMMA MixIs ==
  ASSUME NEW pages \in Seq(Seq(Row)), NEW L1 \in Seq(Row),
         NEW L2 \in Seq(Row), NEW k \in 0..Len(pages), NEW total \in Nat,
         PagesOf(pages, L1, L2, k, total), AllNeeded(Len(pages), total),
         Len(FlattenSeq(pages)) = total, total <= Len(pages) * RowsPerPage
  PROVE  MixOf(FlattenSeq(pages), L1, L2, k * RowsPerPage)
<1> USE DEF PagesOf
<1> DEFINE N == Len(pages)
           Src(x) == IF x <= k * RowsPerPage THEN L1[x] ELSE L2[x]
           end(m) == IF m * RowsPerPage < total THEN m * RowsPerPage
                     ELSE total
<1>1. N \in Nat /\ N \in 0..N /\ \A i \in 1..N : pages[i] \in Seq(Row)
  OBVIOUS
<1>2. RowsPerPage \in Nat \ {0}
  BY IngestionAssumption DEF IngestionAssumption
<1>3. PICK flat \in [0..N -> Seq(Row)] :
        /\ flat[0] = << >> /\ flat[N] = FlattenSeq(pages)
        /\ \A i \in 1..N : flat[i] = flat[i - 1] \o pages[i]
  BY FlattenPrefixes
<1> DEFINE C(m) == /\ Len(flat[m]) <= end(m)
                   /\ Len(flat[m]) = end(m) =>
                        \A x \in 1..end(m) : flat[m][x] = Src(x)
           T == {m \in Nat : m \in 0..N => C(m)}
<1>4. 0 \in T
  <2>1. end(0) = 0
    <3>1. 0 * RowsPerPage = 0
      BY <1>2
    <3> QED  BY <3>1
  <2>2. Len(flat[0]) = 0 /\ 1..0 = {}
    BY <1>3
  <2> HIDE DEF end, Src
  <2> QED  BY <2>1, <2>2
<1>5. ASSUME NEW m \in Nat, m \in T, NEW m1, m1 = m + 1, m1 \in 0..N
      PROVE  C(m1)
  <2> DEFINE a == m * RowsPerPage
             page == pages[m1]
             L == IF m1 <= k THEN L1 ELSE L2
             len == Len(page)
             before == Len(flat[m])
  <2>1. m \in 0..N /\ m1 \in 1..N /\ m1 - 1 = m
    BY <1>1, <1>5
  <2>2. C(m)
    BY <1>5, <2>1
  <2>3. /\ flat[m] \in Seq(Row) /\ page \in Seq(Row)
        /\ flat[m1] = flat[m] \o page
        /\ before \in Nat /\ len \in Nat
    <3> HIDE DEF N, C
    <3>1. flat[m] \in Seq(Row) /\ page \in Seq(Row)
          /\ flat[m1] = flat[m1 - 1] \o page
      BY <1>1, <1>3, <2>1
    <3> HIDE DEF page
    <3> QED  BY <2>1, <3>1 DEF page
  <2>4. /\ a \in Nat /\ m1 * RowsPerPage = a + RowsPerPage
        /\ (m1 - 1) * RowsPerPage = a
    <3>1. \A y, r \in Nat : (y + 1) * r = y * r + r /\ y * r \in Nat
      OBVIOUS
    <3>2. m \in Nat /\ m1 = m + 1 /\ m1 - 1 = m /\ RowsPerPage \in Nat
      BY <1>2, <1>5
    <3>3. /\ (m + 1) * RowsPerPage = m * RowsPerPage + RowsPerPage
          /\ m * RowsPerPage \in Nat
      BY <3>1, <3>2
    <3> QED  BY <3>2, <3>3
  <2>5. /\ len <= RowsPerPage /\ a + len <= total
        /\ \A i \in 1..len : page[i] = L[a + i]
    <3>1. PageOf(page, L, m1, total)
      <4> HIDE DEF N
      <4> QED  BY <2>1 DEF N
    <3> HIDE DEF page, L, a
    <3> QED  BY <2>4, <3>1 DEF PageOf, SliceOf
  <2>6. end(m) = a
    <3>1. m = 0 \/ a < total
      <4>1. Needs(m1, total)
        <5> HIDE DEF N
        <5> QED  BY <2>1 DEF AllNeeded, N
      <4>2. m1 = 1 => m = 0
        BY <1>5
      <4> HIDE DEF a
      <4> QED  BY <2>4, <4>1, <4>2 DEF Needs
    <3>2. m = 0 => a = 0
      BY <1>2
    <3> HIDE DEF a
    <3> QED  BY <2>4, <3>1, <3>2 DEF a
  <2>7. end(m1) = IF a + RowsPerPage < total THEN a + RowsPerPage ELSE total
    <3> HIDE DEF a
    <3> QED  BY <2>4
  <2>8. /\ Len(flat[m1]) = before + len
        /\ \A x \in 1..before : flat[m1][x] = flat[m][x]
        /\ \A i \in 1..len : flat[m1][before + i] = page[i]
    <3> HIDE DEF page, C
    <3> QED  BY <2>3, ConcatProperties
  <2>9. before <= a /\ (before = a => \A x \in 1..a : flat[m][x] = Src(x))
    <3> HIDE DEF end, Src, a
    <3> QED  BY <2>2, <2>6
  <2> DEFINE e == end(m1)
  <2>10. /\ e \in Nat /\ a + len <= e /\ e <= a + RowsPerPage
    <3> HIDE DEF a, len
    <3> QED  BY <1>2, <2>3, <2>4, <2>5, <2>7
  <2> HIDE DEF C, end, Src, e, a, len, before, page, L
  <2>11. Len(flat[m1]) <= e
    BY <2>3, <2>4, <2>8, <2>9, <2>10
  <2>12. ASSUME Len(flat[m1]) = e, NEW x \in 1..e
         PROVE  flat[m1][x] = Src(x)
    <3>1. before = a /\ e = a + len
      BY <2>3, <2>4, <2>8, <2>9, <2>10, <2>12
    <3>2. CASE x <= a
      <4>1. x \in 1..a
        BY <2>10, <3>2, <2>4
      <4> QED  BY <2>8, <2>9, <3>1, <4>1
    <3>3. CASE ~ (x <= a)
      <4> DEFINE i == x - a
      <4>1. i \in 1..len /\ x = a + i
        BY <2>3, <2>4, <2>10, <3>1, <3>3
      <4> HIDE DEF i
      <4>2. flat[m1][x] = L[x]
        BY <2>5, <2>8, <3>1, <4>1
      <4>3. x > a /\ x <= a + RowsPerPage
        BY <1>2, <2>4, <2>10, <3>1, <3>3
      <4> DEFINE b == k * RowsPerPage
      <4>4. b \in Nat /\ (m1 <= k => a + RowsPerPage <= b)
            /\ (k <= m => b <= a)
        <5>1. ASSUME NEW s \in Nat, NEW t \in Nat, s <= t
              PROVE  s * RowsPerPage <= t * RowsPerPage
          <6> DEFINE d == t - s
                     sr == s * RowsPerPage
                     dr == d * RowsPerPage
          <6>1. d \in Nat /\ t = s + d
            BY <5>1
          <6> HIDE DEF d
          <6>2. \A y, z, r \in Nat : (y + z) * r = y * r + z * r
            OBVIOUS
          <6>3. t * RowsPerPage = sr + dr /\ sr \in Nat /\ dr \in Nat
            BY <1>2, <6>1, <6>2
          <6> HIDE DEF sr, dr
          <6> QED  BY <6>3 DEF sr
        <5>2. k \in Nat /\ m1 \in Nat
          BY <1>1, <2>1
        <5>3. b \in Nat
          BY <1>2, <5>2
        <5>4. m1 <= k => m1 * RowsPerPage <= b
          BY <5>1, <5>2
        <5>5. k <= m => b <= a
          BY <5>1, <5>2 DEF a
        <5> HIDE DEF b
        <5> QED  BY <2>4, <5>3, <5>4, <5>5
      <4> HIDE DEF b
      <4>5. CASE m1 <= k
        <5>1. x <= b
          BY <1>2, <2>4, <4>1, <4>3, <4>4, <4>5
        <5>2. Src(x) = L1[x] /\ L = L1
          BY <4>5, <5>1 DEF Src, b, L
        <5> QED  BY <4>2, <5>2
      <4>6. CASE ~ (m1 <= k)
        <5>1. k <= m
          BY <1>5, <4>6, <1>1
        <5>2. ~ (x <= b)
          BY <2>4, <4>1, <4>3, <4>4, <5>1
        <5>3. Src(x) = L2[x] /\ L = L2
          BY <4>6, <5>2 DEF Src, b, L
        <5> QED  BY <4>2, <5>3
      <4> QED  BY <4>5, <4>6
    <3> QED  BY <3>2, <3>3
  <2> QED  BY <2>11, <2>12 DEF C, e
<1>6. C(N)
  <2>1. ASSUME NEW m \in Nat, m \in T PROVE m + 1 \in T
    <3> DEFINE m1 == m + 1
    <3>1. m1 \in Nat /\ m1 = m + 1
      OBVIOUS
    <3> HIDE DEF C, m1
    <3>2. m1 \in 0..N => C(m1)
      BY <1>5, <2>1, <3>1
    <3>3. m1 \in T
      BY <3>1, <3>2
    <3> QED  BY <3>1, <3>3
  <2> HIDE DEF T, N
  <2>2. N \in T
    BY <1>1, <1>4, <2>1, Induction
  <2> HIDE DEF C
  <2> QED  BY <1>1, <2>2 DEF T
<1>7. end(N) = total
  <2> DEFINE a == N * RowsPerPage
  <2>1. a \in Nat /\ total <= a
    BY <1>1, <1>2
  <2> HIDE DEF a
  <2> QED  BY <2>1 DEF a
<1> HIDE DEF end, N, Src
<1>8. \A x \in 1..total : FlattenSeq(pages)[x] = Src(x)
  BY <1>3, <1>6, <1>7
<1> QED  BY <1>8 DEF Src, MixOf

-----------------------------------------------------------------------------
(* SnapshotIsOneMoment *)

\* What was fetched so far is of the listing before the change of the
\* register, and after it of the listing it has now.
Mixed(w, cur) ==
  \E L1 \in Seq(Row), k \in 0..Len(w.pages) :
    /\ w.moments = {L1, cur} /\ Alike(L1, cur)
    /\ PagesOf(w.pages, L1, cur, k, w.total)

Fetched == {"record", "start", "store"}

MomentOK(w, cur) ==
  /\ w.pc = "fetch" => Mixed(w, cur)
  /\ w.pc \in Fetched => FlattenSeq(w.pages) \in w.moments

MomentInv == \A p \in Caller : MomentOK(task[p], Listing(register))

\* A step of one process, under the same register.
LEMMA MomentStep ==
  ASSUME IngestionInv, MomentInv, NEW p \in Caller, NEW w,
         task' = [task EXCEPT ![p] = w], register' = register,
         MomentOK(w, Listing(register))
  PROVE  MomentInv'
<1>1. task \in [Caller -> Work]
  BY DEF IngestionInv
<1>2. \A q \in Caller : task'[q] = IF q = p THEN w ELSE task[q]
  BY <1>1
<1>3. \A q \in Caller : MomentOK(task'[q], Listing(register))
  BY <1>2 DEF MomentInv
<1> QED  BY <1>3 DEF MomentInv

\* A process that ends, or goes on with what it fetched.
LEMMA MomentStays ==
  ASSUME IngestionInv, MomentInv, NEW p \in Caller, NEW cur,
         NEW w, \/ w = NoCall
                \/ /\ task[p].pc \in Fetched /\ w.pc \in Fetched
                   /\ w.pages = task[p].pages
                   /\ w.moments = task[p].moments
  PROVE  MomentOK(w, cur)
<1>1. CASE w = NoCall
  BY <1>1 DEF NoCall, MomentOK, Fetched
<1>2. CASE /\ task[p].pc \in Fetched /\ w.pc \in Fetched
           /\ w.pages = task[p].pages /\ w.moments = task[p].moments
  BY <1>2 DEF MomentInv, MomentOK, Fetched
<1> QED  BY <1>1, <1>2

\* Nothing is fetched at first.
LEMMA MomentStarts ==
  ASSUME IngestionInit
  PROVE  MomentInv
<1>1. \A p \in Caller : task[p] = NoCall
  BY DEF IngestionInit
<1> QED  BY <1>1 DEF MomentInv, MomentOK, NoCall, Fetched

\* The fetch begins with the register as it is.
LEMMA InvokeMoment ==
  ASSUME IngestionInv, MomentInv, NEW p \in Caller, Invoke(p)
  PROVE  MomentInv'
<1> DEFINE cur == Listing(register)
           w == [NoCall EXCEPT !.pc = "fetch", !.moments = {cur}]
<1>1. task' = [task EXCEPT ![p] = w] /\ register' = register
  BY DEF Invoke
<1>2. w.pc = "fetch" /\ w.pages = << >> /\ w.moments = {cur}
  BY DEF NoCall
<1> HIDE DEF w
<1>3. Mixed(w, cur)
  <2>1. cur \in Seq(Row)
    BY ListingIs
  <2>2. Len(w.pages) = 0 /\ 0 \in 0..0 /\ 1..0 = {}
    BY <1>2
  <2> DEFINE zero == 0
  <2>3. zero \in 0..Len(w.pages) /\ 1..Len(w.pages) = {}
    BY <2>2
  <2>4. {cur} = {cur, cur} /\ Alike(cur, cur)
    BY DEF Alike
  <2> HIDE DEF cur, zero
  <2> QED  BY <1>2, <2>1, <2>3, <2>4 DEF Mixed, PagesOf
<1>4. MomentOK(w, cur)
  BY <1>2, <1>3 DEF MomentOK, Fetched
<1> QED  BY <1>1, <1>4, MomentStep

\* The register changes once during a fetch: what comes after it is of the
\* new listing.
LEMMA ChangeMoment ==
  ASSUME MaxDrift <= 1, IngestionInv, MomentInv, NEW new \in SUBSET Row,
         Change(new)
  PROVE  MomentInv'
<1> DEFINE cur == Listing(register)
           next == Listing(new)
<1>1. /\ register \subseteq Row /\ task \in [Caller -> Work]
      /\ register' = new /\ next \in Seq(Row) /\ cur \in Seq(Row)
      /\ Alike(cur, next)
  BY ChangeIs, ListingIs DEF IngestionInv, Change
<1>2. ASSUME NEW p \in Caller PROVE MomentOK(task'[p], next)
  <2> DEFINE w == task[p]
             v == [w EXCEPT !.moments = w.moments \cup {next}]
  <2>1. w \in Work /\ w.pages \in Seq(Seq(Row))
    BY <1>1 DEF Work
  <2>2. task'[p] = IF w.pc = "fetch" THEN v ELSE w
    BY DEF Change
  <2>3. CASE w.pc = "fetch"
    <3>1. v.pages = w.pages /\ v.total = w.total /\ v.pc = "fetch"
          /\ v.moments = w.moments \cup {next}
      <4> HIDE DEF w, next
      <4> QED  BY <2>1, <2>3 DEF Work
    <3>2. PICK L1 \in Seq(Row), k \in 0..Len(w.pages) :
            /\ w.moments = {L1, cur}
            /\ \A m \in 1..Len(w.pages) :
                 PageOf(w.pages[m], IF m <= k THEN L1 ELSE cur, m, w.total)
      <4>1. Mixed(w, cur)
        BY <2>3 DEF MomentInv, MomentOK
      <4> HIDE DEF w, cur
      <4> QED  BY <4>1 DEF Mixed, PagesOf
    <3>3. L1 = cur
      <4>1. Cardinality(w.moments) <= MaxDrift
        BY DEF Change
      <4>2. CASE L1 # cur
        <5>1. IsFiniteSet({L1}) /\ Cardinality({L1}) = 1
          BY FS_Singleton
        <5>2. {L1, cur} = {L1} \cup {cur} /\ cur \notin {L1}
          BY <4>2
        <5>3. Cardinality({L1, cur}) = 1 + 1
          BY <5>1, <5>2, FS_AddElement
        <5>4. MaxDrift \in Nat
          BY IngestionAssumption DEF IngestionAssumption
        <5> HIDE DEF w, cur
        <5> QED  BY <3>2, <4>1, <5>3, <5>4
      <4> QED  BY <4>2
    <3> DEFINE n == Len(w.pages)
    <3>4. n \in Nat /\ n \in 0..n /\ \A m \in 1..n : m <= n
      BY <2>1
    <3>5. \A m \in 1..n :
            PageOf(v.pages[m], IF m <= n THEN cur ELSE next, m, v.total)
      <4>1. ASSUME NEW m \in 1..n
            PROVE  PageOf(w.pages[m], cur, m, w.total)
        BY <3>2, <3>3
      <4> HIDE DEF v, w, cur, next, n
      <4> QED  BY <3>1, <3>4, <4>1
    <3>6. v.moments = {cur, next} /\ Len(v.pages) = n
      <4> HIDE DEF v, w, cur, next
      <4> QED  BY <3>1, <3>2, <3>3 DEF n
    <3> HIDE DEF v, cur, next, n, w
    <3>7. Mixed(v, next)
      BY <1>1, <3>4, <3>5, <3>6 DEF Mixed, PagesOf
    <3> QED  BY <2>2, <2>3, <3>1, <3>7 DEF MomentOK, Fetched
  <2>4. CASE w.pc # "fetch"
    <3>1. MomentOK(w, cur) /\ task'[p] = w
      BY <2>2, <2>4 DEF MomentInv
    <3> HIDE DEF w, cur, next
    <3> QED  BY <2>4, <3>1 DEF MomentOK
  <2> QED  BY <2>3, <2>4
<1> QED  BY <1>1, <1>2 DEF MomentInv

\* A fetched page is of the listing the register has now, and what passed
\* the assertion is one of the two listings.
LEMMA FetchMoment ==
  ASSUME IngestionInv, ReportInv, MomentInv, NEW p \in Caller,
         NEW items \in Responses(PageNo(p)),
         FetchPage(p, items) \/ FetchLastPage(p, items)
  PROVE  MomentInv'
<1> DEFINE cur == Listing(register)
           w == task[p]
           n == Len(w.pages)
           pages == Append(w.pages, items)
           total == TotalOf(p)
           v == [w EXCEPT !.pages = pages, !.total = total]
           u == [v EXCEPT !.pc = "record"]
<1>1. /\ w \in Work /\ w.pages \in Seq(Seq(Row)) /\ w.pc = "fetch"
      /\ n \in Nat /\ PageNo(p) = n + 1 /\ SameTotal(p)
      /\ register \subseteq Row
  <2>1. w \in Work /\ register \subseteq Row
    BY DEF IngestionInv
  <2> QED  BY <2>1 DEF Work, FetchPage, FetchLastPage, PageNo
<1>2. n + 1 \in Nat \ {0} /\ items \in Seq(Row) /\ Len(items) <= RowsPerPage
  BY <1>1, ResponseIs
<1>3. cur \in Seq(Row) /\ Len(cur) = total /\ total \in Nat
  <2>1. Cardinality(register) = total
    BY <1>1 DEF SameTotal
  <2>2. cur \in Seq(Row) /\ Len(cur) \in Nat
    BY ListingIs
  <2> HIDE DEF total, cur
  <2> QED  BY <1>1, <2>1, <2>2, ListingLength DEF cur
<1>4. /\ pages \in Seq(Seq(Row)) /\ Len(pages) = n + 1
      /\ \A m \in 1..n : pages[m] = w.pages[m]
      /\ pages[n + 1] = items
  BY <1>1, <1>2, AppendProperties
<1>5. n # 0 => total = w.total
  BY <1>1 DEF TotalOf
<1>6. AllNeeded(n + 1, total)
  <2>1. CASE n = 0
    <3> HIDE DEF total, n
    <3> QED  BY <2>1, FirstNeeded
  <2>2. CASE n # 0
    <3>1. AllNeeded(n + 1, w.total)
      BY <1>1 DEF ReportInv, PagesNeeded
    <3> QED  BY <1>5, <2>2, <3>1
  <2> QED  BY <2>1, <2>2
<1>7. PageOf(items, cur, n + 1, total)
  <2>1. Needs(n + 1, Len(cur))
    <3>1. n + 1 \in 1..n + 1
      BY <1>1
    <3> HIDE DEF total, n, cur
    <3> QED  BY <1>3, <1>6, <3>1 DEF AllNeeded
  <2>2. SliceOf(items, cur, n + 1)
    <3> HIDE DEF n
    <3> QED  BY <1>1, <1>2, <2>1, ResponseIsPart
  <2> QED  BY <1>3, <2>2 DEF PageOf
<1>8. PICK L1 \in Seq(Row), k \in 0..n :
        /\ w.moments = {L1, cur} /\ Alike(L1, cur)
        /\ \A m \in 1..n :
             PageOf(w.pages[m], IF m <= k THEN L1 ELSE cur, m, w.total)
  <2>1. Mixed(w, cur)
    BY <1>1 DEF MomentInv, MomentOK
  <2> HIDE DEF w, cur
  <2> QED  BY <2>1 DEF Mixed, PagesOf
<1>9. k \in 0..n + 1 /\ k \in Nat /\ k <= n
  <2> HIDE DEF n
  <2> QED  BY <1>1, <1>8
<1>10. ASSUME NEW m \in 1..n + 1
       PROVE  PageOf(pages[m], IF m <= k THEN L1 ELSE cur, m, total)
  <2>1. CASE m = n + 1
    <3>1. ~ (m <= k)
      <4> HIDE DEF n
      <4> QED  BY <1>1, <1>9, <2>1
    <3> HIDE DEF pages, n, cur, total
    <3> QED  BY <1>4, <1>7, <2>1, <3>1
  <2>2. CASE m # n + 1
    <3>1. m \in 1..n /\ n # 0
      <4> HIDE DEF n
      <4> QED  BY <1>1, <2>2
    <3> HIDE DEF pages, n, cur, total, w
    <3> QED  BY <1>4, <1>5, <1>8, <3>1
  <2> QED  BY <2>1, <2>2
<1>11. v.pages = pages /\ v.total = total /\ v.pc = "fetch"
       /\ v.moments = w.moments
  <2> HIDE DEF w, pages, total
  <2> QED  BY <1>1 DEF Work
<1>12. u.pages = pages /\ u.pc = "record" /\ u.moments = w.moments
  <2> HIDE DEF w, pages, total
  <2> QED  BY <1>1 DEF Work
<1>13. CASE FetchPage(p, items)
  <2>1. task' = [task EXCEPT ![p] = v] /\ register' = register
    BY <1>13 DEF FetchPage, IngestionInv
  <2> HIDE DEF v, w, pages, total, cur, n
  <2>2. Mixed(v, cur)
    BY <1>4, <1>8, <1>9, <1>10, <1>11 DEF Mixed, PagesOf
  <2>3. MomentOK(v, cur)
    BY <1>11, <2>2 DEF MomentOK, Fetched
  <2> QED  BY <2>1, <2>3, MomentStep DEF cur
<1>14. CASE FetchLastPage(p, items)
  <2> DEFINE c == FlattenSeq(pages)
  <2>1. /\ task' = [task EXCEPT ![p] = u] /\ register' = register
        /\ assertSnapshotPages(pages, total) /\ IsLastPage(p)
    BY <1>14 DEF FetchLastPage, IngestionInv
  <2>2. Len(c) = total /\ Distinct(c) /\ c \in Seq(Row)
    <3>1. c \in Seq(Row)
      <4> HIDE DEF pages
      <4> QED  BY <1>4, FlattenIs
    <3> HIDE DEF pages
    <3> QED  BY <2>1, <3>1 DEF assertSnapshotPages, Distinct
  <2>3. RowsPerPage \in Nat \ {0}
    BY IngestionAssumption DEF IngestionAssumption
  <2>4. total <= Len(pages) * RowsPerPage
    <3> DEFINE a == Len(pages) * RowsPerPage
    <3>1. a >= total
      <4> HIDE DEF total, pages, n
      <4> QED  BY <1>1, <1>4, <2>1 DEF IsLastPage, total
    <3>2. a \in Nat
      BY <1>1, <1>4, <2>3
    <3> HIDE DEF a, total
    <3> QED  BY <1>3, <3>1, <3>2 DEF a
  <2> DEFINE b == k * RowsPerPage
  <2>5. MixOf(c, L1, cur, b)
    <3>1. k \in 0..Len(pages) /\ AllNeeded(Len(pages), total)
      <4> HIDE DEF pages, total, n
      <4> QED  BY <1>4, <1>6, <1>9
    <3>2. PagesOf(pages, L1, cur, k, total)
      <4> HIDE DEF pages, total, n, cur
      <4> QED  BY <1>4, <1>10 DEF PagesOf
    <3> HIDE DEF pages, total, n, cur
    <3>3. MixOf(FlattenSeq(pages), L1, cur, k * RowsPerPage)
      <4>1. Len(FlattenSeq(pages)) = total
        BY <2>2
      <4> QED  BY <1>3, <1>4, <1>8, <2>4, <3>1, <3>2, <4>1, MixIs
    <3> QED  BY <3>3 DEF c, b
  <2>6. ASSUME k = 0 PROVE c \in {L1, cur}
    <3>1. b = 0
      BY <2>3, <2>6
    <3>2. \A x \in 1..total : ~ (x <= b)
      BY <1>3, <3>1
    <3> HIDE DEF b, c, total, cur
    <3>3. c = cur
      BY <1>3, <2>2, <2>5, <3>2, SeqEqual DEF MixOf
    <3> QED  BY <3>3
  <2>7. ASSUME k # 0 PROVE c \in {L1, cur}
    <3>1. Len(L1) = total
      <4>1. 1 \in 1..n + 1 /\ 1 <= k
        <5> HIDE DEF n
        <5> QED  BY <1>1, <1>9, <2>7
      <4>2. PageOf(pages[1], L1, 1, total)
        <5> HIDE DEF n, pages, total, cur
        <5> QED  BY <1>10, <4>1
      <4> QED  BY <4>2 DEF PageOf
    <3>2. b \in Nat /\ 0 < b
      <4>1. k \in Nat \ {0}
        BY <1>9, <2>7
      <4> QED  BY <2>3, <4>1
    <3>3. b < total
      <4>1. n * RowsPerPage < total
        <5>1. Needs(n + 1, total)
          <6>1. n + 1 \in 1..n + 1
            BY <1>1
          <6> HIDE DEF n, total
          <6> QED  BY <1>6, <6>1 DEF AllNeeded
        <5>2. (n + 1) - 1 = n /\ n + 1 # 1
          <6> HIDE DEF n
          <6> QED  BY <1>1, <1>9, <2>7
        <5> HIDE DEF n, total
        <5> QED  BY <5>1, <5>2 DEF Needs
      <4> DEFINE d == n - k
                 e == d * RowsPerPage
                 f == n * RowsPerPage
      <4>2. d \in Nat /\ n = k + d
        <5> HIDE DEF n
        <5> QED  BY <1>1, <1>9
      <4>3. f = b + e /\ e \in Nat
        <5> HIDE DEF d
        <5>1. \A y, z, r \in Nat : (y + z) * r = y * r + z * r
          OBVIOUS
        <5>2. k \in Nat /\ RowsPerPage \in Nat
          BY <1>9, <2>3
        <5> HIDE DEF n
        <5> QED  BY <4>2, <5>1, <5>2
      <4>4. f < total
        BY <4>1
      <4> HIDE DEF b, e, f, total
      <4> QED  BY <1>3, <3>2, <4>3, <4>4
    <3>4. CASE L1 = cur
      <4> HIDE DEF b, c, total, cur
      <4>1. c = cur
        BY <1>3, <2>2, <2>5, <3>4, SeqEqual DEF MixOf
      <4> QED  BY <4>1
    <3>5. CASE L1 # cur
      <4>1. OneMoved(L1, cur)
        <5> HIDE DEF total, cur
        <5> QED  BY <1>3, <1>8, <3>1, <3>5 DEF Alike
      <4> HIDE DEF b, c, total, cur
      <4>2. Len(L1) = Len(c) /\ Len(cur) = Len(c) /\ b < Len(c)
        BY <1>3, <2>2, <3>1, <3>3
      <4> QED  BY <1>3, <1>8, <2>2, <2>5, <3>2, <4>1, <4>2, OneOfTwo
    <3> QED  BY <3>4, <3>5
  <2>8. c \in w.moments
    <3>1. c \in {L1, cur}
      BY <2>6, <2>7
    <3> QED  BY <1>8, <3>1
  <2> HIDE DEF u, c, w, cur, pages
  <2>9. MomentOK(u, cur)
    BY <1>12, <2>8 DEF MomentOK, Fetched, c
  <2> QED  BY <2>1, <2>9, MomentStep DEF cur
<1> QED  BY <1>13, <1>14

\* A process that ends, or stores what it fetched.
LEMMA RestMoment ==
  ASSUME IngestionInv, MomentInv, NEW p \in Caller,
         \/ FetchFails(p) \/ CrashIngestion(p) \/ upsertSnapshot(p)
         \/ startRun(p) \/ persistPage(p) \/ finishRun(p) \/ failRun(p)
  PROVE  MomentInv'
<1> DEFINE w == task[p]
           cur == Listing(register)
<1>1. w \in Work /\ task \in [Caller -> Work]
  BY DEF IngestionInv
<1>2. CASE \/ FetchFails(p) \/ CrashIngestion(p)
           \/ finishRun(p) \/ failRun(p)
  <2>1. task' = [task EXCEPT ![p] = NoCall] /\ register' = register
    BY <1>2 DEF FetchFails, CrashIngestion, finishRun, failRun
  <2>2. MomentOK(NoCall, cur)
    BY MomentStays
  <2> QED  BY <2>1, <2>2, MomentStep
<1>3. CASE upsertSnapshot(p)
  <2> DEFINE v == [w EXCEPT !.pc = "start"]
  <2>1. task' = [task EXCEPT ![p] = v] /\ register' = register
    BY <1>1, <1>3 DEF upsertSnapshot
  <2>2. w.pc \in Fetched
    BY <1>3 DEF upsertSnapshot, Fetched
  <2>3. v.pc \in Fetched /\ v.pages = w.pages /\ v.moments = w.moments
    <3> HIDE DEF w
    <3> QED  BY <1>1 DEF Work, Fetched
  <2> HIDE DEF v
  <2>4. MomentOK(v, cur)
    BY <2>2, <2>3, MomentStays
  <2> QED  BY <2>1, <2>4, MomentStep
<1>4. CASE startRun(p)
  <2> DEFINE v == [w EXCEPT !.pc = "store"]
  <2>1. task' = [task EXCEPT ![p] = v] /\ register' = register
    BY <1>1, <1>4 DEF startRun
  <2>2. w.pc \in Fetched
    BY <1>4 DEF startRun, Fetched
  <2>3. v.pc \in Fetched /\ v.pages = w.pages /\ v.moments = w.moments
    <3> HIDE DEF w
    <3> QED  BY <1>1 DEF Work, Fetched
  <2> HIDE DEF v
  <2>4. MomentOK(v, cur)
    BY <2>2, <2>3, MomentStays
  <2> QED  BY <2>1, <2>4, MomentStep
<1>5. CASE persistPage(p)
  <2>1. PICK n, counts :
          /\ task' = [task EXCEPT ![p].next = n, ![p].counts = counts]
          /\ register' = register /\ w.pc = "store"
    BY <1>5 DEF persistPage
  <2> DEFINE v == [w EXCEPT !.next = n, !.counts = counts]
  <2>2. task' = [task EXCEPT ![p] = v]
    BY <1>1, <2>1
  <2>3. /\ w.pc \in Fetched /\ v.pc \in Fetched
        /\ v.pages = w.pages /\ v.moments = w.moments
    <3> HIDE DEF w
    <3> QED  BY <1>1, <2>1 DEF Work, Fetched
  <2> HIDE DEF v
  <2>4. MomentOK(v, cur)
    BY <2>3, MomentStays
  <2> QED  BY <2>1, <2>2, <2>4, MomentStep
<1> QED  BY <1>2, <1>3, <1>4, <1>5

\* Whatever the operators, the failures and one change of the register do.
LEMMA MomentKeeps ==
  ASSUME MaxDrift <= 1, IngestionInv, ReportInv, MomentInv,
         [IngestionNext]_ingestionVars
  PROVE  MomentInv'
<1>1. ASSUME NEW new \in SUBSET Row, Change(new) PROVE MomentInv'
  BY <1>1, ChangeMoment
<1>2. operators \subseteq Caller
  BY DEF IngestionInv
<1>3. ASSUME NEW p \in operators, Invoke(p) PROVE MomentInv'
  BY <1>2, <1>3, InvokeMoment
<1>4. ASSUME NEW p \in operators, NEW items \in Responses(PageNo(p)),
             FetchPage(p, items) \/ FetchLastPage(p, items)
      PROVE  MomentInv'
  BY <1>2, <1>4, FetchMoment
<1>5. ASSUME NEW p \in operators,
             \/ FetchFails(p) \/ CrashIngestion(p) \/ upsertSnapshot(p)
             \/ startRun(p) \/ persistPage(p) \/ finishRun(p) \/ failRun(p)
      PROVE  MomentInv'
  BY <1>2, <1>5, RestMoment
<1>6. CASE UNCHANGED ingestionVars
  BY <1>6 DEF ingestionVars, MomentInv
<1> QED  BY <1>1, <1>3, <1>4, <1>5, <1>6 DEF IngestionNext

\* A content that passed the assertion is the register as it was at one
\* moment of the fetch, when it changed at most once meanwhile, although its
\* pages were read at different moments and some may be short.
THEOREM SnapshotIsAlwaysOneMoment ==
  ASSUME MaxDrift <= 1
  PROVE  IngestionSpec => []SnapshotIsOneMoment
<1>1. IngestionInit => IngestionInv /\ ReportInv /\ MomentInv
  BY IngestionStarts, ReportStarts, MomentStarts
<1>2. IngestionInv /\ ReportInv /\ MomentInv
        /\ [IngestionNext]_ingestionVars =>
        (IngestionInv /\ ReportInv /\ MomentInv)'
  BY IngestionKeeps, ReportKeeps, MomentKeeps
<1>3. MomentInv => SnapshotIsOneMoment
  BY DEF MomentInv, MomentOK, SnapshotIsOneMoment, Content, Fetched
<1> QED  BY <1>1, <1>2, <1>3, PTL DEF IngestionSpec

-----------------------------------------------------------------------------
(* What a restore reports *)

\* A copy that is being made or looked at is there.
CopyThere ==
  restore.step \in {"READ", "COPYING", "COPIED", "VERIFIED"} => copy \in File

Signature ==
  [users : SUBSET User, stores : SUBSET Store,
   tables : {TablesOf[n] : n \in 1 .. MaxSchema}]

RestoreRow ==
  [step : Steps, excluded : SUBSET Store,
   signature : Signature \cup {NoFile},
   error : {NoError, "HEALTH", "CHECKSUM", "INDEX", "SEARCH", "BACKUP"}]

\* A copied file is whole.
CopiedIsFile == restore.step \in {"COPIED", "VERIFIED"} => destination \in File

RestoreInv ==
  /\ active \in File
  /\ copy \in File \cup {NoFile}
  /\ destination \in File \cup {NoFile, Partial}
  /\ migrations \in 1 .. MaxSchema
  /\ withdrawn \subseteq User
  /\ restore \in RestoreRow
  /\ CopyThere /\ CopiedIsFile /\ VerifiedIsTheCopy

\* A changed file is a file.
LEMMA FileUpdate ==
  ASSUME NEW f \in File
  PROVE  /\ \A us \in SUBSET User : [f EXCEPT !.users = us] \in File
         /\ \A ss \in SUBSET Store : [f EXCEPT !.stores = ss] \in File
         /\ \A n \in 1..MaxSchema : [f EXCEPT !.schema = n] \in File
         /\ \A d \in Damages : [f EXCEPT !.damage = d] \in File
BY DEF File

\* A restore that is over, or was never begun, is typed.
LEMMA EndedTyped ==
  ASSUME NEW s \in Steps,
         NEW e \in {NoError, "HEALTH", "CHECKSUM", "INDEX", "SEARCH", "BACKUP"}
  PROVE  /\ Ended(s, e) \in RestoreRow /\ Ended(s, e).step = s
         /\ Idle \in RestoreRow /\ Idle.step = "IDLE"
BY DEF Ended, Idle, RestoreRow, Steps, AtRest, NoError

\* No restore is under way at first.
LEMMA RestoreInit ==
  ASSUME AppRestoreAssumption, Init
  PROVE  RestoreInv
<1>1. active \in File /\ migrations \in 1..MaxSchema
  BY DEF Init, File, AppRestoreAssumption
<1>2. restore \in RestoreRow /\ restore.step = "IDLE"
  BY EndedTyped DEF Init, Steps, AtRest, NoError
<1> QED
  BY <1>1, <1>2
     DEF Init, RestoreInv, CopyThere, CopiedIsFile, VerifiedIsTheCopy

\* Whatever users, the catalog, deployments and copies do, the file that a
\* restore works on is its own.
LEMMA EnvironmentKeeps ==
  ASSUME AppRestoreAssumption, RestoreInv, Environment
  PROVE  RestoreInv'
<1> USE DEF RestoreInv, CopyThere, CopiedIsFile, VerifiedIsTheCopy
<1>1. ASSUME NEW u \in User, Register(u) \/ Withdraw(u) PROVE RestoreInv'
  <2>1. active.users \in SUBSET User
    BY DEF File
  <2>2. active' \in File /\ withdrawn' \subseteq User
    BY <1>1, <2>1, FileUpdate DEF Register, Withdraw
  <2> QED  BY <1>1, <2>2 DEF Register, Withdraw
<1>2. ASSUME NEW stores \in SUBSET Store, Publish(stores) PROVE RestoreInv'
  <2>1. active' \in File
    BY <1>2, FileUpdate DEF Publish
  <2> QED  BY <1>2, <2>1 DEF Publish
<1>3. CASE Deploy
  <2>1. migrations' \in 1..MaxSchema
    BY <1>3 DEF Deploy, AppRestoreAssumption
  <2>2. active' \in File
    BY <1>3, <2>1, FileUpdate DEF Deploy
  <2> QED  BY <1>3, <2>1, <2>2 DEF Deploy
<1>4. CASE backupAppDatabase
  <2>1. copy' \in File
    BY <1>4 DEF backupAppDatabase
  <2> QED  BY <1>4, <2>1 DEF backupAppDatabase
<1>5. ASSUME NEW damage \in Damages, CopyDamaged(damage) PROVE RestoreInv'
  <2>1. copy' \in File
    BY <1>5, FileUpdate DEF CopyDamaged
  <2> QED  BY <1>5, <2>1 DEF CopyDamaged
<1>6. CASE Swap
  <2>1. active' \in File
    BY <1>6 DEF Swap
  <2>2. Idle \in RestoreRow /\ Idle.step = "IDLE"
    BY EndedTyped DEF Steps, AtRest, NoError
  <2> QED  BY <1>6, <2>1, <2>2 DEF Swap
<1>7. CASE ClearPath
  <2>1. Idle \in RestoreRow /\ Idle.step = "IDLE"
    BY EndedTyped DEF Steps, AtRest, NoError
  <2> QED  BY <1>7, <2>1 DEF ClearPath
<1> QED  BY <1>1, <1>2, <1>3, <1>4, <1>5, <1>6, <1>7 DEF Environment

\* What a restore does to its file; only a file without a fault is verified.
LEMMA RestoreKeeps ==
  ASSUME AppRestoreAssumption, RestoreInv, Restore
  PROVE  RestoreInv'
<1> USE DEF RestoreInv, CopyThere, CopiedIsFile, VerifiedIsTheCopy
<1>1. ASSUME NEW st \in {"FAILED", "CRASHED", "REMOVING"},
             NEW e \in {NoError, "HEALTH", "CHECKSUM", "INDEX", "SEARCH",
                       "BACKUP"}
      PROVE  /\ Ended(st, e) \in RestoreRow /\ Ended(st, e).step = st
             /\ Ended(st, e).step
                  \notin {"READ", "COPYING", "COPIED", "VERIFIED"}
  BY <1>1, EndedTyped DEF Steps, AtRest
<1>2. \A st \in Steps : /\ [restore EXCEPT !.step = st] \in RestoreRow
                        /\ [restore EXCEPT !.step = st].step = st
                        /\ [restore EXCEPT !.step = st].signature
                             = restore.signature
                        /\ [restore EXCEPT !.step = st].excluded
                             = restore.excluded
  BY DEF RestoreRow
<1>3. ASSUME NEW excluded \in SUBSET Store, restoreAppDatabase(excluded)
      PROVE  RestoreInv'
  <2> DEFINE new == [step |-> "READ", excluded |-> excluded, error |-> NoError,
                     signature |-> logicalDatabaseSignature(copy)]
  <2>1. copy \in File /\ restore.step = "IDLE"
    BY <1>3 DEF restoreAppDatabase
  <2>2. logicalDatabaseSignature(copy) \in Signature
    BY <2>1 DEF logicalDatabaseSignature, Signature, File
  <2>3. new \in RestoreRow
    BY <2>2 DEF RestoreRow, Steps
  <2>4. restore' \in {new, Ended("FAILED", "HEALTH")}
    BY <1>3 DEF restoreAppDatabase
  <2>5. restore' \in RestoreRow /\ restore'.step \in {"READ", "FAILED"}
    BY <1>1, <2>3, <2>4
  <2> HIDE DEF new
  <2> QED  BY <1>3, <2>1, <2>5 DEF restoreAppDatabase
<1>4. CASE BackupStarts
  <2>1. restore' \in RestoreRow /\ restore'.step = "COPYING"
    BY <1>2, <1>4 DEF BackupStarts, Steps
  <2> QED  BY <1>4, <2>1 DEF BackupStarts
<1>5. CASE backupSqliteFile
  <2>1. restore' \in RestoreRow /\ restore'.step = "COPIED"
    BY <1>2, <1>5 DEF backupSqliteFile, Steps
  <2> QED  BY <1>5, <2>1 DEF backupSqliteFile
<1>6. CASE BackupFails
  <2>1. restore' \in RestoreRow /\ restore'.step = "FAILED"
    BY <1>1, <1>6 DEF BackupFails
  <2> QED  BY <1>6, <2>1 DEF BackupFails
<1>7. ASSUME NEW current \in BOOLEAN, verify(current) PROVE RestoreInv'
  <2> DEFINE f == migrateAppDatabase(destination)
  <2>1. restore.step = "COPIED" /\ destination \in File
    BY <1>7 DEF verify
  <2>2. f \in File
    BY <2>1, FileUpdate DEF migrateAppDatabase
  <2>3. destination' = f /\ UNCHANGED <<active, copy, migrations, withdrawn>>
    BY <1>7 DEF verify
  <2>4. CASE /\ Faults(f, current) = {}
             /\ restore' = [restore EXCEPT !.step = "VERIFIED"]
    <3>1. /\ assertDatabaseHealth(f) /\ sameRows(f, restore.signature)
          /\ ftsAgrees(f) /\ f.stores \cap restore.excluded = {}
      <4>1. \A e \in {"HEALTH", "CHECKSUM", "INDEX", "SEARCH"} :
              e \notin Faults(f, current)
        BY <2>4
      <4> HIDE DEF f
      <4> QED  BY <4>1 DEF Faults
    <3>2. f.damage = "NONE"
      BY <2>2, <3>1 DEF File, Damages, assertDatabaseHealth, ftsAgrees
    <3>3. /\ f.users = restore.signature.users
          /\ f.stores = restore.signature.stores
      <4> HIDE DEF f
      <4>1. restore.signature = [users |-> f.users, stores |-> f.stores,
                                 tables |-> TablesOf[f.schema]]
        BY <3>1 DEF sameRows, logicalDatabaseSignature
      <4> QED  BY <4>1
    <3>4. /\ restore' \in RestoreRow /\ restore'.step = "VERIFIED"
          /\ restore'.signature = restore.signature
          /\ restore'.excluded = restore.excluded
      BY <1>2, <2>4 DEF Steps, AtRest
    <3> HIDE DEF f
    <3> QED  BY <2>1, <2>2, <2>3, <3>1, <3>2, <3>3, <3>4
  <2>5. CASE \E e \in Faults(f, current) : restore' = Ended("REMOVING", e)
    <3>1. restore' \in RestoreRow /\ restore'.step = "REMOVING"
      BY <1>1, <2>5 DEF Faults
    <3> HIDE DEF f
    <3> QED  BY <2>1, <2>2, <2>3, <3>1
  <2> QED  BY <1>7, <2>4, <2>5 DEF verify
<1>8. CASE RemovePartial
  <2>1. restore.error \in {NoError, "HEALTH", "CHECKSUM", "INDEX", "SEARCH",
                           "BACKUP"}
    BY DEF RestoreRow
  <2>2. restore' \in RestoreRow /\ restore'.step = "FAILED"
    BY <1>1, <1>8, <2>1 DEF RemovePartial
  <2> QED  BY <1>8, <2>2 DEF RemovePartial, removePartialDestination
<1>9. CASE Crash
  <2>1. restore' \in RestoreRow /\ restore'.step = "CRASHED"
    BY <1>1, <1>9 DEF Crash
  <2> QED  BY <1>9, <2>1 DEF Crash
<1> QED
  BY <1>3, <1>4, <1>5, <1>6, <1>7, <1>8, <1>9 DEF Restore

\* For any users, stores and number of migrations: whatever was withdrawn,
\* published, deployed or written over the copy while a restore was running,
\* the file it reports is whole, holds the rows it read when it began and none
\* of the stores that must not be seen.
THEOREM VerifiedIsAlwaysTheCopy ==
  ASSUME AppRestoreAssumption
  PROVE  Spec => []VerifiedIsTheCopy
<1>1. Init => RestoreInv
  BY RestoreInit
<1>2. RestoreInv /\ [Next]_vars => RestoreInv'
  <2>1. ASSUME RestoreInv, UNCHANGED vars PROVE RestoreInv'
    BY <2>1 DEF vars, RestoreInv, CopyThere, CopiedIsFile, VerifiedIsTheCopy
  <2> QED  BY <2>1, EnvironmentKeeps, RestoreKeeps DEF Next
<1>3. RestoreInv => VerifiedIsTheCopy
  BY DEF RestoreInv
<1> QED  BY <1>1, <1>2, <1>3, PTL DEF Spec
=============================================================================
