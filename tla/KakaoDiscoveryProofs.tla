------------------------ MODULE KakaoDiscoveryProofs ------------------------
(* That a discovery which ends COMPLETE has missed no bakery that the        *)
(* provider showed all the time, for every value of the constants; and that  *)
(* a catalog which grows never redirects the link of a place.                *)
EXTENDS KakaoDiscovery, KakaoMatch, FiniteSetTheorems,
        WellFoundedInduction, TLAPS

-----------------------------------------------------------------------------
(* Induction, as a fact about sets *)

\* A set of natural numbers has a least one.
LEMMA LeastElement ==
  ASSUME NEW T \in SUBSET Nat, T # {}
  PROVE  \E n \in T : \A m \in T : n <= m
<1> DEFINE R == {ss \in Nat \X Nat : ss[1] < ss[2]}
<1>1. IsWellFoundedOn(R, Nat)
  BY NatLessThanWellFounded DEF OpToRel
<1>2. PICK n \in T : \A m \in T : ~ (<<m, n>> \in R)
  <2> HIDE DEF R
  <2> QED  BY <1>1, WFMin
<1>3. ASSUME NEW m \in T, m < n PROVE FALSE
  <2>1. <<m, n>> \in Nat \X Nat /\ <<m, n>>[1] = m /\ <<m, n>>[2] = n
    OBVIOUS
  <2>2. <<m, n>> \in R
    BY <2>1, <1>3
  <2> QED  BY <1>2, <2>2
<1> QED  BY <1>3

\* A set with 0 and every successor has all natural numbers.
LEMMA Induction ==
  ASSUME NEW T, 0 \in T, \A n \in Nat : n \in T => n + 1 \in T
  PROVE  Nat \subseteq T
<1> SUFFICES ASSUME Nat \ T # {} PROVE FALSE
  OBVIOUS
<1>1. PICK n \in Nat \ T : \A m \in Nat \ T : n <= m
  BY LeastElement
<1>2. n # 0 /\ n - 1 \in Nat
  BY <1>1
<1>3. n - 1 \in T
  BY <1>1, <1>2
<1>4. (n - 1) + 1 \in T
  BY <1>2, <1>3
<1> QED  BY <1>1, <1>2, <1>4

-----------------------------------------------------------------------------
(* Among *)

\* What was selected from the first n elements, by what was before n.
Grown(f, seq, A, n) ==
  IF n = 0 THEN <<>>
  ELSE IF seq[n] \in A THEN Append(f[n - 1], seq[n])
  ELSE f[n - 1]

\* The recursive function in Among exists, and Among is its last value.
LEMMA AmongIsGrown ==
  ASSUME NEW S, NEW seq \in Seq(S), NEW A
  PROVE  \E f : /\ f = [n \in 0..Len(seq) |-> Grown(f, seq, A, n)]
                /\ Among(seq, A) = f[Len(seq)]
<1> DEFINE T == {n \in Nat : \E f : f = [i \in 0..n |-> Grown(f, seq, A, i)]}
<1>1. 0 \in T
  <2> DEFINE f == [i \in 0..0 |-> <<>>]
  <2>1. f = [i \in 0..0 |-> Grown(f, seq, A, i)]
    BY DEF Grown
  <2> HIDE DEF f
  <2> QED  BY <2>1
<1>2. ASSUME NEW n \in Nat, n \in T PROVE n + 1 \in T
  <2>1. PICK f : f = [i \in 0..n |-> Grown(f, seq, A, i)]
    BY <1>2
  <2> DEFINE g == [i \in 0..n + 1 |-> IF i = n + 1 THEN Grown(f, seq, A, n + 1)
                                      ELSE f[i]]
  <2>2. ASSUME NEW i \in 0..n + 1 PROVE g[i] = Grown(g, seq, A, i)
    <3>1. CASE i = 0
      <4>1. g[0] = f[0] /\ f[0] = Grown(f, seq, A, 0)
        BY <2>1
      <4> QED  BY <4>1, <3>1 DEF Grown
    <3>2. CASE i # 0
      <4>1. i - 1 \in 0..n /\ i - 1 \in 0..n + 1 /\ i - 1 # n + 1
        BY <3>2
      <4>2. g[i - 1] = f[i - 1]
        BY <4>1
      <4>3. g[i] = Grown(f, seq, A, i)
        <5>1. CASE i = n + 1
          BY <5>1
        <5>2. CASE i # n + 1
          <6>1. i \in 0..n
            BY <5>2
          <6> QED  BY <6>1, <5>2, <2>1
        <5> QED  BY <5>1, <5>2
      <4> HIDE DEF g
      <4> QED  BY <4>2, <4>3 DEF Grown
    <3> QED  BY <3>1, <3>2
  <2>3. g = [i \in 0..n + 1 |-> Grown(g, seq, A, i)]
    <3>1. DOMAIN g = 0..n + 1 /\ g = [i \in 0..n + 1 |-> g[i]]
      OBVIOUS
    <3> HIDE DEF g
    <3> QED  BY <2>2, <3>1
  <2> HIDE DEF g
  <2> QED  BY <2>3
<1>3. Len(seq) \in Nat
  OBVIOUS
<1>4. Len(seq) \in T
  <2> HIDE DEF T
  <2> QED  BY <1>1, <1>2, <1>3, Induction
<1> DEFINE F == CHOOSE f : f = [n \in 0..Len(seq) |-> Grown(f, seq, A, n)]
<1>5. F = [n \in 0..Len(seq) |-> Grown(F, seq, A, n)]
  <2>1. \E f : f = [n \in 0..Len(seq) |-> Grown(f, seq, A, n)]
    BY <1>4
  <2> QED  BY <2>1
<1>6. Among(seq, A) = F[Len(seq)]
  BY DEF Among, Grown
<1> HIDE DEF F
<1> QED  BY <1>5, <1>6

\* Among selects elements of the set, and all that the sequence has.
LEMMA AmongSelects ==
  ASSUME NEW S, NEW seq \in Seq(S), NEW A
  PROVE  /\ Among(seq, A) \in Seq(S)
         /\ \A i \in 1..Len(Among(seq, A)) : Among(seq, A)[i] \in A
         /\ \A k \in 1..Len(seq) : seq[k] \in A =>
              \E i \in 1..Len(Among(seq, A)) : Among(seq, A)[i] = seq[k]
<1>1. PICK f : /\ f = [n \in 0..Len(seq) |-> Grown(f, seq, A, n)]
               /\ Among(seq, A) = f[Len(seq)]
  BY AmongIsGrown
<1> DEFINE Good(n) == /\ f[n] \in Seq(S)
                      /\ \A i \in 1..Len(f[n]) : f[n][i] \in A
                      /\ \A k \in 1..n : seq[k] \in A =>
                           \E i \in 1..Len(f[n]) : f[n][i] = seq[k]
           T == {n \in Nat : n <= Len(seq) => Good(n)}
<1>2. 0 \in T
  <2>1. f[0] = <<>>
    BY <1>1 DEF Grown
  <2>2. <<>> \in Seq(S) /\ Len(<<>>) = 0
    OBVIOUS
  <2>3. Good(0)
    BY <2>1, <2>2
  <2> QED  BY <2>3
<1>3. ASSUME NEW n \in Nat, n \in T PROVE n + 1 \in T
  <2> SUFFICES ASSUME n + 1 <= Len(seq) PROVE Good(n + 1)
    OBVIOUS
  <2>1. Good(n)
    BY <1>3
  <2>2. /\ n + 1 \in 0..Len(seq) /\ n + 1 \in 1..Len(seq)
        /\ n + 1 # 0 /\ (n + 1) - 1 = n
    OBVIOUS
  <2>3. seq[n + 1] \in S
    BY <2>2
  <2>4. f[n + 1] = Grown(f, seq, A, n + 1)
    BY <1>1, <2>2
  <2>5. CASE seq[n + 1] \in A
    <3>1. f[n + 1] = Append(f[n], seq[n + 1])
      BY <2>4, <2>2, <2>5 DEF Grown
    <3> DEFINE a == f[n]  b == f[n + 1]
    <3>2. /\ b \in Seq(S) /\ Len(b) = Len(a) + 1 /\ b[Len(b)] = seq[n + 1]
          /\ \A i \in 1..Len(a) : b[i] = a[i]
      <4>1. a \in Seq(S) /\ b = Append(a, seq[n + 1])
        BY <2>1, <3>1
      <4> HIDE DEF a, b
      <4> QED  BY <4>1, <2>3
    <3>3. \A i \in 1..Len(b) : b[i] \in A
      <4>1. \A i \in 1..Len(a) : a[i] \in A
        BY <2>1
      <4>2. Len(a) \in Nat
        BY <2>1
      <4> HIDE DEF a, b
      <4> QED  BY <4>1, <4>2, <3>2, <2>5
    <3>4. ASSUME NEW k \in 1..n + 1, seq[k] \in A
          PROVE \E i \in 1..Len(b) : b[i] = seq[k]
      <4>1. Len(a) \in Nat
        BY <2>1
      <4>2. CASE k = n + 1
        <5> HIDE DEF a, b
        <5> QED  BY <4>1, <4>2, <3>2
      <4>3. CASE k # n + 1
        <5>1. k \in 1..n
          BY <4>3
        <5>2. PICK i \in 1..Len(a) : a[i] = seq[k]
          BY <5>1, <3>4, <2>1
        <5>3. i \in 1..Len(b) /\ b[i] = seq[k]
          <6> HIDE DEF a, b
          <6> QED  BY <4>1, <5>2, <3>2
        <5> QED  BY <5>3
      <4> QED  BY <4>2, <4>3
    <3> QED  BY <3>2, <3>3, <3>4
  <2>6. CASE seq[n + 1] \notin A
    <3>1. f[n + 1] = f[n]
      BY <2>4, <2>2, <2>6 DEF Grown
    <3>2. \A k \in 1..n + 1 : seq[k] \in A => k \in 1..n
      BY <2>6
    <3> QED  BY <2>1, <3>1, <3>2
  <2> QED  BY <2>5, <2>6
<1>4. Len(seq) \in Nat
  OBVIOUS
<1>5. Len(seq) \in T
  <2> HIDE DEF T
  <2> QED  BY <1>2, <1>3, <1>4, Induction
<1>6. Good(Len(seq))
  BY <1>4, <1>5
<1> QED  BY <1>1, <1>6

\* An element that a set selects is selected by a larger set, at the same
\* place or a later one.
LEMMA AmongGrows ==
  ASSUME NEW S, NEW seq \in Seq(S), NEW A, NEW B, A \subseteq B
  PROVE  \A i \in 1..Len(Among(seq, A)) :
           \E j \in 1..Len(Among(seq, B)) :
             i <= j /\ Among(seq, B)[j] = Among(seq, A)[i]
<1>1. PICK f : /\ f = [n \in 0..Len(seq) |-> Grown(f, seq, A, n)]
               /\ Among(seq, A) = f[Len(seq)]
  BY AmongIsGrown
<1>2. PICK g : /\ g = [n \in 0..Len(seq) |-> Grown(g, seq, B, n)]
               /\ Among(seq, B) = g[Len(seq)]
  BY AmongIsGrown
<1> DEFINE Good(n) == /\ f[n] \in Seq(S) /\ g[n] \in Seq(S)
                      /\ Len(f[n]) <= Len(g[n])
                      /\ \A i \in 1..Len(f[n]) : \E j \in 1..Len(g[n]) :
                           i <= j /\ g[n][j] = f[n][i]
           T == {n \in Nat : n <= Len(seq) => Good(n)}
<1>3. 0 \in T
  <2>1. f[0] = <<>> /\ g[0] = <<>>
    BY <1>1, <1>2 DEF Grown
  <2>2. <<>> \in Seq(S) /\ Len(<<>>) = 0
    OBVIOUS
  <2>3. Good(0)
    BY <2>1, <2>2
  <2> QED  BY <2>3
<1>4. ASSUME NEW n \in Nat, n \in T PROVE n + 1 \in T
  <2> SUFFICES ASSUME n + 1 <= Len(seq) PROVE Good(n + 1)
    OBVIOUS
  <2>0. n <= Len(seq)
    <3>1. Len(seq) \in Nat
      OBVIOUS
    <3> QED  BY <3>1
  <2>1. Good(n)
    <3> HIDE DEF Good
    <3> QED  BY <1>4, <2>0
  <2>2. /\ n + 1 \in 0..Len(seq) /\ n + 1 \in 1..Len(seq)
        /\ n + 1 # 0 /\ (n + 1) - 1 = n
    OBVIOUS
  <2>3. seq[n + 1] \in S
    BY <2>2
  <2>4. /\ f[n + 1] = Grown(f, seq, A, n + 1)
        /\ g[n + 1] = Grown(g, seq, B, n + 1)
    BY <1>1, <1>2, <2>2
  <2>5. CASE seq[n + 1] \notin B
    BY <2>1, <2>2, <2>4, <2>5 DEF Grown
  <2> DEFINE a == f[n]  b == g[n]  e == seq[n + 1]
  <2>6. /\ a \in Seq(S) /\ b \in Seq(S) /\ e \in S /\ Len(a) <= Len(b)
        /\ \A i \in 1..Len(a) : \E j \in 1..Len(b) : i <= j /\ b[j] = a[i]
    BY <2>1, <2>3
  <2>7. /\ Append(b, e) \in Seq(S) /\ Len(Append(b, e)) = Len(b) + 1
        /\ Append(b, e)[Len(b) + 1] = e
        /\ \A j \in 1..Len(b) : Append(b, e)[j] = b[j] /\ j \in 1..Len(b) + 1
        /\ Len(b) + 1 \in 1..Len(b) + 1
    <3> HIDE DEF a, b, e
    <3> QED  BY <2>6
  <2>8. CASE seq[n + 1] \in A
    <3>1. f[n + 1] = Append(a, e) /\ g[n + 1] = Append(b, e)
      BY <2>2, <2>4, <2>8 DEF Grown
    <3>2. /\ Append(a, e) \in Seq(S) /\ Len(Append(a, e)) = Len(a) + 1
          /\ Append(a, e)[Len(a) + 1] = e
          /\ \A i \in 1..Len(a) : Append(a, e)[i] = a[i]
      <4> HIDE DEF a, b, e
      <4> QED  BY <2>6
    <3>3. ASSUME NEW i \in 1..Len(Append(a, e))
          PROVE \E j \in 1..Len(Append(b, e)) :
                  i <= j /\ Append(b, e)[j] = Append(a, e)[i]
      <4>1. Len(a) \in Nat /\ Len(b) \in Nat
        BY <2>6
      <4>2. CASE i = Len(a) + 1
        <5> HIDE DEF a, b, e
        <5> QED  BY <4>1, <4>2, <2>6, <2>7, <3>2
      <4>3. CASE i \in 1..Len(a)
        <5>1. PICK j \in 1..Len(b) : i <= j /\ b[j] = a[i]
          BY <4>3, <2>6
        <5>2. j \in 1..Len(Append(b, e)) /\ Append(b, e)[j] = Append(a, e)[i]
          <6> HIDE DEF a, b, e
          <6> QED  BY <5>1, <4>3, <2>7, <3>2
        <5> QED  BY <5>1, <5>2
      <4> QED  
        <5> HIDE DEF a, b, e
        <5> QED  BY <4>1, <4>2, <4>3, <3>2
    <3>4. Len(Append(a, e)) <= Len(Append(b, e))
      <4> HIDE DEF a, b, e
      <4> QED  BY <2>6, <2>7, <3>2
    <3> HIDE DEF a, b, e
    <3> QED  BY <3>1, <3>2, <3>3, <3>4, <2>7
  <2>9. CASE seq[n + 1] \in B \ A
    <3>1. f[n + 1] = a /\ g[n + 1] = Append(b, e)
      BY <2>2, <2>4, <2>9 DEF Grown
    <3>2. ASSUME NEW i \in 1..Len(a)
          PROVE \E j \in 1..Len(Append(b, e)) :
                  i <= j /\ Append(b, e)[j] = a[i]
      <4>1. PICK j \in 1..Len(b) : i <= j /\ b[j] = a[i]
        BY <2>6
      <4>2. j \in 1..Len(Append(b, e)) /\ Append(b, e)[j] = a[i]
        <5> HIDE DEF a, b, e
        <5> QED  BY <4>1, <2>7
      <4> QED  BY <4>1, <4>2
    <3>3. Len(a) <= Len(Append(b, e))
      <4>1. Len(a) \in Nat /\ Len(b) \in Nat
        BY <2>6
      <4> HIDE DEF a, b, e
      <4> QED  BY <4>1, <2>6, <2>7
    <3> HIDE DEF a, b, e
    <3> QED  BY <3>1, <3>2, <3>3, <2>6, <2>7
  <2> QED  BY <2>5, <2>8, <2>9
<1>5. Len(seq) \in Nat
  OBVIOUS
<1>6. Len(seq) \in T
  <2> HIDE DEF T
  <2> QED  BY <1>3, <1>4, <1>5, Induction
<1>7. Good(Len(seq))
  BY <1>5, <1>6
<1> QED  BY <1>1, <1>2, <1>7

-----------------------------------------------------------------------------
(* Tiles *)

\* A sequence is a prefix when it agrees with the other as far as it goes.
LEMMA PrefixIsPointwise ==
  ASSUME NEW S, NEW s \in Seq(S), NEW c \in Seq(S)
  PROVE  IsPrefix(s, c) <=> /\ Len(s) <= Len(c)
                            /\ \A i \in 1..Len(s) : s[i] = c[i]
<1> SUFFICES ASSUME Len(s) <= Len(c)
             PROVE  SubSeq(s, 1, Len(s)) = SubSeq(c, 1, Len(s))
                      <=> \A i \in 1..Len(s) : s[i] = c[i]
  BY DEF IsPrefix
<1> DEFINE a == SubSeq(s, 1, Len(s))  b == SubSeq(c, 1, Len(s))
<1>1. /\ a = [i \in 1..Len(s) |-> s[i]]
      /\ b = [i \in 1..Len(s) |-> c[i]]
  OBVIOUS
<1> HIDE DEF a, b
<1>2. (a = b) <=> \A i \in 1..Len(s) : s[i] = c[i]
  <2>1. ASSUME a = b, NEW i \in 1..Len(s) PROVE s[i] = c[i]
    <3>1. a[i] = s[i] /\ b[i] = c[i]
      BY <1>1
    <3> QED  BY <2>1, <3>1
  <2> QED  BY <1>1, <2>1
<1> QED  BY <1>2 DEF a, b

\* A cell is a path of quarters down to the finest split.
LEMMA Cells ==
  ASSUME NEW x \in Place, NEW c \in CellsOf[x]
  PROVE  c \in Seq(Quarter) /\ Len(c) = MaxDepth
         /\ \A i \in 1..MaxDepth : c[i] \in Quarter
<1>1. c \in [1..MaxDepth -> Quarter] /\ MaxDepth \in Nat
  BY DiscoveryAssumption DEF DiscoveryAssumption
<1> QED  BY <1>1

\* A tile is a path of quarters no longer than that.
LEMMA TileFacts ==
  ASSUME NEW t \in Tile
  PROVE  t \in Seq(Quarter) /\ Len(t) \in Nat /\ Len(t) <= MaxDepth
<1>1. PICK m \in 0..MaxDepth : t \in [1..m -> Quarter]
  BY DEF Tile, SeqOf
<1>2. m \in Nat /\ MaxDepth \in Nat
  BY DiscoveryAssumption DEF DiscoveryAssumption
<1> QED  BY <1>1, <1>2

\* Every place is in the tile the search starts with.
LEMMA RootCovers ==
  <<>> \in Tile /\ \A x \in Place : InTile(x, <<>>)
<1>1. <<>> \in Tile
  <2>1. MaxDepth \in Nat
    BY DiscoveryAssumption DEF DiscoveryAssumption
  <2>2. <<>> \in [1..0 -> Quarter] /\ 0 \in 0..MaxDepth
    BY <2>1
  <2> QED  BY <2>2 DEF Tile, SeqOf
<1>2. ASSUME NEW x \in Place PROVE InTile(x, <<>>)
  <2>1. PICK c \in CellsOf[x] : TRUE
    BY DiscoveryAssumption DEF DiscoveryAssumption
  <2>2. c \in Seq(Quarter) /\ <<>> \in Seq(Quarter) /\ Len(<<>>) = 0
        /\ Len(c) \in Nat
    BY <2>1, Cells
  <2>3. Len(<<>>) <= Len(c) /\ \A i \in 1..Len(<<>>) : <<>>[i] = c[i]
    BY <2>2
  <2>4. IsPrefix(<<>>, c)
    <3> DEFINE root == <<>>
    <3>1. root \in Seq(Quarter) /\ Len(root) <= Len(c)
          /\ \A i \in 1..Len(root) : root[i] = c[i]
      BY <2>2, <2>3
    <3>2. IsPrefix(root, c)
      <4> HIDE DEF root
      <4> QED  BY <2>2, <3>1, PrefixIsPointwise
    <3> QED  BY <3>2
  <2> QED  BY <2>1, <2>4 DEF InTile
<1> QED  BY <1>1, <1>2

\* The quarters of a tile cover it: splitDiscoveryTile loses no place, not
\* one on a border either.
LEMMA SplitCovers ==
  ASSUME NEW t \in Tile, Len(t) < MaxDepth
  PROVE  /\ Split(t) \in Seq(Tile)
         /\ \A x \in Place : InTile(x, t) =>
              \E i \in 1..Len(Split(t)) : InTile(x, Split(t)[i])
<1>1. MaxDepth \in Nat /\ Quarter = 1..4
  BY DiscoveryAssumption DEF DiscoveryAssumption
<1>2. Cardinality(Quarter) = 4
  <2>1. PICK n \in Int : n = 4
    OBVIOUS
  <2>2. Quarter = 1..n
    BY <1>1, <2>1
  <2>3. Cardinality(1..n) = IF 1 > n THEN 0 ELSE n - 1 + 1
    BY FS_Interval
  <2> QED  BY <2>1, <2>2, <2>3
<1>3. Split(t) = [i \in 1..4 |-> Append(t, i)]
  BY <1>2 DEF Split
<1>4. t \in Seq(Quarter) /\ Len(t) \in Nat
  BY TileFacts
<1>5. ASSUME NEW q \in Quarter
      PROVE /\ Append(t, q) \in Tile /\ Append(t, q) \in Seq(Quarter)
            /\ Len(Append(t, q)) = Len(t) + 1
            /\ Append(t, q)[Len(t) + 1] = q
            /\ \A i \in 1..Len(t) : Append(t, q)[i] = t[i]
  <2>1. /\ Append(t, q) \in Seq(Quarter) /\ Len(Append(t, q)) = Len(t) + 1
        /\ Append(t, q)[Len(t) + 1] = q
        /\ \A i \in 1..Len(t) : Append(t, q)[i] = t[i]
    BY <1>4
  <2>2. Append(t, q) \in [1..Len(t) + 1 -> Quarter]
    <3> DEFINE a == Append(t, q)
    <3>1. a \in Seq(Quarter) /\ Len(a) = Len(t) + 1
      BY <2>1
    <3> HIDE DEF a
    <3>2. a \in [1..Len(a) -> Quarter]
      BY <3>1
    <3> QED  BY <3>1, <3>2 DEF a
  <2>3. Len(t) + 1 \in 0..MaxDepth
    BY <1>1, <1>4
  <2> QED  BY <2>1, <2>2, <2>3 DEF Tile, SeqOf
<1>6. Split(t) \in Seq(Tile) /\ Len(Split(t)) = 4
      /\ \A i \in 1..4 : Split(t)[i] = Append(t, i)
  <2>1. \A i \in 1..4 : Append(t, i) \in Tile
    BY <1>1, <1>5
  <2>2. Split(t) \in [1..4 -> Tile]
    BY <1>3, <2>1
  <2> QED  BY <1>3, <2>2
<1>7. ASSUME NEW x \in Place, InTile(x, t)
      PROVE \E i \in 1..Len(Split(t)) : InTile(x, Split(t)[i])
  <2>1. PICK c \in CellsOf[x] : IsPrefix(t, c)
    BY <1>7 DEF InTile
  <2>2. c \in Seq(Quarter) /\ Len(c) = MaxDepth /\ c[Len(t) + 1] \in Quarter
    <3>1. Len(t) + 1 \in 1..MaxDepth
      BY <1>1, <1>4
    <3> QED  BY <3>1, Cells
  <2> DEFINE q == c[Len(t) + 1]
  <2>3. \A i \in 1..Len(t) : t[i] = c[i]
    BY <1>4, <2>1, <2>2, PrefixIsPointwise
  <2>4. Len(Append(t, q)) <= Len(c)
        /\ \A i \in 1..Len(Append(t, q)) : Append(t, q)[i] = c[i]
    <3>1. /\ Len(Append(t, q)) = Len(t) + 1
          /\ Append(t, q)[Len(t) + 1] = c[Len(t) + 1]
          /\ \A i \in 1..Len(t) : Append(t, q)[i] = t[i]
      BY <1>5, <2>2
    <3> HIDE DEF q
    <3> QED  BY <3>1, <2>2, <2>3, <1>1, <1>4
  <2>5. IsPrefix(Append(t, q), c)
    <3>1. Append(t, q) \in Seq(Quarter)
      BY <1>5, <2>2
    <3> HIDE DEF q
    <3> QED  BY <3>1, <2>2, <2>4, PrefixIsPointwise
  <2>6. q \in 1..4 /\ Split(t)[q] = Append(t, q)
    BY <1>1, <1>6, <2>2
  <2> QED  BY <1>6, <2>1, <2>5, <2>6 DEF InTile
<1> QED  BY <1>6, <1>7

-----------------------------------------------------------------------------
(* Pages *)

\* The contents of a tile are the listed places in it.
LEMMA ContentsFacts ==
  ASSUME NEW L \in SUBSET Place, NEW t
  PROVE  /\ ContentsOf(t, L) \in Seq(Place)
         /\ \A x \in L : InTile(x, t) =>
              \E i \in 1..Len(ContentsOf(t, L)) : ContentsOf(t, L)[i] = x
<1> DEFINE A == {x \in L : InTile(x, t)}
<1>1. Order \in Seq(Place) /\ Range(Order) = Place
  BY DiscoveryAssumption DEF DiscoveryAssumption
<1>2. /\ ContentsOf(t, L) \in Seq(Place)
      /\ \A k \in 1..Len(Order) : Order[k] \in A =>
           \E i \in 1..Len(ContentsOf(t, L)) : ContentsOf(t, L)[i] = Order[k]
  <2>1. ContentsOf(t, L) = Among(Order, A)
    BY DEF ContentsOf
  <2> HIDE DEF A
  <2> QED  BY <1>1, <2>1, AmongSelects
<1>3. ASSUME NEW x \in L, InTile(x, t)
      PROVE \E i \in 1..Len(ContentsOf(t, L)) : ContentsOf(t, L)[i] = x
  <2>1. PICK k \in 1..Len(Order) : Order[k] = x
    BY <1>1 DEF Range
  <2> QED  BY <1>2, <1>3, <2>1
<1> QED  BY <1>2, <1>3

\* A list that grows moves a place of a tile to the same index or a later one.
LEMMA ContentsGrow ==
  ASSUME NEW L \in SUBSET Place, NEW M \in SUBSET Place, L \subseteq M, NEW t
  PROVE  \A i \in 1..Len(ContentsOf(t, L)) :
           \E j \in 1..Len(ContentsOf(t, M)) :
             i <= j /\ ContentsOf(t, M)[j] = ContentsOf(t, L)[i]
<1>1. Order \in Seq(Place)
  BY DiscoveryAssumption DEF DiscoveryAssumption
<1> DEFINE A == {x \in L : InTile(x, t)}  B == {x \in M : InTile(x, t)}
<1>2. A \subseteq B
  OBVIOUS
<1>3. ContentsOf(t, L) = Among(Order, A) /\ ContentsOf(t, M) = Among(Order, B)
  BY DEF ContentsOf
<1> HIDE DEF A, B
<1>4. \A i \in 1..Len(Among(Order, A)) :
        \E j \in 1..Len(Among(Order, B)) :
          i <= j /\ Among(Order, B)[j] = Among(Order, A)[i]
  BY <1>1, <1>2, AmongGrows
<1> QED  BY <1>3, <1>4, Zenon

\* The pages up to n end where page n + 1 begins, and within the last page.
LEMMA PageArithmetic ==
  ASSUME NEW n \in 1..PageLimit
  PROVE  /\ PageSize \in Nat \ {0} /\ PageLimit \in Nat /\ Cap \in Nat
         /\ n * PageSize \in Nat /\ Saturation \in Nat
         /\ (n - 1) * PageSize \in Nat
         /\ (n - 1) * PageSize + PageSize = n * PageSize
         /\ n * PageSize <= Saturation
<1>1. /\ PageSize \in Nat \ {0} /\ PageLimit \in Nat \ {0} /\ Cap \in Nat
      /\ n \in Nat /\ 1 <= n /\ n <= PageLimit
  BY DiscoveryAssumption DEF DiscoveryAssumption
<1>2. \A a, b \in Nat : a * b \in Nat
  OBVIOUS
<1>3. (n - 1) * PageSize + PageSize = n * PageSize
  BY <1>1
<1>4. n * PageSize <= PageLimit * PageSize
  <2>1. PageLimit * PageSize - n * PageSize = (PageLimit - n) * PageSize
    BY <1>1
  <2>2. PageLimit - n \in Nat
    BY <1>1
  <2> QED  BY <1>1, <1>2, <2>1, <2>2
<1>5. Saturation = PageLimit * PageSize
  BY <1>1 DEF Saturation
<1> QED  BY <1>1, <1>2, <1>3, <1>4, <1>5

\* A place behind page n - 1, and not behind the cap, is in page n, or page n
\* is not the last one and the place is behind it.
LEMMA PageCovers ==
  ASSUME listed \subseteq Place, NEW t, NEW n \in 1..PageLimit,
         NEW i \in 1..Len(Contents(t)), i > (n - 1) * PageSize, i <= Cap
  PROVE  \/ \E k \in 1..Len(Documents(t, n)) :
              Documents(t, n)[k] = Contents(t)[i]
         \/ ~IsEnd(t, n) /\ i > n * PageSize
<1> DEFINE c == Contents(t)
           first == (n - 1) * PageSize
           last == n * PageSize
           pageable == Pageable(t)
           end == MinOf(last, pageable)
<1>1. c \in Seq(Place)
  BY ContentsFacts DEF Contents, ContentsOf
<1>2. /\ first \in Nat /\ last \in Nat /\ Cap \in Nat
      /\ first <= last
  BY PageArithmetic
<1>3. /\ Len(c) \in Nat /\ i \in Nat /\ i <= Len(c) /\ i > first
  BY <1>1, <1>2
<1>4. pageable = IF Len(c) < Cap THEN Len(c) ELSE Cap
  BY DEF Pageable, MinOf
<1>5. end = IF last < pageable THEN last ELSE pageable
  BY DEF MinOf
<1>6. IsEnd(t, n) <=> last >= pageable
  BY DEF IsEnd
<1>7. Documents(t, n) = SubSeq(c, first + 1, end)
  BY DEF Documents
<1> HIDE DEF c, first, last, pageable, end
<1>8. CASE i > last
  <2>1. last < pageable
    BY <1>2, <1>3, <1>4, <1>8
  <2> QED  BY <1>6, <1>8, <2>1, <1>2, <1>3, <1>4 DEF last
<1>9. CASE i <= last
  <2>1. i <= end /\ end <= Len(c) /\ end \in Nat
    BY <1>2, <1>3, <1>4, <1>5, <1>9
  <2> DEFINE k == i - first
  <2>2. k \in 1..(end - first) /\ (first + 1) + k - 1 = i
    BY <1>2, <1>3, <2>1
  <2>3. /\ Len(SubSeq(c, first + 1, end)) = end - first
        /\ SubSeq(c, first + 1, end)[k] = c[(first + 1) + k - 1]
    <3>1. first + 1 \in 1..Len(c) + 1 /\ end \in first..Len(c)
      BY <1>2, <1>3, <2>1
    <3> HIDE DEF k
    <3> QED  BY <1>1, <1>2, <2>2, <3>1
  <2> QED  BY <1>7, <2>2, <2>3 DEF c
<1> QED  BY <1>8, <1>9, <1>2, <1>3

-----------------------------------------------------------------------------
(* The invariant *)

Work ==
  [pc : {"idle", "tile", "page", "finish"}, run : Run \cup {NoRun},
   stores : SUBSET StoreId, queue : Seq(Tile), page : 0..PageLimit,
   docs : Seq(Place), end : BOOLEAN, seen : SUBSET Place, final : Closed]

Typed ==
  /\ listed \in SUBSET Place /\ published \in SUBSET StoreId
  /\ run \in [Run -> [status : Closed \cup {"none", "RUNNING"},
                      shown : SUBSET Place]]
  /\ observation \in [Run -> [Key -> Observation]]
  /\ proc \in [Process -> Work]

\* A process works on a run that is RUNNING, and is alone in that.
RunsAreHeld ==
  /\ \A p \in Process : proc[p].pc # "idle" =>
       proc[p].run \in Run /\ run[proc[p].run].status = "RUNNING"
  /\ \A p, q \in Process :
       proc[p].pc # "idle" /\ proc[q].pc # "idle" => p = q

PagesAreOfTiles ==
  \A p \in Process : proc[p].pc = "page" =>
    proc[p].queue # <<>> /\ proc[p].page \in 1..PageLimit

\* While nothing goes away, what was shown is still listed.
ShownIsListed ==
  \A r \in Run : run[r].status = "RUNNING" => run[r].shown \subseteq listed

SeenIsObserved ==
  \A p \in Process : proc[p].pc # "idle" =>
    \A x \in proc[p].seen \cap Approved :
      observation[proc[p].run][KeyOf[x]] # NoObservation

\* A place that the search has seen or will come to: in a tile of the queue,
\* in the page at hand, or behind it in the list L of the tile, where the
\* provider still shows it.
Reaches(w, x, L) ==
  \/ x \in w.seen
  \/ \E i \in 1..Len(w.queue) :
       (i > 1 \/ w.pc = "tile") /\ InTile(x, w.queue[i])
  \/ /\ w.pc = "page"
     /\ \/ \E k \in 1..Len(w.docs) : w.docs[k] = x
        \/ /\ ~w.end
           /\ \E i \in 1..Len(ContentsOf(w.queue[1], L)) :
                /\ i > w.page * PageSize /\ i <= Cap
                /\ ContentsOf(w.queue[1], L)[i] = x

\* Until a tile is given up or an error ends the search, none is forgotten.
NoneForgotten ==
  \A p \in Process : proc[p].pc # "idle" /\ proc[p].final = "COMPLETE" =>
    /\ proc[p].pc # "finish"
    /\ \A x \in run[proc[p].run].shown : Reaches(proc[p], x, listed)

DiscoveryInv ==
  /\ Typed /\ RunsAreHeld /\ PagesAreOfTiles /\ ShownIsListed
  /\ SeenIsObserved /\ NoneForgotten /\ CompleteCoversSeoul

\* The invariant holds at first.
LEMMA InitHolds == Init => DiscoveryInv
<1> SUFFICES ASSUME Init PROVE DiscoveryInv
  OBVIOUS
<1>1. Typed
  <2>1. Idle \in Work /\ Idle.pc = "idle"
    <3>1. MaxDepth \in Nat /\ PageLimit \in Nat
      BY DiscoveryAssumption DEF DiscoveryAssumption
    <3>2. <<>> \in Seq(Tile) /\ <<>> \in Seq(Place) /\ 0 \in 0..PageLimit
      BY <3>1
    <3> QED  BY <3>2 DEF Idle, Work, Closed
  <2>2. AtStart \subseteq Place
    BY DiscoveryAssumption DEF DiscoveryAssumption
  <2> QED  BY <2>1, <2>2 DEF Init, Typed, Observation
<1>2. \A p \in Process : proc[p].pc = "idle"
  BY DEF Init, Idle
<1>3. \A r \in Run : run[r].status = "none"
  BY DEF Init
<1>4. CompleteCoversSeoul
  BY <1>3 DEF CompleteCoversSeoul, Init
<1> QED
  BY <1>1, <1>2, <1>3, <1>4 DEF DiscoveryInv, RunsAreHeld, PagesAreOfTiles,
     ShownIsListed, SeenIsObserved, NoneForgotten

\* A step of one process within its search.
LEMMA SearchStep ==
  ASSUME DiscoveryInv, NEW p \in Process, proc[p].pc # "idle",
         NEW w \in Work, w.pc # "idle", w.run = proc[p].run,
         UNCHANGED <<listed, published, run>>,
         proc' = [proc EXCEPT ![p] = w],
         observation' \in [Run -> [Key -> Observation]],
         \A r \in Run : \A k \in Key :
           observation[r][k] # NoObservation =>
             observation'[r][k] # NoObservation,
         w.pc = "page" => w.queue # <<>> /\ w.page \in 1..PageLimit,
         \A x \in w.seen \cap Approved :
           observation'[w.run][KeyOf[x]] # NoObservation,
         w.final = "COMPLETE" =>
           /\ w.pc # "finish"
           /\ \A x \in run[w.run].shown : Reaches(w, x, listed)
  PROVE  DiscoveryInv'
<1> USE DEF DiscoveryInv
<1>1. \A q \in Process : proc'[q] = IF q = p THEN w ELSE proc[q]
  BY DEF Typed
<1>2. Typed'
  BY <1>1 DEF Typed
<1>3. RunsAreHeld'
  BY <1>1 DEF RunsAreHeld
<1>4. PagesAreOfTiles'
  BY <1>1 DEF PagesAreOfTiles
<1>5. ShownIsListed'
  BY DEF ShownIsListed
<1>6. SeenIsObserved'
  <2> SUFFICES ASSUME NEW q \in Process, proc'[q].pc # "idle",
                      NEW x \in proc'[q].seen \cap Approved
               PROVE  observation'[proc'[q].run][KeyOf[x]] # NoObservation
    BY DEF SeenIsObserved
  <2>1. CASE q = p
    BY <1>1, <2>1
  <2>2. CASE q # p
    <3>1. FALSE
      BY <1>1, <2>2 DEF RunsAreHeld
    <3> QED  BY <3>1
  <2> QED  BY <2>1, <2>2
<1>7. NoneForgotten'
  <2> SUFFICES ASSUME NEW q \in Process, proc'[q].pc # "idle",
                      proc'[q].final = "COMPLETE"
               PROVE  /\ proc'[q].pc # "finish"
                      /\ \A x \in run[proc'[q].run].shown :
                           Reaches(proc'[q], x, listed)
    BY DEF NoneForgotten
  <2>1. q = p
    BY <1>1 DEF RunsAreHeld
  <2> QED  BY <1>1, <2>1
<1>8. CompleteCoversSeoul'
  <2> SUFFICES ASSUME NEW r \in Run, run[r].status = "COMPLETE",
                      NEW x \in run[r].shown \cap Approved
               PROVE  observation'[r][KeyOf[x]] # NoObservation
    BY DEF CompleteCoversSeoul, Typed
  <2>1. KeyOf[x] \in Key
    BY DEF Typed, Key
  <2>2. observation[r][KeyOf[x]] # NoObservation
    BY DEF CompleteCoversSeoul, Typed
  <2> QED  BY <2>1, <2>2
<1> QED  BY <1>2, <1>3, <1>4, <1>5, <1>6, <1>7, <1>8

-----------------------------------------------------------------------------
(* What each step of a search does to the places it reaches *)

\* A tile that is split is reached through its quarters.
LEMMA SplitReaches ==
  ASSUME NEW w \in Work, w.pc = "tile", w.queue # <<>>,
         Len(Head(w.queue)) < MaxDepth,
         NEW v \in Work,
         v = [w EXCEPT !.queue = Tail(w.queue) \o Split(Head(w.queue))],
         NEW L \in SUBSET Place, NEW x \in L, Reaches(w, x, L)
  PROVE  Reaches(v, x, L)
<1> DEFINE q == w.queue  t == Head(w.queue)  s == Split(t)
<1>1. /\ q \in Seq(Tile) /\ t = q[1] /\ t \in Tile
      /\ Len(q) \in Nat /\ Len(q) >= 1
  BY DEF Work
<1>2. /\ s \in Seq(Tile)
      /\ InTile(x, t) => \E i \in 1..Len(s) : InTile(x, s[i])
  BY <1>1, SplitCovers
<1>3. v.queue = Tail(q) \o s /\ v.pc = "tile" /\ v.seen = w.seen
  BY DEF Work
<1> DEFINE u == Tail(q) \o s
<1>4. /\ Len(u) = Len(q) - 1 + Len(s)
      /\ \A i \in 1..Len(q) - 1 : u[i] = q[i + 1]
      /\ \A i \in 1..Len(s) : u[Len(q) - 1 + i] = s[i]
  <2>1. Tail(q) \in Seq(Tile) /\ Len(Tail(q)) = Len(q) - 1
        /\ \A i \in 1..Len(q) - 1 : Tail(q)[i] = q[i + 1]
    BY <1>1
  <2> HIDE DEF q, s
  <2> QED  BY <1>1, <1>2, <2>1
<1> HIDE DEF q, t, s, u
<1>5. CASE x \in w.seen
  BY <1>3, <1>5 DEF Reaches
<1>6. CASE \E i \in 1..Len(q) : InTile(x, q[i])
  <2>1. PICK i \in 1..Len(q) : InTile(x, q[i])
    BY <1>6
  <2>2. \E j \in 1..Len(u) : InTile(x, u[j])
    <3>1. CASE i = 1
      <4>1. PICK j \in 1..Len(s) : InTile(x, s[j])
        BY <1>1, <1>2, <2>1, <3>1
      <4>2. Len(q) - 1 + j \in 1..Len(u) /\ u[Len(q) - 1 + j] = s[j]
        BY <1>1, <1>2, <1>4, <4>1
      <4> QED  BY <4>1, <4>2
    <3>2. CASE i # 1
      <4>1. i - 1 \in 1..Len(q) - 1 /\ i - 1 \in 1..Len(u)
            /\ u[i - 1] = q[(i - 1) + 1] /\ (i - 1) + 1 = i
        BY <1>1, <1>2, <1>4, <3>2
      <4> QED  BY <2>1, <4>1
    <3> QED  BY <3>1, <3>2
  <2> QED  BY <1>3, <2>2 DEF Reaches, u
<1> QED  BY <1>5, <1>6 DEF Reaches, q

\* Behind the last page of a tile nothing is left of it.
LEMMA CloseReaches ==
  ASSUME NEW w \in Work, w.pc = "page", w.queue # <<>>,
         w.docs = <<>>, w.end,
         NEW v \in Work,
         v = [w EXCEPT !.queue = Tail(w.queue), !.pc = "tile"],
         NEW L, NEW x, Reaches(w, x, L)
  PROVE  Reaches(v, x, L)
<1> DEFINE q == w.queue  u == Tail(q)
<1>1. q \in Seq(Tile) /\ Len(q) \in Nat /\ Len(q) >= 1
  BY DEF Work
<1>2. v.queue = u /\ v.pc = "tile" /\ v.seen = w.seen
  BY DEF Work
<1>3. Len(u) = Len(q) - 1 /\ \A i \in 1..Len(q) - 1 : u[i] = q[i + 1]
  <2> HIDE DEF q
  <2> QED  BY <1>1
<1> HIDE DEF q, u
<1>4. CASE x \in w.seen
  BY <1>2, <1>4 DEF Reaches
<1>5. CASE \E i \in 1..Len(q) : i > 1 /\ InTile(x, q[i])
  <2>1. PICK i \in 1..Len(q) : i > 1 /\ InTile(x, q[i])
    BY <1>5
  <2>2. i - 1 \in 1..Len(u) /\ u[i - 1] = q[(i - 1) + 1] /\ (i - 1) + 1 = i
    BY <1>1, <1>3, <2>1
  <2> QED  BY <1>2, <2>1, <2>2 DEF Reaches
<1>6. Len(w.docs) = 0
  OBVIOUS
<1> QED  BY <1>4, <1>5, <1>6 DEF Reaches, q

\* A document that is handled was seen.
LEMMA TakeReaches ==
  ASSUME NEW w \in Work, w.pc = "page", w.docs # <<>>,
         NEW v \in Work,
         v = [w EXCEPT !.docs = Tail(w.docs),
                       !.seen = w.seen \cup {Head(w.docs)}],
         NEW L, NEW x, Reaches(w, x, L)
  PROVE  Reaches(v, x, L)
<1> DEFINE d == w.docs  u == Tail(d)
<1>1. d \in Seq(Place) /\ Len(d) \in Nat /\ Len(d) >= 1 /\ Head(d) = d[1]
  BY DEF Work
<1>2. /\ v.queue = w.queue /\ v.pc = w.pc /\ v.seen = w.seen \cup {Head(d)}
      /\ v.docs = u /\ v.page = w.page /\ v.end = w.end
  BY DEF Work
<1>3. Len(u) = Len(d) - 1 /\ \A i \in 1..Len(d) - 1 : u[i] = d[i + 1]
  <2> HIDE DEF d
  <2> QED  BY <1>1
<1> HIDE DEF d, u
<1>4. CASE \E k \in 1..Len(d) : d[k] = x
  <2>1. PICK k \in 1..Len(d) : d[k] = x
    BY <1>4
  <2>2. CASE k = 1
    BY <1>1, <1>2, <2>1, <2>2 DEF Reaches
  <2>3. CASE k # 1
    <3>1. k - 1 \in 1..Len(u) /\ u[k - 1] = d[(k - 1) + 1] /\ (k - 1) + 1 = k
      BY <1>1, <1>3, <2>1, <2>3
    <3> QED  BY <1>2, <2>1, <3>1 DEF Reaches
  <2> QED  BY <2>2, <2>3
<1>5. CASE ~ \E k \in 1..Len(d) : d[k] = x
  <2>1. ~ \E k \in 1..Len(w.docs) : w.docs[k] = x
    BY <1>5 DEF d
  <2> QED  BY <2>1, <1>2 DEF Reaches
<1> QED  BY <1>4, <1>5

\* From before page n of the first tile to page n of it.
LEMMA PageReaches ==
  ASSUME listed \in SUBSET Place,
         NEW w \in Work, w.queue # <<>>, NEW n \in 1..PageLimit,
         NEW v \in Work,
         v = [w EXCEPT !.pc = "page", !.page = n,
                       !.docs = Documents(Head(w.queue), n),
                       !.end = IsEnd(Head(w.queue), n)],
         \/ w.pc = "tile" /\ n = 1 /\ Len(Contents(Head(w.queue))) <= Cap
         \/ w.pc = "page" /\ n = w.page + 1 /\ w.docs = <<>>,
         NEW x \in listed, Reaches(w, x, listed)
  PROVE  Reaches(v, x, listed)
<1> DEFINE q == w.queue  t == Head(w.queue)
<1>1. q \in Seq(Tile) /\ t = q[1] /\ Len(q) \in Nat /\ Len(q) >= 1
  BY DEF Work
<1>2. /\ v.queue = q /\ v.pc = "page" /\ v.seen = w.seen /\ v.page = n
      /\ v.docs = Documents(t, n) /\ v.end = IsEnd(t, n)
  BY DEF Work
<1>3. Contents(t) = ContentsOf(t, listed)
  BY DEF Contents, ContentsOf
<1>4. CASE x \in w.seen
  BY <1>2, <1>4 DEF Reaches
<1>5. CASE \E i \in 1..Len(q) : i > 1 /\ InTile(x, q[i])
  BY <1>2, <1>5 DEF Reaches
<1>6. CASE \E i \in 1..Len(Contents(t)) :
             i > (n - 1) * PageSize /\ i <= Cap /\ Contents(t)[i] = x
  <2>1. PICK i \in 1..Len(Contents(t)) :
          i > (n - 1) * PageSize /\ i <= Cap /\ Contents(t)[i] = x
    BY <1>6
  <2>2. \/ \E k \in 1..Len(Documents(t, n)) : Documents(t, n)[k] = x
        \/ ~IsEnd(t, n) /\ i > n * PageSize
    BY <2>1, PageCovers
  <2> HIDE DEF t
  <2>3. CASE \E k \in 1..Len(Documents(t, n)) : Documents(t, n)[k] = x
    BY <1>2, <2>3 DEF Reaches
  <2>4. CASE ~IsEnd(t, n) /\ i > n * PageSize
    <3>1. ~v.end /\ i > v.page * PageSize /\ i <= Cap
      BY <1>2, <2>1, <2>4
    <3>2. v.queue[1] = t
      BY <1>1, <1>2
    <3> QED  BY <1>2, <1>3, <2>1, <3>1, <3>2 DEF Reaches
  <2> QED  BY <2>2, <2>3, <2>4
<1>7. CASE /\ w.pc = "tile" /\ n = 1 /\ Len(Contents(t)) <= Cap
           /\ \E i \in 1..Len(q) : InTile(x, q[i])
  <2>1. PICK i \in 1..Len(q) : InTile(x, q[i])
    BY <1>7
  <2>2. CASE i > 1
    BY <1>5, <2>1, <2>2
  <2>3. CASE i = 1
    <3>1. PICK j \in 1..Len(Contents(t)) : Contents(t)[j] = x
      BY <1>1, <1>3, <2>1, <2>3, ContentsFacts
    <3>2. j \in Nat /\ j > 0 /\ j <= Cap
      <4>1. Len(Contents(t)) \in Nat /\ Cap \in Nat
        BY <1>3, ContentsFacts, DiscoveryAssumption DEF DiscoveryAssumption
      <4> HIDE DEF t
      <4> QED  BY <1>7, <3>1, <4>1
    <3>3. (n - 1) * PageSize = 0
      <4>1. PageSize \in Nat
        BY DiscoveryAssumption DEF DiscoveryAssumption
      <4> QED  BY <1>7, <4>1
    <3> QED  BY <1>6, <3>1, <3>2, <3>3
  <2> QED  BY <2>1, <2>2, <2>3
<1>8. CASE w.pc = "page" /\ n = w.page + 1 /\ w.docs = <<>>
  <2>1. Len(w.docs) = 0
    BY <1>8
  <2>2. \A i : i > w.page * PageSize => i > (n - 1) * PageSize
    <3>1. n - 1 = w.page
      BY <1>8 DEF Work
    <3> QED  BY <3>1
  <2>3. \/ x \in w.seen
        \/ \E i \in 1..Len(q) : i > 1 /\ InTile(x, q[i])
        \/ \E i \in 1..Len(ContentsOf(t, listed)) :
             /\ i > w.page * PageSize /\ i <= Cap
             /\ ContentsOf(t, listed)[i] = x
    BY <1>1, <1>8, <2>1 DEF Reaches
  <2> QED  BY <1>3, <1>4, <1>5, <1>6, <2>2, <2>3
<1> QED  BY <1>4, <1>7, <1>8 DEF Reaches

\* A list that grows takes no place out of reach, unless it pushes the place
\* out of the tile at hand.
LEMMA GrowthReaches ==
  ASSUME NEW w \in Work, NEW L \in SUBSET Place, NEW M \in SUBSET Place,
         L \subseteq M, NEW x, Reaches(w, x, L),
         w.pc = "page" /\ ~w.end =>
           \A j \in Cap + 1..Len(ContentsOf(w.queue[1], M)) :
             ContentsOf(w.queue[1], M)[j] # x
  PROVE  Reaches(w, x, M)
<1> DEFINE t == w.queue[1]  e == w.page * PageSize
<1>1. CASE w.pc = "page" /\ ~w.end /\ \E i \in 1..Len(ContentsOf(t, L)) :
             i > e /\ i <= Cap /\ ContentsOf(t, L)[i] = x
  <2>1. PICK i \in 1..Len(ContentsOf(t, L)) :
          i > e /\ ContentsOf(t, L)[i] = x
    BY <1>1
  <2>2. PICK j \in 1..Len(ContentsOf(t, M)) :
          i <= j /\ ContentsOf(t, M)[j] = ContentsOf(t, L)[i]
    BY ContentsGrow
  <2>3. e \in Nat
    <3>1. PageSize \in Nat /\ PageLimit \in Nat
      BY DiscoveryAssumption DEF DiscoveryAssumption
    <3>2. w.page \in Nat
      BY <3>1 DEF Work
    <3> QED  BY <3>1, <3>2
  <2>4. j > e
    <3> HIDE DEF e
    <3> QED  BY <2>1, <2>2, <2>3
  <2>5. j \in 1..Len(ContentsOf(t, M)) /\ j > e /\ ContentsOf(t, M)[j] = x
    BY <2>1, <2>2, <2>4
  <2>6. j <= Cap
    <3>1. Cap \in Nat /\ Len(ContentsOf(t, M)) \in Nat
      BY ContentsFacts, DiscoveryAssumption DEF DiscoveryAssumption
    <3>2. j \notin Cap + 1..Len(ContentsOf(t, M))
      BY <1>1, <2>5
    <3> HIDE DEF t, e
    <3> QED  BY <2>5, <3>1, <3>2
  <2> QED  BY <1>1, <2>5, <2>6 DEF Reaches
<1>2. CASE ~ (w.pc = "page" /\ ~w.end /\ \E i \in 1..Len(ContentsOf(t, L)) :
               i > e /\ i <= Cap /\ ContentsOf(t, L)[i] = x)
  BY <1>2 DEF Reaches
<1> QED  BY <1>1, <1>2

-----------------------------------------------------------------------------
(* One lemma for each group of actions *)

\* What the invariant says of one process inside a search.
LEMMA WorkFacts ==
  ASSUME DiscoveryInv, NEW p \in Process
  PROVE  /\ proc[p] \in Work /\ listed \in SUBSET Place
         /\ observation \in [Run -> [Key -> Observation]]
         /\ proc[p].pc # "idle" =>
              /\ proc[p].run \in Run
              /\ run[proc[p].run].shown \subseteq listed
              /\ \A x \in proc[p].seen \cap Approved :
                   observation[proc[p].run][KeyOf[x]] # NoObservation
              /\ proc[p].final = "COMPLETE" =>
                   /\ proc[p].pc # "finish"
                   /\ \A x \in run[proc[p].run].shown :
                        Reaches(proc[p], x, listed)
         /\ proc[p].pc = "page" =>
              proc[p].queue # <<>> /\ proc[p].page \in 1..PageLimit
BY DEF DiscoveryInv, Typed, RunsAreHeld, PagesAreOfTiles, ShownIsListed,
   SeenIsObserved, NoneForgotten

\* A split keeps the invariant.
LEMMA SplitTileHolds ==
  ASSUME DiscoveryInv, NEW p \in Process, SplitTile(p)
  PROVE  DiscoveryInv'
<1> DEFINE w == proc[p]
           v == [w EXCEPT !.queue = Tail(w.queue) \o Split(Head(w.queue))]
<1>1. /\ w \in Work /\ w.pc = "tile" /\ w.queue # <<>>
      /\ Len(Head(w.queue)) < MaxDepth
      /\ proc' = [proc EXCEPT ![p] = v]
      /\ UNCHANGED <<listed, published, run, observation>>
  BY WorkFacts DEF SplitTile, DiscoveryInv, Typed
<1>2. v \in Work /\ v.pc = "tile" /\ v.run = w.run /\ v.seen = w.seen
      /\ v.final = w.final
  <2>1. Head(w.queue) \in Tile /\ Tail(w.queue) \in Seq(Tile)
    BY <1>1 DEF Work
  <2>2. Split(Head(w.queue)) \in Seq(Tile)
    BY <1>1, <2>1, SplitCovers
  <2>3. Tail(w.queue) \o Split(Head(w.queue)) \in Seq(Tile)
    BY <2>1, <2>2
  <2> QED  BY <1>1, <2>3 DEF Work
<1>3. ASSUME NEW x \in listed, Reaches(w, x, listed)
      PROVE  Reaches(v, x, listed)
  BY <1>1, <1>2, <1>3, WorkFacts, SplitReaches
<1> HIDE DEF v
<1> QED  BY <1>1, <1>2, <1>3, WorkFacts, SearchStep

\* A tile given up, at its first page or at its last keeps the invariant.
LEMMA GivenUpHolds ==
  ASSUME DiscoveryInv, NEW p \in Process, proc[p].pc \in {"tile", "page"},
         proc[p].queue # <<>>,
         proc' = [proc EXCEPT ![p] = [GiveUp(proc[p]) EXCEPT !.pc = "tile"]],
         UNCHANGED <<listed, published, run, finished, observation, review>>
  PROVE  DiscoveryInv'
<1> DEFINE w == proc[p]  v == [GiveUp(w) EXCEPT !.pc = "tile"]
<1>1. w \in Work
  BY WorkFacts
<1>2. v \in Work /\ v.pc = "tile" /\ v.run = w.run /\ v.seen = w.seen
      /\ v.final = "PARTIAL"
  <2>1. Tail(w.queue) \in Seq(Tile)
    BY <1>1 DEF Work
  <2> QED  BY <1>1, <2>1 DEF Work, GiveUp, Closed
<1> HIDE DEF v
<1> QED  BY <1>1, <1>2, WorkFacts, SearchStep DEF v

\* GiveUpTile keeps the invariant.
LEMMA GiveUpTileHolds ==
  ASSUME DiscoveryInv, NEW p \in Process, GiveUpTile(p)
  PROVE  DiscoveryInv'
<1>1. proc[p] \in Work /\ p \in DOMAIN proc
  BY WorkFacts DEF DiscoveryInv, Typed
<1>2. /\ proc[p].pc = "tile" /\ proc[p].queue # <<>>
      /\ proc' = [proc EXCEPT ![p] = GiveUp(proc[p])]
      /\ UNCHANGED <<listed, published, run, finished, observation, review>>
  BY <1>1 DEF GiveUpTile
<1>3. GiveUp(proc[p]) = [GiveUp(proc[p]) EXCEPT !.pc = "tile"]
  BY <1>1, <1>2 DEF GiveUp, Work
<1> QED  BY <1>2, <1>3, GivenUpHolds

\* A page that is read keeps the invariant.
LEMMA PageHolds ==
  ASSUME DiscoveryInv, NEW p \in Process,
         NEW n \in 1..PageLimit, AwaitPage(p, n), proc[p].queue # <<>>,
         \/ /\ proc[p].pc = "tile" /\ n = 1
            /\ Len(Contents(Head(proc[p].queue))) <= Cap
         \/ proc[p].pc = "page" /\ n = proc[p].page + 1 /\ proc[p].docs = <<>>
  PROVE  DiscoveryInv'
<1> DEFINE w == proc[p]
           v == [w EXCEPT !.pc = "page", !.page = n,
                          !.docs = Documents(Head(w.queue), n),
                          !.end = IsEnd(Head(w.queue), n)]
<1>1. /\ w \in Work /\ w.pc # "idle"
      /\ proc' = [proc EXCEPT ![p] = v]
      /\ UNCHANGED <<listed, published, run, observation>>
  BY WorkFacts DEF AwaitPage, DiscoveryInv, Typed
<1>2. v \in Work /\ v.pc = "page" /\ v.run = w.run /\ v.seen = w.seen
      /\ v.final = w.final /\ v.queue = w.queue /\ v.page = n
  <2>1. n \in 0..PageLimit
    BY DiscoveryAssumption DEF DiscoveryAssumption
  <2>2. Documents(Head(w.queue), n) \in Seq(Place)
    <3> DEFINE c == Contents(Head(w.queue))
    <3>1. c \in Seq(Place)
      BY WorkFacts, ContentsFacts DEF Contents, ContentsOf
    <3>2. /\ (n - 1) * PageSize \in Nat /\ n * PageSize \in Nat
          /\ Cap \in Nat
      BY PageArithmetic
    <3>3. MinOf(n * PageSize, Pageable(Head(w.queue))) \in Nat
          /\ MinOf(n * PageSize, Pageable(Head(w.queue))) <= Len(c)
      BY <3>1, <3>2 DEF MinOf, Pageable
    <3> DEFINE a == (n - 1) * PageSize + 1
               b == MinOf(n * PageSize, Pageable(Head(w.queue)))
    <3>4. a \in Nat /\ a >= 1 /\ b \in Nat /\ b <= Len(c)
      BY <3>2, <3>3
    <3>5. SubSeq(c, a, b) \in Seq(Place)
      <4> HIDE DEF a, b, c
      <4> QED  BY <3>1, <3>4
    <3> QED  BY <3>5 DEF Documents
  <2>3. IsEnd(Head(w.queue), n) \in BOOLEAN
    BY DEF IsEnd
  <2> QED  BY <1>1, <2>1, <2>2, <2>3 DEF Work
<1>3. ASSUME NEW x \in listed, Reaches(w, x, listed)
      PROVE  Reaches(v, x, listed)
  BY <1>1, <1>2, <1>3, WorkFacts, PageReaches
<1> HIDE DEF v
<1> QED  BY <1>1, <1>2, <1>3, WorkFacts, SearchStep

\* The provider shows all the places of a tile that is not saturated.
LEMMA UnsaturatedFits ==
  ASSUME listed \in SUBSET Place, NEW t, ~Saturated(t)
  PROVE  Len(Contents(t)) <= Cap
<1>1. /\ PageSize \in Nat \ {0} /\ PageLimit \in Nat \ {0, 1}
      /\ Cap \in Nat /\ Cap >= Saturation
  BY DiscoveryAssumption DEF DiscoveryAssumption
<1>2. Len(Contents(t)) \in Nat
  BY ContentsFacts DEF Contents, ContentsOf
<1>3. Saturation \in Nat /\ PageSize < Saturation
  <2>1. PageLimit - 1 \in Nat /\ PageLimit - 1 >= 1
    BY <1>1
  <2>2. Saturation = PageSize * (PageLimit - 1) + PageSize
    BY <1>1 DEF Saturation
  <2>3. PageSize * (PageLimit - 1) >= PageSize
    <3>1. \A a \in Nat, b \in Nat : b >= 1 => a * b >= a
      OBVIOUS
    <3> QED  BY <1>1, <2>1, <3>1
  <2>4. PageSize * (PageLimit - 1) \in Nat
    BY <1>1, <2>1
  <2> HIDE DEF Saturation
  <2> QED  BY <1>1, <2>2, <2>3, <2>4
<1>4. Pageable(t) = IF Len(Contents(t)) < Cap THEN Len(Contents(t)) ELSE Cap
  BY DEF Pageable, MinOf
<1>5. Pageable(t) < Saturation \/ PageSize >= Pageable(t)
  <2>1. 1 * PageSize = PageSize
    BY <1>1
  <2>2. Pageable(t) \in Nat
    BY <1>1, <1>2, <1>4
  <2>3. ~(Pageable(t) >= Saturation) \/ PageSize >= Pageable(t)
    BY <2>1 DEF Saturated, IsEnd
  <2> HIDE DEF Saturation
  <2> QED  BY <1>3, <2>2, <2>3
<1> HIDE DEF Saturation
<1> QED  BY <1>1, <1>2, <1>3, <1>4, <1>5

\* OpenTile keeps the invariant.
LEMMA OpenTileHolds ==
  ASSUME DiscoveryInv, NEW p \in Process, OpenTile(p)
  PROVE  DiscoveryInv'
<1>1. 1 \in 1..PageLimit
  BY DiscoveryAssumption DEF DiscoveryAssumption
<1>2. Len(Contents(Head(proc[p].queue))) <= Cap
  BY WorkFacts, UnsaturatedFits DEF OpenTile
<1> QED  BY <1>1, <1>2, PageHolds DEF OpenTile

\* ReadNextPage keeps the invariant.
LEMMA ReadNextPageHolds ==
  ASSUME DiscoveryInv, NEW p \in Process, ReadNextPage(p)
  PROVE  DiscoveryInv'
<1>1. /\ proc[p].pc = "page" /\ proc[p].page < PageLimit
      /\ proc[p].page \in 1..PageLimit /\ proc[p].queue # <<>>
  BY WorkFacts DEF ReadNextPage
<1>2. proc[p].page + 1 \in 1..PageLimit
  <2>1. PageLimit \in Nat
    BY DiscoveryAssumption DEF DiscoveryAssumption
  <2> QED  BY <1>1, <2>1
<1> QED  BY <1>1, <1>2, PageHolds DEF ReadNextPage

\* CloseTile keeps the invariant.
LEMMA CloseTileHolds ==
  ASSUME DiscoveryInv, NEW p \in Process, CloseTile(p)
  PROVE  DiscoveryInv'
<1> DEFINE w == proc[p]
           v == [w EXCEPT !.queue = Tail(w.queue), !.pc = "tile"]
<1>1. /\ w \in Work /\ p \in DOMAIN proc
      /\ w.pc = "page" /\ w.queue # <<>> /\ w.docs = <<>>
      /\ UNCHANGED <<listed, published, run, finished, observation, review>>
  BY WorkFacts DEF CloseTile, DiscoveryInv, Typed
<1>2. CASE ~w.end
  <2>1. proc' = [proc EXCEPT ![p] = [GiveUp(w) EXCEPT !.pc = "tile"]]
    BY <1>1, <1>2 DEF CloseTile
  <2> QED  BY <1>1, <2>1, GivenUpHolds
<1>3. CASE w.end
  <2>1. proc' = [proc EXCEPT ![p] = v]
    BY <1>1, <1>3 DEF CloseTile
  <2>2. v \in Work /\ v.pc = "tile" /\ v.run = w.run /\ v.seen = w.seen
        /\ v.final = w.final
    <3>1. Tail(w.queue) \in Seq(Tile)
      BY <1>1 DEF Work
    <3> QED  BY <1>1, <3>1 DEF Work
  <2>3. ASSUME NEW x \in listed, Reaches(w, x, listed)
        PROVE  Reaches(v, x, listed)
    BY <1>1, <1>3, <2>2, <2>3, CloseReaches
  <2> HIDE DEF v
  <2> QED  BY <1>1, <2>1, <2>2, <2>3, WorkFacts, SearchStep
<1> QED  BY <1>2, <1>3

\* A document that is skipped or observed keeps the invariant.
LEMMA DocumentHolds ==
  ASSUME DiscoveryInv, NEW p \in Process, SkipDocument(p) \/ Observe(p)
  PROVE  DiscoveryInv'
<1> DEFINE w == proc[p]  x == Head(w.docs)
           v == [w EXCEPT !.docs = Tail(w.docs), !.seen = w.seen \cup {x}]
           o == [place |-> x, status |-> MatchOf(x, w.stores)]
<1>1. /\ w \in Work /\ w.pc = "page" /\ w.docs # <<>> /\ w.run \in Run
      /\ proc' = [proc EXCEPT ![p] = v]
      /\ UNCHANGED <<listed, published, run>>
  BY WorkFacts DEF SkipDocument, Observe, DiscoveryInv, Typed
<1>2. v \in Work /\ v.pc = "page" /\ v.run = w.run
      /\ v.seen = w.seen \cup {x} /\ v.final = w.final
      /\ v.queue = w.queue /\ v.page = w.page /\ x \in Place
  <2>1. x \in Place /\ Tail(w.docs) \in Seq(Place)
    BY <1>1 DEF Work
  <2> QED  BY <1>1, <2>1 DEF Work
<1>3. o \in Observation /\ o # NoObservation
  <2>1. MatchOf(x, w.stores) \in
          {"MATCHED_ELIGIBLE", "MATCHED_EXCLUDED", "UNMATCHED"}
    BY DEF MatchOf
  <2>2. "none" \notin Place
    BY DiscoveryAssumption DEF DiscoveryAssumption
  <2>3. o.place = x /\ NoObservation.place = "none"
    BY DEF NoObservation
  <2> QED  BY <1>2, <2>1, <2>2, <2>3 DEF Observation
<1>4. /\ observation' \in [Run -> [Key -> Observation]]
      /\ \A r \in Run : \A k \in Key : observation[r][k] # NoObservation =>
           observation'[r][k] # NoObservation
      /\ x \in Approved => x \in w.seen
           \/ observation'[w.run][KeyOf[x]] # NoObservation
  <2>1. observation \in [Run -> [Key -> Observation]] /\ KeyOf[x] \in Key
    BY <1>2, WorkFacts DEF Key
  <2>2. CASE SkipDocument(p)
    BY <2>1, <2>2 DEF SkipDocument
  <2>3. CASE Observe(p)
    <3>1. observation' = [observation EXCEPT ![w.run][KeyOf[x]] =
                            IF @ # NoObservation THEN @ ELSE o]
      BY <2>3 DEF Observe
    <3> HIDE DEF o, x, w
    <3> QED  BY <1>1, <1>3, <2>1, <3>1
  <2> QED  BY <2>2, <2>3
<1>5. ASSUME NEW y \in listed, Reaches(w, y, listed)
      PROVE  Reaches(v, y, listed)
  BY <1>1, <1>2, <1>5, TakeReaches
<1>6. \A y \in v.seen \cap Approved :
        observation'[v.run][KeyOf[y]] # NoObservation
  <2> SUFFICES ASSUME NEW y \in v.seen \cap Approved
               PROVE  observation'[v.run][KeyOf[y]] # NoObservation
    OBVIOUS
  <2>1. CASE y \in w.seen
    <3>1. observation[w.run][KeyOf[y]] # NoObservation
      BY <1>1, <2>1, WorkFacts
    <3>2. y \in Place /\ KeyOf[y] \in Key
      BY <1>1, <2>1 DEF Work, Key
    <3> HIDE DEF v, o
    <3> QED  BY <1>1, <1>2, <1>4, <3>1, <3>2
  <2>2. CASE y \notin w.seen
    <3>1. y = x
      BY <1>2, <2>2
    <3> HIDE DEF v, o
    <3> QED  BY <1>2, <1>4, <2>2, <3>1
  <2> QED  BY <2>1, <2>2
<1> HIDE DEF v, o, x
<1> QED  BY <1>1, <1>2, <1>4, <1>5, <1>6, WorkFacts, SearchStep

\* An error keeps the invariant.
LEMMA FailureHolds ==
  ASSUME DiscoveryInv, NEW p \in Process, SearchFails(p) \/ ProjectionFails(p)
  PROVE  DiscoveryInv'
<1> DEFINE w == proc[p]
           v(e) == [w EXCEPT !.pc = "finish", !.final = FinalStatus(e)]
<1>1. w \in Work
  BY WorkFacts
<1>2. PICK e \in {"ACCESS", "NETWORK", "OTHER"} :
        /\ w.pc # "idle"
        /\ proc' = [proc EXCEPT ![p] = v(e)]
        /\ UNCHANGED <<listed, published, run, observation>>
  <2>1. CASE SearchFails(p)
    <3>1. Failures \ {"CRASH"} \subseteq {"ACCESS", "NETWORK", "OTHER"}
      BY DiscoveryAssumption DEF DiscoveryAssumption
    <3> QED  BY <1>1, <2>1, <3>1 DEF SearchFails
  <2>2. CASE ProjectionFails(p)
    BY <1>1, <2>2 DEF ProjectionFails
  <2> QED  BY <2>1, <2>2
<1>3. FinalStatus(e) \in Closed \ {"COMPLETE"}
  BY DEF FinalStatus, Closed
<1>4. v(e) \in Work /\ v(e).pc = "finish" /\ v(e).run = w.run
      /\ v(e).seen = w.seen /\ v(e).final # "COMPLETE"
  BY <1>1, <1>3 DEF Work
<1> HIDE DEF v
<1> QED  BY <1>1, <1>2, <1>4, WorkFacts, SearchStep

\* Finish keeps the invariant.
LEMMA FinishHolds ==
  ASSUME DiscoveryInv, NEW p \in Process, Finish(p)
  PROVE  DiscoveryInv'
<1> USE DEF DiscoveryInv
<1> DEFINE w == proc[p]
<1>1. /\ w \in Work /\ w.pc # "idle" /\ w.run \in Run
      /\ run[w.run].status = "RUNNING"
      /\ w.final = "COMPLETE" => w.pc = "tile" /\ w.queue = <<>>
      /\ run' = [run EXCEPT ![w.run].status = w.final]
      /\ proc' = [proc EXCEPT ![p] = Idle]
      /\ UNCHANGED <<listed, published, observation>>
  BY WorkFacts DEF Finish, RunsAreHeld
<1>2. Idle \in Work /\ Idle.pc = "idle" /\ w.final \in Closed
      /\ "RUNNING" \notin Closed
  <2>1. PageLimit \in Nat /\ 0 \in 0..PageLimit
    BY DiscoveryAssumption DEF DiscoveryAssumption
  <2> QED  BY <1>1, <2>1 DEF Idle, Work, Closed
<1>3. Typed'
  BY <1>1, <1>2 DEF Typed
<1>4. \A q \in Process : q # p => proc[q].pc = "idle"
  BY <1>1 DEF RunsAreHeld
<1>5. \A q \in Process : proc'[q].pc = "idle"
  BY <1>1, <1>2, <1>4 DEF Typed
<1>6. \A r \in Run :
        /\ r # w.run => run'[r] = run[r]
        /\ run'[w.run].status = w.final /\ run'[w.run].shown = run[w.run].shown
  BY <1>1 DEF Typed
<1>7. ShownIsListed'
  BY <1>1, <1>2, <1>6 DEF ShownIsListed
<1>8. CompleteCoversSeoul'
  <2> SUFFICES ASSUME NEW r \in Run, run'[r].status = "COMPLETE",
                      NEW x \in run'[r].shown \cap Approved
               PROVE  observation[r][KeyOf[x]] # NoObservation
    BY <1>1, <1>3 DEF CompleteCoversSeoul, Typed
  <2>1. CASE r # w.run
    BY <1>6, <2>1 DEF CompleteCoversSeoul, Typed
  <2>2. CASE r = w.run
    <3>1. w.final = "COMPLETE" /\ x \in run[r].shown
      BY <1>6, <2>2
    <3>2. w.pc = "tile" /\ w.queue = <<>> /\ Len(w.queue) = 0
      BY <1>1, <3>1
    <3>3. Reaches(w, x, listed)
      BY <1>1, <2>2, <3>1, WorkFacts
    <3>4. x \in w.seen
      BY <3>2, <3>3 DEF Reaches
    <3> QED  BY <1>1, <2>2, <3>4, WorkFacts
  <2> QED  BY <2>1, <2>2
<1> QED
  BY <1>3, <1>5, <1>7, <1>8 DEF RunsAreHeld, PagesAreOfTiles, SeenIsObserved,
     NoneForgotten

\* Crash keeps the invariant.
LEMMA CrashHolds ==
  ASSUME DiscoveryInv, NEW p \in Process, Crash(p)
  PROVE  DiscoveryInv'
<1> USE DEF DiscoveryInv
<1>1. Idle \in Work /\ Idle.pc = "idle"
  <2>1. PageLimit \in Nat /\ 0 \in 0..PageLimit
    BY DiscoveryAssumption DEF DiscoveryAssumption
  <2> QED  BY <2>1 DEF Idle, Work, Closed
<1>2. /\ proc' = [proc EXCEPT ![p] = Idle] /\ proc[p].pc # "idle"
      /\ UNCHANGED <<listed, published, run, observation>>
  BY DEF Crash
<1>3. Typed'
  BY <1>1, <1>2 DEF Typed
<1>4. \A q \in Process : proc'[q].pc = "idle"
  BY <1>1, <1>2 DEF Typed, RunsAreHeld
<1>5. ShownIsListed' /\ CompleteCoversSeoul'
  BY <1>2 DEF ShownIsListed, CompleteCoversSeoul
<1> QED
  BY <1>3, <1>4, <1>5 DEF RunsAreHeld, PagesAreOfTiles, SeenIsObserved,
     NoneForgotten

\* Start keeps the invariant.
LEMMA StartHolds ==
  ASSUME DiscoveryInv, NEW p \in Process, NEW r \in Run, Start(p, r)
  PROVE  DiscoveryInv'
<1> USE DEF DiscoveryInv
<1> DEFINE w == [Idle EXCEPT !.pc = "tile", !.run = r, !.stores = published,
                             !.queue = << <<>> >>]
<1>1. /\ run' = [run EXCEPT ![r] = [status |-> "RUNNING", shown |-> listed]]
      /\ proc' = [proc EXCEPT ![p] = w]
      /\ run[r].status = "none"
      /\ \A s \in Run : run[s].status # "RUNNING"
      /\ UNCHANGED <<listed, published, observation>>
  BY DEF Start, New, SlotFree
<1>2. /\ w \in Work /\ w.pc = "tile" /\ w.run = r /\ w.seen = {}
      /\ w.queue = << <<>> >>
  <2>1. PageLimit \in Nat /\ 0 \in 0..PageLimit
    BY DiscoveryAssumption DEF DiscoveryAssumption
  <2>2. PICK q \in Seq(Tile) : q = << <<>> >>
    <3>1. << <<>> >> \in Seq(Tile)
      BY RootCovers
    <3> QED  BY <3>1, Zenon
  <2>3. Idle \in Work
    BY <2>1 DEF Idle, Work, Closed
  <2>4. w = [Idle EXCEPT !.pc = "tile", !.run = r, !.stores = published,
                         !.queue = q]
        /\ Idle.seen = {}
    BY <2>2 DEF Idle
  <2>5. published \in SUBSET StoreId
    BY DEF Typed
  <2> HIDE DEF w
  <2>6. w \in Work /\ w.pc = "tile" /\ w.run = r /\ w.seen = {} /\ w.queue = q
    BY <2>3, <2>4, <2>5 DEF Work
  <2> QED  BY <2>2, <2>6
<1>3. \A q \in Process : proc[q].pc = "idle"
  BY <1>1 DEF RunsAreHeld
<1>4. ASSUME NEW x \in listed PROVE Reaches(w, x, listed)
  <2>1. x \in Place /\ InTile(x, <<>>)
    BY RootCovers DEF Typed
  <2>2. 1 \in 1..Len(w.queue) /\ w.queue[1] = <<>>
    BY <1>2
  <2> HIDE DEF w
  <2> QED  BY <1>2, <2>1, <2>2 DEF Reaches
<1> HIDE DEF w
<1>5. Typed'
  BY <1>1, <1>2 DEF Typed
<1>6. \A q \in Process : proc'[q] = IF q = p THEN w ELSE proc[q]
  BY <1>1 DEF Typed
<1>7. \A s \in Run : run'[s] = IF s = r
                             THEN [status |-> "RUNNING", shown |-> listed]
                             ELSE run[s]
  BY <1>1 DEF Typed
<1>8. RunsAreHeld' /\ PagesAreOfTiles' /\ ShownIsListed' /\ SeenIsObserved'
  BY <1>1, <1>2, <1>3, <1>6, <1>7
     DEF RunsAreHeld, PagesAreOfTiles, ShownIsListed, SeenIsObserved
<1>9. NoneForgotten'
  BY <1>1, <1>2, <1>3, <1>4, <1>6, <1>7 DEF NoneForgotten
<1>10. CompleteCoversSeoul'
  <2> SUFFICES ASSUME NEW s \in Run, run'[s].status = "COMPLETE",
                      NEW x \in run'[s].shown \cap Approved
               PROVE  observation[s][KeyOf[x]] # NoObservation
    BY <1>1, <1>5 DEF CompleteCoversSeoul, Typed
  <2>1. s # r
    BY <1>7
  <2> QED  BY <1>7, <2>1 DEF CompleteCoversSeoul, Typed
<1> QED  BY <1>5, <1>8, <1>9, <1>10

\* Appear keeps the invariant.
LEMMA AppearHolds ==
  ASSUME DiscoveryInv, NEW x \in Place, Appear(x)
  PROVE  DiscoveryInv'
<1> USE DEF DiscoveryInv
<1> DEFINE Lost(r) ==
      UNION {PushedOut(p, listed') : p \in {q \in Process :
                                           proc[q].run = r}}
<1>1. /\ listed' = listed \cup {x} /\ listed \in SUBSET Place
      /\ listed' \in SUBSET Place /\ listed \subseteq listed'
      /\ UNCHANGED <<published, observation, proc>>
  BY DEF Appear, Typed
<1>2. \A r \in Run : /\ run'[r].status = run[r].status
                     /\ run'[r].shown = run[r].shown \ Lost(r)
                     /\ run'[r] = [run[r] EXCEPT !.shown = @ \ Lost(r)]
  BY DEF Appear, Typed
<1>3. Typed'
  <2>1. run' = [r \in Run |-> [run[r] EXCEPT !.shown = @ \ Lost(r)]]
    BY DEF Appear
  <2> HIDE DEF Lost
  <2> QED  BY <1>1, <2>1 DEF Typed
<1>4. RunsAreHeld' /\ PagesAreOfTiles' /\ ShownIsListed'
      /\ SeenIsObserved' /\ CompleteCoversSeoul'
  <2> HIDE DEF Lost
  <2> QED  BY <1>1, <1>2, <1>3 DEF Typed, RunsAreHeld, PagesAreOfTiles,
              ShownIsListed, SeenIsObserved, CompleteCoversSeoul
<1>5. NoneForgotten'
  <2> SUFFICES ASSUME NEW p \in Process, proc[p].pc # "idle",
                      proc[p].final = "COMPLETE"
               PROVE  /\ proc[p].pc # "finish"
                      /\ \A y \in run'[proc[p].run].shown :
                           Reaches(proc[p], y, listed')
    BY <1>1 DEF NoneForgotten
  <2> DEFINE w == proc[p]  c == ContentsOf(w.queue[1], listed')
  <2>1. w \in Work /\ w.run \in Run /\ w.pc # "finish"
    BY WorkFacts
  <2>2. ASSUME NEW y \in run'[w.run].shown
        PROVE  Reaches(w, y, listed')
    <3>1. y \in run[w.run].shown /\ y \notin PushedOut(p, listed')
      <4>1. y \in run[w.run].shown /\ y \notin Lost(w.run)
        <5> HIDE DEF Lost
        <5> QED  BY <1>2, <2>1, <2>2
      <4> QED  BY <4>1
    <3>2. Reaches(w, y, listed)
      BY <3>1, WorkFacts
    <3>3. ASSUME w.pc = "page", ~w.end, NEW j \in Cap + 1..Len(c)
          PROVE  c[j] # y
      <4>1. w.queue # <<>> /\ w.queue \in Seq(Tile)
        BY <2>1, <3>3, WorkFacts DEF Work
      <4>2. Head(w.queue) = w.queue[1]
        BY <4>1
      <4>3. PushedOut(p, listed') = {c[i] : i \in Cap + 1..Len(c)}
        BY <3>3, <4>2 DEF PushedOut
      <4> HIDE DEF c
      <4> QED  BY <3>1, <3>3, <4>3
    <3>4. listed \in SUBSET Place /\ listed' \in SUBSET Place
          /\ listed \subseteq listed'
      BY <1>1
    <3> HIDE DEF w
    <3> QED  BY <2>1, <3>2, <3>3, <3>4, GrowthReaches
  <2> QED  BY <2>1, <2>2
<1> QED  BY <1>3, <1>4, <1>5

\* Vanish keeps the invariant.
LEMMA VanishHolds ==
  ASSUME DiscoveryInv, NEW x \in Place, Vanish(x)
  PROVE  DiscoveryInv'
<1> USE DEF DiscoveryInv
<1>1. /\ listed' = listed \ {x}
      /\ run' = [r \in Run |-> IF run[r].status = "RUNNING"
                               THEN [run[r] EXCEPT !.shown = {}]
                               ELSE run[r]]
      /\ UNCHANGED <<published, observation, proc>>
  BY DEF Vanish
<1>2. \A r \in Run :
        /\ run'[r].status = run[r].status
        /\ run[r].status = "RUNNING" => run'[r].shown = {}
        /\ run[r].status # "RUNNING" => run'[r].shown = run[r].shown
  BY <1>1 DEF Typed
<1>3. Typed'
  BY <1>1 DEF Typed
<1>4. RunsAreHeld' /\ PagesAreOfTiles' /\ ShownIsListed' /\ SeenIsObserved'
  BY <1>1, <1>2
     DEF RunsAreHeld, PagesAreOfTiles, ShownIsListed, SeenIsObserved
<1>5. NoneForgotten'
  BY <1>1, <1>2 DEF NoneForgotten, RunsAreHeld
<1>6. CompleteCoversSeoul'
  BY <1>1, <1>2, <1>3 DEF CompleteCoversSeoul, Typed
<1> QED  BY <1>3, <1>4, <1>5, <1>6

\* The catalog, a review run or no step at all keeps the invariant.
LEMMA RestHolds ==
  ASSUME DiscoveryInv,
         \/ \E s \in StoreId : PublishOrHide(s)
         \/ CollectReviews
         \/ UNCHANGED vars
  PROVE  DiscoveryInv'
<1>1. /\ UNCHANGED <<listed, run, observation, proc>>
      /\ published' \in SUBSET StoreId
  BY DEF PublishOrHide, CollectReviews, vars, DiscoveryInv, Typed
<1> QED
  BY <1>1 DEF DiscoveryInv, Typed, RunsAreHeld, PagesAreOfTiles,
     ShownIsListed, SeenIsObserved, NoneForgotten, CompleteCoversSeoul

\* Every step keeps the invariant.
LEMMA NextHolds ==
  ASSUME DiscoveryInv, [Next]_vars
  PROVE  DiscoveryInv'
<1>1. CASE \E x \in Place : Appear(x) \/ Vanish(x)
  BY <1>1, AppearHolds, VanishHolds
<1>2. CASE \E p \in Process : Search(p)
  BY <1>2, SplitTileHolds, GiveUpTileHolds, OpenTileHolds, ReadNextPageHolds,
     CloseTileHolds, DocumentHolds, FailureHolds, FinishHolds DEF Search
<1>3. CASE \E p \in Process : Crash(p) \/ \E r \in Run : Start(p, r)
  BY <1>3, CrashHolds, StartHolds
<1>4. CASE \/ \E s \in StoreId : PublishOrHide(s)
           \/ CollectReviews
           \/ UNCHANGED vars
  BY <1>4, RestHolds
<1> QED  BY <1>1, <1>2, <1>3, <1>4 DEF Next

(* A run that is COMPLETE has observed every bakery that the provider showed *)
(* from its start to its end (run-kakao-discovery.ts): whatever was split,   *)
(* on a border, moved to a later page or failed, for any number of places,   *)
(* pages and quarters, and whether the provider counts more places of a tile *)
(* than its pages hold or exactly as many.                                   *)
THEOREM CoverageIsComplete == Spec => []CompleteCoversSeoul
<1>1. Init => DiscoveryInv
  BY InitHolds
<1>2. DiscoveryInv /\ [Next]_vars => DiscoveryInv'
  BY NextHolds
<1>3. DiscoveryInv => CompleteCoversSeoul
  BY DEF DiscoveryInv
<1> QED  BY <1>1, <1>2, <1>3, PTL DEF Spec

-----------------------------------------------------------------------------
(* Matching a place *)

\* Stores join the catalog one by one.
CatalogInv == catalog \in Seq(KakaoMatchStore)

\* A set of at most one element is finite and has that element.
LEMMA OneOrNone ==
  ASSUME NEW S, IsFiniteSet(S), ~(Cardinality(S) > 1), S # {}
  PROVE  \E x : S = {x}
<1>1. Cardinality(S) \in Nat /\ Cardinality(S) # 0
  BY FS_CardinalityType, FS_EmptySet
<1>2. Cardinality(S) = 1
  BY <1>1
<1> QED  BY <1>2, FS_Singleton

\* One strong match and no conflict is a link; a conflict or two are doubt.
LEMMA MatchIs ==
  ASSUME NEW o, NEW ss, IsFiniteSet(DOMAIN ss)
  PROVE  /\ Cardinality(StrongMatches(o, ss)) > 1
              \/ PhoneConflicts(o, ss) # {} =>
           matchKakaoObservation(o, ss) = Unlinked("AMBIGUOUS")
         /\ StrongMatches(o, ss) = {} /\ PhoneConflicts(o, ss) = {} =>
              matchKakaoObservation(o, ss) = Unlinked("UNMATCHED")
         /\ \A i : StrongMatches(o, ss) = {i} /\ PhoneConflicts(o, ss) = {} =>
              matchKakaoObservation(o, ss) = Linked(ss[i], i)
<1> DEFINE strong == StrongMatches(o, ss)
           conflicts == PhoneConflicts(o, ss)
<1>1. matchKakaoObservation(o, ss) =
        CASE Cardinality(strong) > 1 \/ conflicts # {} -> Unlinked("AMBIGUOUS")
          [] strong = {} /\ conflicts = {} -> Unlinked("UNMATCHED")
          [] OTHER -> TheStrongMatch(o, ss)
  BY DEF matchKakaoObservation
<1>2. strong = {} => ~(Cardinality(strong) > 1)
  BY FS_EmptySet
<1>3. ASSUME NEW i, strong = {i}
      PROVE  /\ ~(Cardinality(strong) > 1)
             /\ TheStrongMatch(o, ss) = Linked(ss[i], i)
  <2>1. Cardinality(strong) = 1
    BY <1>3, FS_Singleton
  <2>2. (CHOOSE j \in strong : TRUE) = i
    <3> HIDE DEF strong
    <3> QED  BY <1>3
  <2>3. TheStrongMatch(o, ss) = Linked(ss[i], i)
    BY <2>2 DEF TheStrongMatch
  <2> HIDE DEF strong
  <2> QED  BY <2>1, <2>3
<1> HIDE DEF strong, conflicts
<1>4. strong = {} /\ conflicts = {} =>
        matchKakaoObservation(o, ss) = Unlinked("UNMATCHED")
  BY <1>1, <1>2
<1>5. ASSUME NEW i, strong = {i}, conflicts = {}
      PROVE  matchKakaoObservation(o, ss) = Linked(ss[i], i)
  BY <1>1, <1>3, <1>5
<1>6. Cardinality(strong) > 1 \/ conflicts # {} =>
        matchKakaoObservation(o, ss) = Unlinked("AMBIGUOUS")
  BY <1>1, <1>2
<1> QED  BY <1>4, <1>5, <1>6 DEF strong, conflicts

\* A store joins the matches and conflicts there were, if it joins any.
LEMMA AnotherStore ==
  ASSUME NEW o, NEW ss \in Seq(KakaoMatchStore), NEW s \in KakaoMatchStore
  PROVE  LET more == Append(ss, s) IN
         /\ StrongMatches(o, ss) \subseteq StrongMatches(o, more)
         /\ PhoneConflicts(o, ss) \subseteq PhoneConflicts(o, more)
         /\ \A i \in DOMAIN ss : more[i] = ss[i]
         /\ IsFiniteSet(DOMAIN ss) /\ IsFiniteSet(DOMAIN more)
<1> DEFINE more == Append(ss, s)
<1>1. /\ Len(ss) \in Nat /\ DOMAIN ss = 1..Len(ss)
      /\ DOMAIN more = 1..Len(ss) + 1
      /\ \A i \in DOMAIN ss : i \in DOMAIN more /\ more[i] = ss[i]
  OBVIOUS
<1>2. IsFiniteSet(1..Len(ss)) /\ IsFiniteSet(1..Len(ss) + 1)
  BY <1>1, FS_Interval
<1> HIDE DEF more
<1> QED  BY <1>1, <1>2 DEF StrongMatches, PhoneConflicts, more

\* For any names, addresses, phones, positions and catalogs: a store that
\* joins the catalog can make a link doubtful, but it never redirects a link
\* to another store, nor settles what was doubtful (match-kakao-place.ts).
THEOREM LinksStayStable == MatchSpec => LinksAreStable
<1>1. MatchInit => CatalogInv
  BY DEF MatchInit, CatalogInv
<1>2. CatalogInv /\ [AddStore]_matchVars => CatalogInv'
  BY DEF CatalogInv, AddStore, matchVars
<1>3. ASSUME CatalogInv, [AddStore]_matchVars
      PROVE  [/\ Match.store # 0 => Match'.store = Match.store
                                      \/ Match'.status = "AMBIGUOUS"
              /\ Match.status = "AMBIGUOUS" =>
                   Match'.status = "AMBIGUOUS"]_matchVars
  <2> SUFFICES ASSUME AddStore
               PROVE  /\ Match.store # 0 => Match'.store = Match.store
                                      \/ Match'.status = "AMBIGUOUS"
                      /\ Match.status = "AMBIGUOUS" =>
                           Match'.status = "AMBIGUOUS"
    BY <1>3
  <2>1. PICK s \in KakaoMatchStore : catalog' = Append(catalog, s)
    BY DEF AddStore
  <2>2. place' = place /\ catalog \in Seq(KakaoMatchStore)
    BY <1>3 DEF AddStore, CatalogInv
  <2> DEFINE old == StrongMatches(place, catalog)
             new == StrongMatches(place, catalog')
             doubt == PhoneConflicts(place, catalog)
             doubts == PhoneConflicts(place, catalog')
  <2>3. /\ old \subseteq new /\ doubt \subseteq doubts
        /\ IsFiniteSet(DOMAIN catalog) /\ IsFiniteSet(DOMAIN catalog')
    BY <2>1, <2>2, AnotherStore
  <2>4. IsFiniteSet(new) /\ IsFiniteSet(old)
    <3>1. new \subseteq DOMAIN catalog' /\ old \subseteq DOMAIN catalog
      BY DEF StrongMatches
    <3> QED  BY <2>3, <3>1, FS_Subset
  <2>5. /\ Match = matchKakaoObservation(place, catalog)
        /\ Match' = matchKakaoObservation(place, catalog')
    BY <2>2 DEF Match
  <2>6. Cardinality(new) > 1 \/ doubts # {} => Match'.status = "AMBIGUOUS"
    BY <2>3, <2>5, MatchIs DEF Unlinked
  <2>7. CASE Cardinality(old) > 1 \/ doubt # {}
    <3>1. Match.store = 0
      BY <2>3, <2>5, <2>7, MatchIs DEF Unlinked
    <3>2. Cardinality(old) > 1 => Cardinality(new) > 1
      <4>1. /\ Cardinality(old) \in Nat /\ Cardinality(new) \in Nat
            /\ Cardinality(old) <= Cardinality(new)
        BY <2>3, <2>4, FS_CardinalityType, FS_Subset
      <4> QED  BY <4>1
    <3>3. doubt # {} => doubts # {}
      BY <2>3
    <3> QED  BY <2>6, <2>7, <3>1, <3>2, <3>3
  <2>8. CASE old = {} /\ doubt = {}
    <3>1. Match.store = 0 /\ Match.status # "AMBIGUOUS"
      BY <2>3, <2>5, <2>8, MatchIs DEF Unlinked
    <3> QED  BY <3>1
  <2>9. CASE old # {} /\ ~(Cardinality(old) > 1) /\ doubt = {}
    <3>1. PICK i : old = {i}
      BY <2>4, <2>9, OneOrNone
    <3>2. Match.store = i /\ Match.status # "AMBIGUOUS"
      BY <2>3, <2>5, <2>9, <3>1, MatchIs DEF Linked
    <3>3. CASE Cardinality(new) > 1 \/ doubts # {}
      BY <2>6, <3>2, <3>3
    <3>4. CASE ~(Cardinality(new) > 1) /\ doubts = {}
      <4>1. new = {i}
        <5>1. PICK j : new = {j}
          BY <2>3, <2>4, <3>1, <3>4, OneOrNone
        <5> QED  BY <2>3, <3>1, <5>1
      <4>2. Match'.store = i
        BY <2>3, <2>5, <3>4, <4>1, MatchIs DEF Linked
      <4> QED  BY <3>2, <4>2
    <3> QED  BY <3>3, <3>4
  <2> QED  BY <2>7, <2>8, <2>9
<1> QED  BY <1>1, <1>2, <1>3, PTL DEF MatchSpec, LinksAreStable
=============================================================================
