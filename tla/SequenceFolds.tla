---------------------------- MODULE SequenceFolds ----------------------------
(***************************************************************************)
(* Induction over numbers and over the folds of sequences, in the          *)
(* first-order form the provers can use: the thing to be shown is a set of *)
(* numbers, and the operator that is folded is a function F on pairs.      *)
(***************************************************************************)
EXTENDS Integers, SequenceOperators, WellFoundedInduction, TLAPS

\* A set with 0 and with the successors of its numbers has every number.
LEMMA SetInduction ==
  ASSUME NEW T, 0 \in T, \A n \in Nat : n \in T => n + 1 \in T
  PROVE  Nat \subseteq T
  <1> DEFINE U == Nat \ T
             R == OpToRel(<, Nat)
  <1>. SUFFICES ASSUME U # {} PROVE FALSE
    OBVIOUS
  <1>1. IsWellFoundedOn(R, Nat)
    BY NatLessThanWellFounded, Zenon
  <1>. HIDE DEF R
  <1>2. \E k \in U : \A j \in U : ~(<<j, k>> \in R)
    BY <1>1, WFMin
  <1>3. PICK k \in U : \A j \in U : ~(<<j, k>> \in R)
    BY <1>2
  <1>4. k # 0 /\ k - 1 \in Nat
    BY SMT
  <1>5. k - 1 \in U
    BY <1>4, SMT
  <1>6. <<k - 1, k>> \in R
    <2>1. k - 1 < k
      BY SMT
    <2>. QED  BY <1>4, <1>5, <2>1, Zenon DEF R, OpToRel
  <1>. QED  BY <1>3, <1>5, <1>6

\* The same up to a number.
LEMMA BoundedInduction ==
  ASSUME NEW n \in Nat, NEW T, 0 \in T,
         \A i \in 0..(n - 1) : i \in T => i + 1 \in T
  PROVE  \A i \in 0..n : i \in T
  <1> DEFINE U == {i \in Nat : i <= n => i \in T}
  <1>1. 0 \in U
    OBVIOUS
  <1>2. \A i \in Nat : i \in U => i + 1 \in U
    OBVIOUS
  <1>. HIDE DEF U
  <1>3. Nat \subseteq U
    BY <1>1, <1>2, SetInduction
  <1>. QED  BY <1>3 DEF U

\* A set of numbers has a least one.
LEMMA MinExists ==
  ASSUME NEW s \in SUBSET Nat, s # {}
  PROVE  \E k \in s : \A j \in s : k <= j
  <1> DEFINE R == OpToRel(<, Nat)
  <1>1. IsWellFoundedOn(R, Nat)
    BY NatLessThanWellFounded, Zenon
  <1>2. \A j, k \in Nat : j < k => <<j, k>> \in R
    BY Zenon DEF OpToRel
  <1>. HIDE DEF R
  <1>3. PICK k \in s : \A j \in s : ~(<<j, k>> \in R)
    BY <1>1, WFMin
  <1>4. \A j \in s : ~(j < k)
    BY <1>2, <1>3
  <1>. QED  BY <1>4

-----------------------------------------------------------------------------
\* g is what MapThenFoldSet iterates for the first n elements of seq.
Iterates(g, n, F, base, seq) ==
    \A s \in SUBSET (1..n) :
        g[s] = IF s = {} THEN base ELSE F[<<g[s \ {Max(s)}], seq[Max(s)]>>]

LEMMA MaxOfTop ==
  ASSUME NEW n \in Nat, NEW s \in SUBSET (1..n), n \in s
  PROVE  Max(s) = n
  <1>1. \A k \in s : n >= k
    OBVIOUS
  <1>2. Max(s) \in s /\ \A k \in s : Max(s) >= k
    BY <1>1 DEF Max
  <1> DEFINE m == Max(s)
  <1>. HIDE DEF m
  <1>3. m \in s /\ m >= n /\ n >= m
    BY <1>1, <1>2 DEF m
  <1>4. m = n
    BY <1>3
  <1>. QED  BY <1>4 DEF m

\* A set of positions of a sequence has a greatest one.
LEMMA MaxExists ==
  ASSUME NEW E, NEW seq \in Seq(E), NEW s \in SUBSET DOMAIN seq, s # {}
  PROVE  \E k \in s : \A j \in s : k >= j
  <1> DEFINE T == {n \in Nat : \A r \in SUBSET (1..n) :
                      r # {} => \E k \in r : \A j \in r : k >= j}
  <1>1. 0 \in T
    <2>1. 1..0 = {}
      OBVIOUS
    <2>. QED  BY <2>1
  <1>2. ASSUME NEW n \in Nat, n \in T
        PROVE  n + 1 \in T
    <2>. SUFFICES ASSUME NEW r \in SUBSET (1..(n + 1)), r # {}
                  PROVE  \E k \in r : \A j \in r : k >= j
      OBVIOUS
    <2>1. CASE n + 1 \in r
      <3>1. \A j \in r : n + 1 >= j
        OBVIOUS
      <3>. QED  BY <2>1, <3>1
    <2>2. CASE n + 1 \notin r
      <3>1. r \in SUBSET (1..n)
        BY <2>2
      <3>. QED  BY <1>2, <3>1
    <2>. QED  BY <2>1, <2>2
  <1>. HIDE DEF T
  <1>3. Len(seq) \in T
    BY <1>1, <1>2, SetInduction
  <1>. QED  BY <1>3 DEF T

LEMMA MaxIsIn ==
  ASSUME NEW E, NEW seq \in Seq(E), NEW s \in SUBSET DOMAIN seq, s # {}
  PROVE  Max(s) \in s
  BY MaxExists DEF Max

\* There is such a function.
LEMMA IterationExists ==
  ASSUME NEW S, NEW E, NEW seq \in Seq(E), NEW F \in [S \X E -> S], NEW base \in S
  PROVE  \E g \in [SUBSET DOMAIN seq -> S] : Iterates(g, Len(seq), F, base, seq)
  <1> DEFINE Exists(n) == \E g \in [SUBSET (1..n) -> S] : Iterates(g, n, F, base, seq)
             T == {n \in Nat : n <= Len(seq) => Exists(n)}
  <1>1. 0 \in T
    <2> DEFINE g == [s \in SUBSET (1..0) |-> base]
    <2>1. \A s \in SUBSET (1..0) : s = {}
      OBVIOUS
    <2>2. g \in [SUBSET (1..0) -> S] /\ Iterates(g, 0, F, base, seq)
      BY <2>1 DEF Iterates
    <2>3. Exists(0)
      BY <2>2
    <2>. HIDE DEF Exists
    <2>. QED  BY <2>3
  <1>2. ASSUME NEW n \in Nat, n \in T
        PROVE  n + 1 \in T
    <2>. HIDE DEF Exists
    <2>. SUFFICES ASSUME n + 1 <= Len(seq) PROVE Exists(n + 1)
      OBVIOUS
    <2>0. Exists(n)
      BY <1>2
    <2>1. PICK g \in [SUBSET (1..n) -> S] : Iterates(g, n, F, base, seq)
      BY <2>0 DEF Exists
    <2> DEFINE top == n + 1
               h   == [s \in SUBSET (1..top) |->
                         IF top \in s THEN F[<<g[s \ {top}], seq[top]>>] ELSE g[s]]
    <2>2. seq[top] \in E /\ top \in Nat
      OBVIOUS
    <2>3. \A s \in SUBSET (1..top) : s \ {top} \in SUBSET (1..n)
      OBVIOUS
    <2>4. \A s \in SUBSET (1..top) : top \notin s => s \in SUBSET (1..n)
      OBVIOUS
    <2>5. \A s \in SUBSET (1..n) : s \in SUBSET (1..top) /\ top \notin s
      OBVIOUS
    <2>. HIDE DEF top
    <2>6. h \in [SUBSET (1..top) -> S]
      BY <2>2, <2>3, <2>4
    <2>7. \A s \in SUBSET (1..n) : h[s] = g[s]
      BY <2>5
    <2>8. ASSUME NEW s \in SUBSET (1..top)
          PROVE  h[s] = IF s = {} THEN base ELSE F[<<h[s \ {Max(s)}], seq[Max(s)]>>]
      <3>1. CASE top \in s
        <4>1. Max(s) = top
          BY <2>2, <3>1, MaxOfTop
        <4>2. h[s] = F[<<g[s \ {top}], seq[top]>>]
          BY <3>1
        <4>3. h[s \ {top}] = g[s \ {top}]
          BY <2>3, <2>7
        <4>. HIDE DEF h
        <4>. QED  BY <3>1, <4>1, <4>2, <4>3
      <3>2. CASE top \notin s
        <4>1. s \in SUBSET (1..n) /\ s \ {Max(s)} \in SUBSET (1..n)
          BY <2>4, <3>2
        <4>2. h[s] = g[s] /\ h[s \ {Max(s)}] = g[s \ {Max(s)}]
          BY <2>7, <4>1
        <4>. HIDE DEF h
        <4>. QED  BY <2>1, <4>1, <4>2 DEF Iterates
      <3>. QED  BY <3>1, <3>2
    <2>. HIDE DEF h
    <2>9. Iterates(h, top, F, base, seq)
      BY <2>8 DEF Iterates
    <2>10. Exists(top)
      BY <2>6, <2>9 DEF Exists
    <2>. QED  BY <2>10 DEF top
  <1>. HIDE DEF T, Exists
  <1>3. Nat \subseteq T
    BY <1>1, <1>2, SetInduction
  <1>4. Len(seq) \in Nat /\ DOMAIN seq = 1..Len(seq)
    OBVIOUS
  <1>5. Exists(Len(seq))
    BY <1>3, <1>4 DEF T
  <1>. QED  BY <1>4, <1>5 DEF Exists

\* The same with what is needed to see that g solves the equation of a fold.
Solves(g, S, E, F, base, seq) ==
    /\ g = [s \in SUBSET DOMAIN seq |-> g[s]]
    /\ g[{}] = base
    /\ \A s \in SUBSET DOMAIN seq : s # {} =>
          /\ seq[Max(s)] \in E /\ g[s \ {Max(s)}] \in S
          /\ g[s] = F[<<g[s \ {Max(s)}], seq[Max(s)]>>]

LEMMA SolutionExists ==
  ASSUME NEW S, NEW E, NEW seq \in Seq(E), NEW F \in [S \X E -> S], NEW base \in S
  PROVE  \E g : Solves(g, S, E, F, base, seq)
  <1>1. PICK g \in [SUBSET DOMAIN seq -> S] : Iterates(g, Len(seq), F, base, seq)
    BY IterationExists
  <1>2. DOMAIN seq = 1..Len(seq)
    OBVIOUS
  <1>3. ASSUME NEW s \in SUBSET DOMAIN seq, s # {}
        PROVE  /\ seq[Max(s)] \in E /\ g[s \ {Max(s)}] \in S
               /\ g[s] = F[<<g[s \ {Max(s)}], seq[Max(s)]>>]
    <2>1. Max(s) \in DOMAIN seq /\ s \ {Max(s)} \in SUBSET DOMAIN seq
      BY <1>3, MaxIsIn
    <2>2. seq[Max(s)] \in E /\ g[s \ {Max(s)}] \in S
      BY <2>1
    <2>3. g[s] = F[<<g[s \ {Max(s)}], seq[Max(s)]>>]
      BY <1>1, <1>2, <1>3 DEF Iterates
    <2>. QED  BY <2>2, <2>3
  <1>4. g[{}] = base
    BY <1>1 DEF Iterates
  <1>5. g = [s \in SUBSET DOMAIN seq |-> g[s]]
    OBVIOUS
  <1>. QED  BY <1>3, <1>4, <1>5 DEF Solves

\* h[n] is the fold of the first n elements of seq.
Folds(h, S, F, base, seq) ==
    /\ h \in [0..Len(seq) -> S]
    /\ h[0] = base
    /\ \A n \in 1..Len(seq) : h[n] = F[<<h[n - 1], seq[n]>>]

\* it is what a fold iterates, as far as that stays within S and E.
Unrolls(it, S, E, F, base, seq) ==
    /\ it[{}] = base
    /\ \A s \in SUBSET DOMAIN seq :
          s # {} /\ it[s \ {Max(s)}] \in S /\ seq[Max(s)] \in E
              => it[s] = F[<<it[s \ {Max(s)}], seq[Max(s)]>>]

\* The fold of all of seq.
Yields(it, seq, h) == it[DOMAIN seq] = h[Len(seq)]

\* What a fold does, element by element.
LEMMA FoldSteps ==
  ASSUME NEW S, NEW E, NEW seq \in Seq(E), NEW F \in [S \X E -> S], NEW base \in S,
         NEW it, Unrolls(it, S, E, F, base, seq)
  PROVE  \E h : Folds(h, S, F, base, seq) /\ Yields(it, seq, h)
  <1> DEFINE T == {n \in Nat : it[1..n] \in S}
             h == [n \in 0..Len(seq) |-> it[1..n]]
  <1>0. Len(seq) \in Nat /\ DOMAIN seq = 1..Len(seq)
    OBVIOUS
  <1>1. ASSUME NEW n \in 1..Len(seq), it[1..(n - 1)] \in S
        PROVE  it[1..n] = F[<<it[1..(n - 1)], seq[n]>>] /\ it[1..n] \in S
    <2>1. n \in Nat /\ n \in 1..n /\ 1..n \in SUBSET (1..n) /\ 1..n \in SUBSET DOMAIN seq
      OBVIOUS
    <2>2. Max(1..n) = n
      BY <2>1, MaxOfTop
    <2>3. (1..n) \ {n} = 1..(n - 1)
      OBVIOUS
    <2>4. seq[n] \in E
      OBVIOUS
    <2>5. it[1..n] = F[<<it[1..(n - 1)], seq[n]>>]
      BY <1>1, <2>1, <2>2, <2>3, <2>4 DEF Unrolls
    <2>. QED  BY <1>1, <2>4, <2>5
  <1>2. 0 \in T
    <2>1. 1..0 = {}
      OBVIOUS
    <2>. QED  BY <2>1 DEF Unrolls
  <1>3. \A n \in 0..(Len(seq) - 1) : n \in T => n + 1 \in T
    <2>. SUFFICES ASSUME NEW n \in 0..(Len(seq) - 1), n \in T
                  PROVE  n + 1 \in T
      OBVIOUS
    <2>1. n + 1 \in 1..Len(seq) /\ (n + 1) - 1 = n /\ n + 1 \in Nat
      BY <1>0
    <2>2. it[1..(n + 1)] \in S
      BY <1>1, <2>1
    <2>. QED  BY <2>1, <2>2
  <1>. HIDE DEF T
  <1>4. \A n \in 0..Len(seq) : n \in T
    BY <1>0, <1>2, <1>3, BoundedInduction
  <1>5. \A n \in 0..Len(seq) : it[1..n] \in S
    BY <1>4 DEF T
  <1>6. h \in [0..Len(seq) -> S]
    BY <1>5
  <1>7. h[0] = base
    <2>1. 1..0 = {} /\ 0 \in 0..Len(seq)
      OBVIOUS
    <2>. QED  BY <2>1 DEF Unrolls
  <1>8. ASSUME NEW n \in 1..Len(seq)
        PROVE  h[n] = F[<<h[n - 1], seq[n]>>]
    <2>1. n \in 0..Len(seq) /\ n - 1 \in 0..Len(seq)
      OBVIOUS
    <2>. QED  BY <1>1, <1>5, <2>1
  <1>9. h[Len(seq)] = it[DOMAIN seq]
    BY <1>0
  <1>. HIDE DEF h
  <1>. QED  BY <1>6, <1>7, <1>8, <1>9 DEF Folds, Yields

-----------------------------------------------------------------------------
(* SequenceOperators.                                                      *)

\* What one element does to a Filter.
Kept(kept, e, S) == IF e \in S THEN Append(kept, e) ELSE kept

\* The folding of a Filter.
LEMMA FilterFold ==
  ASSUME NEW E, NEW seq \in Seq(E), NEW S
  PROVE  \E h \in [0..Len(seq) -> Seq(E)] :
             /\ h[0] = <<>>
             /\ \A n \in 1..Len(seq) : h[n] = Kept(h[n - 1], seq[n], S)
             /\ Filter(seq, S) = h[Len(seq)]
  <1> DEFINE T == Seq(E)
             F == [p \in T \X E |-> IF p[2] \in S THEN Append(p[1], p[2]) ELSE p[1]]
             Eq(f) == f = [s \in SUBSET DOMAIN seq |->
                              IF s = {} THEN <<>>
                              ELSE IF seq[Max(s)] \in S
                                   THEN Append(f[s \ {Max(s)}], seq[Max(s)])
                                   ELSE f[s \ {Max(s)}]]
             it == CHOOSE f : Eq(f)
  <1>1. F \in [T \X E -> T] /\ <<>> \in T
    OBVIOUS
  <1>2. \A s \in T, e \in E : F[<<s, e>>] = Kept(s, e, S)
    BY DEF Kept
  <1>. HIDE DEF F, T
  <1>3. PICK g : Solves(g, T, E, F, <<>>, seq)
    BY <1>1, SolutionExists
  <1>4. Eq(g)
    BY <1>2, <1>3 DEF Kept, Solves
  <1>5. Eq(it)
    <2>. HIDE DEF Eq
    <2>. QED  BY <1>4
  <1>6. Filter(seq, S) = it[DOMAIN seq]
    BY DEF Filter, FoldLeft, MapThenFoldSet
  <1>. HIDE DEF it
  <1>7. Unrolls(it, T, E, F, <<>>, seq)
    BY <1>2, <1>5 DEF Kept, Unrolls
  <1>. HIDE DEF Eq
  <1>8. PICK h : Folds(h, T, F, <<>>, seq) /\ Yields(it, seq, h)
    BY <1>1, <1>7, FoldSteps
  <1>9. ASSUME NEW n \in 1..Len(seq)
         PROVE  h[n] = Kept(h[n - 1], seq[n], S)
    <2>1. n - 1 \in 0..Len(seq) /\ seq[n] \in E
      OBVIOUS
    <2>. QED  BY <1>2, <1>8, <2>1 DEF Folds
  <1>. QED  BY <1>6, <1>8, <1>9 DEF T, Folds, Yields

\* at[j] is the position in seq of the j-th element of kept, which has those
\* of the first n elements that are in S.
Selects(at, kept, seq, n, S) ==
    /\ at \in [1..Len(kept) -> 1..n]
    /\ \A j \in 1..Len(kept) : kept[j] = seq[at[j]] /\ kept[j] \in S
    /\ \A j, k \in 1..Len(kept) : j < k => at[j] < at[k]
    /\ \A i \in 1..n : seq[i] \in S => \E j \in 1..Len(kept) : at[j] = i

LEMMA SelectsNext ==
  ASSUME NEW E, NEW seq \in Seq(E), NEW S, NEW n \in 0..(Len(seq) - 1),
         NEW kept \in Seq(E), NEW at, Selects(at, kept, seq, n, S)
  PROVE  \E to : Selects(to, Kept(kept, seq[n + 1], S), seq, n + 1, S)
  <1>1. /\ n \in Nat /\ n + 1 \in 1..Len(seq) /\ seq[n + 1] \in E
        /\ \A i \in 1..(n + 1) : i \in 1..n \/ i = n + 1
        /\ \A i \in 1..n : i \in 1..(n + 1) /\ i < n + 1
    OBVIOUS
  <1>2. CASE seq[n + 1] \in S
    <2> DEFINE new == Append(kept, seq[n + 1])
               to  == [j \in 1..(Len(kept) + 1) |->
                          IF j = Len(kept) + 1 THEN n + 1 ELSE at[j]]
    <2>1. /\ Len(new) = Len(kept) + 1 /\ Len(kept) \in Nat
          /\ \A j \in 1..Len(kept) : new[j] = kept[j]
          /\ new[Len(kept) + 1] = seq[n + 1]
      BY <1>1
    <2>2. \A j \in 1..(Len(kept) + 1) : j \in 1..Len(kept) \/ j = Len(kept) + 1
      BY <2>1
    <2>3. \A j \in 1..Len(kept) : j \in 1..(Len(kept) + 1) /\ j # Len(kept) + 1
      BY <2>1
    <2>4. \A j \in 1..Len(kept) : to[j] = at[j] /\ at[j] \in 1..n
      BY <2>3 DEF Selects
    <2>5. to[Len(kept) + 1] = n + 1
      BY <2>1
    <2>6. to \in [1..Len(new) -> 1..(n + 1)]
      <3>1. \A j \in 1..(Len(kept) + 1) : to[j] \in 1..(n + 1)
        <4>1. n + 1 \in 1..(n + 1)
          BY <1>1
        <4>. HIDE DEF to
        <4>. QED  BY <1>1, <2>2, <2>4, <2>5, <4>1
      <3>2. to = [j \in 1..(Len(kept) + 1) |-> to[j]]
        OBVIOUS
      <3>. HIDE DEF to, new
      <3>. QED  BY <2>1, <3>1, <3>2
    <2>. HIDE DEF new, to
    <2>7. \A j \in 1..Len(new) : new[j] = seq[to[j]] /\ new[j] \in S
      BY <1>2, <2>1, <2>2, <2>4, <2>5 DEF Selects
    <2>8. ASSUME NEW j \in 1..Len(new), NEW k \in 1..Len(new), j < k
          PROVE  to[j] < to[k]
      <3>1. j \in 1..Len(kept)
        BY <2>1, <2>8
      <3>2. CASE k \in 1..Len(kept)
        BY <2>4, <2>8, <3>1, <3>2 DEF Selects
      <3>3. CASE k = Len(kept) + 1
        BY <1>1, <2>4, <2>5, <3>1, <3>3
      <3>. QED  BY <2>1, <2>2, <3>2, <3>3
    <2>9. ASSUME NEW i \in 1..(n + 1), seq[i] \in S
          PROVE  \E j \in 1..Len(new) : to[j] = i
      <3>1. CASE i \in 1..n
        BY <2>1, <2>3, <2>4, <2>9, <3>1 DEF Selects
      <3>2. CASE i = n + 1
        <4>1. Len(kept) + 1 \in 1..Len(new)
          BY <2>1
        <4>. QED  BY <2>5, <3>2, <4>1
      <3>. QED  BY <1>1, <3>1, <3>2
    <2>10. Selects(to, new, seq, n + 1, S)
      BY <2>6, <2>7, <2>8, <2>9 DEF Selects
    <2>. QED  BY <1>2, <2>10 DEF Kept, new
  <1>3. CASE seq[n + 1] \notin S
    <2>1. Selects(at, kept, seq, n + 1, S)
      <3>1. at \in [1..Len(kept) -> 1..(n + 1)]
        BY <1>1 DEF Selects
      <3>2. \A i \in 1..(n + 1) : seq[i] \in S => i \in 1..n
        BY <1>1, <1>3
      <3>. QED  BY <3>1, <3>2 DEF Selects
    <2>. QED  BY <1>3, <2>1 DEF Kept
  <1>. QED  BY <1>2, <1>3

\* What Filter returns: a sequence of the elements in S, with its order.
LEMMA FilterSelects ==
  ASSUME NEW E, NEW seq \in Seq(E), NEW S
  PROVE  /\ Filter(seq, S) \in Seq(E)
         /\ \E at : Selects(at, Filter(seq, S), seq, Len(seq), S)
  <1>1. PICK h \in [0..Len(seq) -> Seq(E)] :
            /\ h[0] = <<>>
            /\ \A n \in 1..Len(seq) : h[n] = Kept(h[n - 1], seq[n], S)
            /\ Filter(seq, S) = h[Len(seq)]
    BY FilterFold, ZenonT(60)
  <1> DEFINE Good(n) == \E at : Selects(at, h[n], seq, n, S)
             T == {n \in Nat : Good(n)}
  <1>2. Good(0)
    <2> DEFINE none == [j \in 1..0 |-> 0]
    <2>1. 1..0 = {} /\ Len(<<>>) = 0
      OBVIOUS
    <2>2. Selects(none, <<>>, seq, 0, S)
      BY <2>1 DEF Selects
    <2>. QED  BY <1>1, <2>2
  <1>3. ASSUME NEW n \in 0..(Len(seq) - 1), Good(n)
        PROVE  Good(n + 1)
    <2>1. h[n] \in Seq(E) /\ n + 1 \in 1..Len(seq) /\ (n + 1) - 1 = n
      BY <1>1
    <2>2. h[n + 1] = Kept(h[n], seq[n + 1], S)
      BY <1>1, <2>1
    <2>3. PICK at : Selects(at, h[n], seq, n, S)
      BY <1>3
    <2>4. \E to : Selects(to, Kept(h[n], seq[n + 1], S), seq, n + 1, S)
      BY <2>1, <2>3, SelectsNext
    <2>. QED  BY <2>2, <2>4
  <1>. HIDE DEF Good
  <1>4. 0 \in T
    BY <1>2
  <1>5. \A n \in 0..(Len(seq) - 1) : n \in T => n + 1 \in T
    BY <1>3
  <1>6. Len(seq) \in Nat /\ Len(seq) \in 0..Len(seq)
    OBVIOUS
  <1>. HIDE DEF T
  <1>7. Len(seq) \in T
    BY <1>4, <1>5, <1>6, BoundedInduction
  <1>8. Good(Len(seq))
    BY <1>7 DEF T
  <1>. QED  BY <1>1, <1>6, <1>8 DEF Good

-----------------------------------------------------------------------------
(* Folds as values: what is left of a sequence's shape is how it was       *)
(* appended to.                                                            *)

\* A set with <<>> and with what any of its sequences becomes by an Append.
LEMMA SequenceInduction ==
  ASSUME NEW E, NEW T, <<>> \in T,
         \A s \in Seq(E), e \in E : s \in T => Append(s, e) \in T
  PROVE  \A s \in Seq(E) : s \in T
  <1> DEFINE U == {n \in Nat : \A s \in Seq(E) : Len(s) = n => s \in T}
  <1>1. 0 \in U
    OBVIOUS
  <1>2. ASSUME NEW n \in Nat, n \in U
        PROVE  n + 1 \in U
    <2>. SUFFICES ASSUME NEW s \in Seq(E), Len(s) = n + 1
                  PROVE  s \in T
      OBVIOUS
    <2> DEFINE front == SubSeq(s, 1, n)
               last  == s[n + 1]
    <2>1. front \in Seq(E) /\ Len(front) = n /\ last \in E
      OBVIOUS
    <2>2. s = Append(front, last)
      <3>1. \A i \in 1..(n + 1) : s[i] = Append(front, last)[i]
        OBVIOUS
      <3>2. Append(front, last) \in Seq(E) /\ Len(Append(front, last)) = n + 1
        BY <2>1
      <3>. HIDE DEF front, last
      <3> DEFINE t == Append(front, last)
      <3>3. \A r \in Seq(E) : Len(r) = n + 1 => r = [i \in 1..(n + 1) |-> r[i]]
        OBVIOUS
      <3>. QED  BY <3>1, <3>2, <3>3
    <2>3. front \in T
      BY <1>2, <2>1
    <2>. HIDE DEF front, last
    <2>. QED  BY <2>1, <2>2, <2>3
  <1>. HIDE DEF U
  <1>3. Nat \subseteq U
    BY <1>1, <1>2, SetInduction
  <1>. QED  BY <1>3 DEF U

LEMMA FoldsExist ==
  ASSUME NEW S, NEW E, NEW seq \in Seq(E), NEW F \in [S \X E -> S], NEW base \in S
  PROVE  \E h : Folds(h, S, F, base, seq)
  <1>1. PICK g : Solves(g, S, E, F, base, seq)
    BY SolutionExists
  <1>2. Unrolls(g, S, E, F, base, seq)
    BY <1>1 DEF Solves, Unrolls
  <1>. QED  BY <1>2, FoldSteps

\* s and t have the same first n elements.
StartAlike(s, t, n) == n <= Len(s) /\ n <= Len(t) /\ \A i \in 1..n : s[i] = t[i]

\* Folds of sequences that start alike start alike.
LEMMA FoldsAgree ==
  ASSUME NEW S, NEW F, NEW base, NEW s, NEW t, Len(s) \in Nat, Len(t) \in Nat,
         NEW h, Folds(h, S, F, base, s), NEW k, Folds(k, S, F, base, t),
         NEW n \in Nat, StartAlike(s, t, n)
  PROVE  h[n] = k[n]
  <1> DEFINE T == {m \in Nat : h[m] = k[m]}
  <1>1. 0 \in T
    BY DEF Folds
  <1>2. ASSUME NEW m \in 0..(n - 1), m \in T
        PROVE  m + 1 \in T
    <2>1. m + 1 \in 1..n /\ m + 1 \in 1..Len(s) /\ m + 1 \in 1..Len(t) /\ (m + 1) - 1 = m
      BY DEF StartAlike
    <2>2. h[m + 1] = F[<<h[m], s[m + 1]>>] /\ k[m + 1] = F[<<k[m], t[m + 1]>>]
      BY <2>1 DEF Folds
    <2>3. s[m + 1] = t[m + 1]
      BY <2>1 DEF StartAlike
    <2>. QED  BY <1>2, <2>1, <2>2, <2>3
  <1>. HIDE DEF T
  <1>3. n \in T
    <2>1. n \in 0..n
      OBVIOUS
    <2>. QED  BY <1>1, <1>2, <2>1, BoundedInduction
  <1>. QED  BY <1>3 DEF T

\* The fold of all of seq.
Folded(S, F, base, seq) == (CHOOSE h : Folds(h, S, F, base, seq))[Len(seq)]

LEMMA FoldedIs ==
  ASSUME NEW S, NEW F, NEW base, NEW seq, Len(seq) \in Nat,
         NEW h, Folds(h, S, F, base, seq)
  PROVE  Folded(S, F, base, seq) = h[Len(seq)]
  <1> DEFINE k == CHOOSE k : Folds(k, S, F, base, seq)
  <1>1. Folds(k, S, F, base, seq)
    OBVIOUS
  <1>. HIDE DEF k
  <1>2. StartAlike(seq, seq, Len(seq))
    BY DEF StartAlike
  <1>3. k[Len(seq)] = h[Len(seq)]
    BY <1>1, <1>2, FoldsAgree
  <1>. QED  BY <1>3 DEF Folded, k

LEMMA FoldedType ==
  ASSUME NEW S, NEW E, NEW seq \in Seq(E), NEW F \in [S \X E -> S], NEW base \in S
  PROVE  Folded(S, F, base, seq) \in S
  <1>1. PICK h : Folds(h, S, F, base, seq)
    BY FoldsExist
  <1>2. Len(seq) \in Nat /\ Len(seq) \in 0..Len(seq)
    OBVIOUS
  <1>3. h[Len(seq)] \in S
    BY <1>1, <1>2 DEF Folds
  <1>. QED  BY <1>1, <1>2, <1>3, FoldedIs

LEMMA FoldedEmpty ==
  ASSUME NEW S, NEW E, NEW F \in [S \X E -> S], NEW base \in S
  PROVE  Folded(S, F, base, <<>>) = base
  <1>1. <<>> \in Seq(E) /\ Len(<<>>) = 0
    OBVIOUS
  <1>2. PICK h : Folds(h, S, F, base, <<>>)
    BY <1>1, FoldsExist
  <1>3. h[0] = base
    BY <1>2 DEF Folds
  <1>. QED  BY <1>1, <1>2, <1>3, FoldedIs

\* F is applied to the last element last.
Appends(S, E, F) ==
    \A base \in S, seq \in Seq(E), e \in E :
        Folded(S, F, base, Append(seq, e)) = F[<<Folded(S, F, base, seq), e>>]

LEMMA FoldedAppend ==
  ASSUME NEW S, NEW E, NEW F \in [S \X E -> S]
  PROVE  Appends(S, E, F)
  <1>. SUFFICES ASSUME NEW base \in S, NEW seq \in Seq(E), NEW e \in E
                PROVE  Folded(S, F, base, Append(seq, e)) = F[<<Folded(S, F, base, seq), e>>]
    BY DEF Appends
  <1> DEFINE new == Append(seq, e)
             n   == Len(seq)
  <1>1. /\ new \in Seq(E) /\ n \in Nat /\ Len(new) = n + 1
        /\ \A i \in 1..n : new[i] = seq[i]
        /\ new[n + 1] = e
    OBVIOUS
  <1>. HIDE DEF new
  <1>2. PICK h : Folds(h, S, F, base, seq)
    BY FoldsExist
  <1>3. PICK k : Folds(k, S, F, base, new)
    BY <1>1, FoldsExist
  <1>4. h[n] = k[n]
    <2>1. StartAlike(seq, new, n)
      BY <1>1 DEF StartAlike
    <2>2. Len(seq) \in Nat /\ Len(new) \in Nat
      BY <1>1
    <2>3. n \in Nat
      BY <1>1
    <2>. HIDE DEF n
    <2>. QED  BY <1>2, <1>3, <2>1, <2>2, <2>3, FoldsAgree
  <1>5. k[n + 1] = F[<<k[n], e>>]
    <2>1. n + 1 \in 1..Len(new) /\ (n + 1) - 1 = n
      BY <1>1
    <2>. QED  BY <1>1, <1>3, <2>1 DEF Folds
  <1>6. Folded(S, F, base, seq) = h[n]
    BY <1>1, <1>2, FoldedIs
  <1>7. Folded(S, F, base, new) = k[n + 1]
    BY <1>1, <1>3, FoldedIs
  <1>. QED  BY <1>4, <1>5, <1>6, <1>7 DEF new

\* Sequences are folded one after the other.
Concats(S, E, F) ==
    \A base \in S, s, t \in Seq(E) :
        Folded(S, F, base, s \o t) = Folded(S, F, Folded(S, F, base, s), t)

LEMMA FoldedConcat ==
  ASSUME NEW S, NEW E, NEW F \in [S \X E -> S]
  PROVE  Concats(S, E, F)
  <1>. SUFFICES ASSUME NEW base \in S, NEW s \in Seq(E), NEW t \in Seq(E)
                PROVE  Folded(S, F, base, s \o t) = Folded(S, F, Folded(S, F, base, s), t)
    BY DEF Concats
  <1> DEFINE mid == Folded(S, F, base, s)
             T   == {u \in Seq(E) : Folded(S, F, base, s \o u) = Folded(S, F, mid, u)}
  <1>0. mid \in S
    BY FoldedType
  <1>. HIDE DEF mid
  <1>a. Appends(S, E, F)
    BY FoldedAppend
  <1>1. <<>> \in T
    <2>1. s \o <<>> = s /\ <<>> \in Seq(E)
      OBVIOUS
    <2>2. Folded(S, F, mid, <<>>) = mid
      BY <1>0, FoldedEmpty
    <2>. QED  BY <2>1, <2>2 DEF mid
  <1>2. ASSUME NEW u \in Seq(E), NEW e \in E, u \in T
        PROVE  Append(u, e) \in T
    <2>1. s \o Append(u, e) = Append(s \o u, e)
      OBVIOUS
    <2>2. s \o u \in Seq(E) /\ Append(u, e) \in Seq(E)
      OBVIOUS
    <2>3. Folded(S, F, base, Append(s \o u, e)) = F[<<Folded(S, F, base, s \o u), e>>]
      BY <1>a, <2>2 DEF Appends
    <2>4. Folded(S, F, mid, Append(u, e)) = F[<<Folded(S, F, mid, u), e>>]
      BY <1>0, <1>a DEF Appends
    <2>. QED  BY <1>2, <2>1, <2>2, <2>3, <2>4
  <1>. HIDE DEF T
  <1>3. t \in T
    BY <1>1, <1>2, SequenceInduction
  <1>. QED  BY <1>3 DEF T, mid

\* What a fold iterates comes to the fold.
ComesTo(it, S, E, F, base, seq) == it[DOMAIN seq] = Folded(S, F, base, seq)

LEMMA UnrollsTo ==
  ASSUME NEW S, NEW E, NEW seq \in Seq(E), NEW F \in [S \X E -> S], NEW base \in S,
         NEW it, Unrolls(it, S, E, F, base, seq)
  PROVE  ComesTo(it, S, E, F, base, seq)
  <1>1. PICK h : Folds(h, S, F, base, seq) /\ Yields(it, seq, h)
    BY FoldSteps
  <1>2. Len(seq) \in Nat
    OBVIOUS
  <1>. QED  BY <1>1, <1>2, FoldedIs DEF Yields, ComesTo

\* What there is to know of a fold.
FoldLaws(S, E, F) ==
    /\ \A base \in S : Folded(S, F, base, <<>>) = base
    /\ \A base \in S, seq \in Seq(E) : Folded(S, F, base, seq) \in S
    /\ Appends(S, E, F)
    /\ Concats(S, E, F)

LEMMA FoldedLaws ==
  ASSUME NEW S, NEW E, NEW F \in [S \X E -> S]
  PROVE  FoldLaws(S, E, F)
  <1>1. \A base \in S : Folded(S, F, base, <<>>) = base
    BY FoldedEmpty
  <1>2. ASSUME NEW base \in S, NEW seq \in Seq(E)
        PROVE  Folded(S, F, base, seq) \in S
    BY FoldedType
  <1>3. Appends(S, E, F) /\ Concats(S, E, F)
    BY FoldedAppend, FoldedConcat
  <1>. QED  BY <1>1, <1>2, <1>3 DEF FoldLaws
=============================================================================
