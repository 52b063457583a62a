------------------------------- MODULE Folding -------------------------------
(***************************************************************************)
(* What FoldLeft of the community modules computes, for an operator Op:    *)
(* nothing of the empty sequence, and one step more for one entry more.    *)
(* A module that proves something about a fold instantiates this one with  *)
(* the step of its fold for Op.                                            *)
(***************************************************************************)
EXTENDS Integers, Sequences, SequencesExt, FiniteSets, FiniteSetsExt,
        SequenceTheorems, FiniteSetTheorems, WellFoundedInduction, TLAPS

CONSTANT Op(_, _)

Fold(b, seq) == FoldLeft(Op, b, seq)

\* A set of naturals that holds 0 and every successor holds all: the intervals
\* below the numbers outside it are finite, and one of them would contain none
\* of the others.
LEMMA AllNumbers ==
  ASSUME NEW S, 0 \in S, \A n \in Nat : n \in S => n + 1 \in S
  PROVE  Nat \subseteq S
<1> DEFINE T == Nat \ S
           Below(x) == {y \in Nat : y < x}
           R == StrictSubsetOrdering(Nat)
           F == FiniteSubsetsOf(Nat)
           A == {Below(x) : x \in T}
<1> SUFFICES ASSUME T # {} PROVE FALSE
  OBVIOUS
<1>1. IsWellFoundedOn(R, F)
  BY FS_StrictSubsetOrderingWellFounded
<1>2. ASSUME NEW x \in T PROVE Below(x) \in F
  <2>1. x \in Nat /\ Below(x) \in SUBSET Nat /\ \A y \in Below(x) : y <= x
    OBVIOUS
  <2> HIDE DEF Below
  <2>2. IsFiniteSet(Below(x))
    BY <2>1, FS_BoundedSetOfNaturals
  <2>3. QED BY <2>1, <2>2 DEF FiniteSubsetsOf
<1>3. A \subseteq F /\ A # {}
  BY <1>2
<1>4. PICK U \in A : \A V \in A : ~ (<<V, U>> \in R)
  <2> HIDE DEF A, R, F
  <2> QED BY <1>1, <1>3, WFMin
<1>5. PICK m \in T : U = Below(m)
  OBVIOUS
<1>6. m # 0 /\ m - 1 \in Nat /\ (m - 1) + 1 = m
  OBVIOUS
<1>7. m - 1 \in T
  BY <1>6
<1>8. Below(m - 1) \in A
  BY <1>7
<1>9. Below(m - 1) \subseteq U /\ Below(m - 1) # U
  BY <1>5, <1>6
<1>10. <<Below(m - 1), U>> \in R
  BY <1>8, <1>9, <1>5, <1>3 DEF StrictSubsetOrdering
<1>11. QED BY <1>8, <1>10, <1>4

\* The greatest number of a set of the first n.
LEMMA GreatestOf ==
  ASSUME NEW n \in Nat, NEW S \in SUBSET (1 .. n), S # {}
  PROVE  /\ Max(S) \in S /\ \A i \in S : i <= Max(S)
<1> DEFINE T == {m \in Nat : \A X \in SUBSET (1 .. m) : X # {} => \E i \in X : \A j \in X : i >= j}
<1>1. 0 \in T
  <2>1. 1 .. 0 = {}
    OBVIOUS
  <2>2. \A X \in SUBSET (1 .. 0) : X = {}
    BY <2>1
  <2>3. QED BY <2>2
<1>2. ASSUME NEW m \in Nat, m \in T PROVE m + 1 \in T
  <2> SUFFICES ASSUME NEW X \in SUBSET (1 .. m + 1), X # {}
               PROVE  \E i \in X : \A j \in X : i >= j
    OBVIOUS
  <2>1. CASE m + 1 \in X
    BY <2>1
  <2>2. CASE m + 1 \notin X
    <3>1. X \in SUBSET (1 .. m)
      BY <2>2
    <3>2. QED BY <1>2, <3>1
  <2>3. QED BY <2>1, <2>2
<1>3. n \in T
  <2> HIDE DEF T
  <2> QED BY <1>1, <1>2, AllNumbers
<1>4. \E i \in S : \A j \in S : i >= j
  BY <1>3
<1>5. QED BY <1>4 DEF Max

-----------------------------------------------------------------------------
(* The function of sets of positions that a fold defines. *)

IsFold(f, b, seq, n) ==
  f = [S \in SUBSET (1 .. n) |->
         IF S = {} THEN b ELSE Op(f[S \ {Max(S)}], seq[Max(S)])]

LEMMA FoldExists ==
  ASSUME NEW b, NEW seq, NEW n \in Nat
  PROVE  \E f : IsFold(f, b, seq, n)
<1> DEFINE T == {m \in Nat : \E f : IsFold(f, b, seq, m)}
<1>1. 0 \in T
  <2> DEFINE f == [S \in SUBSET (1 .. 0) |-> b]
  <2>1. IsFold(f, b, seq, 0)
    BY DEF IsFold
  <2>2. QED BY <2>1
<1>2. ASSUME NEW m \in Nat, m \in T PROVE m + 1 \in T
  <2>1. PICK f : IsFold(f, b, seq, m)
    BY <1>2
  <2> DEFINE g == [S \in SUBSET (1 .. m + 1) |->
                     IF m + 1 \in S THEN Op(f[S \ {m + 1}], seq[m + 1]) ELSE f[S]]
             h == [S \in SUBSET (1 .. m + 1) |->
                     IF S = {} THEN b ELSE Op(g[S \ {Max(S)}], seq[Max(S)])]
  <2>2. ASSUME NEW S \in SUBSET (1 .. m + 1) PROVE g[S] = h[S]
    <3>1. CASE m + 1 \in S
      <4>1. Max(S) = m + 1
        <5>1. m + 1 \in Nat /\ S # {}
          BY <3>1
        <5>2. Max(S) \in S /\ \A i \in S : i <= Max(S)
          BY <5>1, GreatestOf
        <5>3. Max(S) \in 1 .. m + 1 /\ m + 1 <= Max(S)
          BY <5>2, <3>1
        <5>4. QED BY <5>3
      <4>2. S \ {m + 1} \in SUBSET (1 .. m) /\ S \ {m + 1} \in SUBSET (1 .. m + 1)
        OBVIOUS
      <4>3. g[S \ {m + 1}] = f[S \ {m + 1}]
        BY <4>2
      <4>4. QED BY <3>1, <4>1, <4>3
    <3>2. CASE m + 1 \notin S
      <4>1. S \in SUBSET (1 .. m)
        BY <3>2
      <4>2. g[S] = f[S]
        BY <3>2
      <4>3. f[S] = IF S = {} THEN b ELSE Op(f[S \ {Max(S)}], seq[Max(S)])
        BY <2>1, <4>1 DEF IsFold
      <4>4. g[S \ {Max(S)}] = f[S \ {Max(S)}]
        BY <3>2
      <4>5. QED BY <4>2, <4>3, <4>4
    <3>3. QED BY <3>1, <3>2
  <2>3. g = h
    BY <2>2
  <2>4. IsFold(g, b, seq, m + 1)
    <3> HIDE DEF g
    <3> QED BY <2>3 DEF IsFold
  <2>5. QED BY <2>4
<1>3. n \in T
  <2> HIDE DEF T
  <2> QED BY <1>1, <1>2, AllNumbers
<1>4. QED BY <1>3

\* Two such functions agree wherever both are defined.
LEMMA FoldsAgree ==
  ASSUME NEW b, NEW seq, NEW tip, NEW n \in Nat, NEW m \in Nat, n <= m,
         \A i \in 1 .. n : seq[i] = tip[i],
         NEW f, IsFold(f, b, seq, n), NEW g, IsFold(g, b, tip, m)
  PROVE  f[1 .. n] = g[1 .. n]
<1> DEFINE T == {k \in Nat : k <= n => \A S \in SUBSET (1 .. k) : f[S] = g[S]}
<1>0. \A S \in SUBSET (1 .. n) :
        /\ f[S] = IF S = {} THEN b ELSE Op(f[S \ {Max(S)}], seq[Max(S)])
        /\ g[S] = IF S = {} THEN b ELSE Op(g[S \ {Max(S)}], tip[Max(S)])
  <2>1. SUBSET (1 .. n) \subseteq SUBSET (1 .. m)
    OBVIOUS
  <2>2. QED BY <2>1 DEF IsFold
<1>1. 0 \in T
  <2>1. 1 .. 0 = {} /\ {} \in SUBSET (1 .. n)
    OBVIOUS
  <2>2. f[{}] = g[{}]
    BY <1>0, <2>1
  <2>3. \A S \in SUBSET (1 .. 0) : S = {}
    BY <2>1
  <2>4. \A S \in SUBSET (1 .. 0) : f[S] = g[S]
    BY <2>2, <2>3
  <2>5. QED BY <2>4
<1>2. ASSUME NEW k \in Nat, k \in T PROVE k + 1 \in T
  <2>1. ASSUME k + 1 <= n, NEW S \in SUBSET (1 .. k + 1) PROVE f[S] = g[S]
    <3>1. S \in SUBSET (1 .. n)
      BY <2>1
    <3>2. CASE S = {}
      BY <1>0, <3>1, <3>2
    <3>3. CASE S # {}
      <4>1. Max(S) \in S /\ \A i \in S : i <= Max(S)
        BY <3>3, <3>1, GreatestOf
      <4>2. S \ {Max(S)} \in SUBSET (1 .. k)
        <5>1. Max(S) \in 1 .. k + 1
          BY <4>1
        <5>2. ASSUME NEW i \in S, i # Max(S) PROVE i \in 1 .. k
          <6>1. i \in 1 .. k + 1 /\ i <= Max(S)
            BY <4>1
          <6>2. QED BY <6>1, <5>1, <5>2
        <5>3. QED BY <5>2
      <4>3. f[S \ {Max(S)}] = g[S \ {Max(S)}]
        BY <1>2, <2>1, <4>2
      <4>4. seq[Max(S)] = tip[Max(S)]
        BY <4>1, <3>1
      <4>5. QED BY <1>0, <3>1, <3>3, <4>3, <4>4
    <3>4. QED BY <3>2, <3>3
  <2>2. k + 1 <= n => \A S \in SUBSET (1 .. k + 1) : f[S] = g[S]
    BY <2>1
  <2>3. k + 1 \in Nat
    OBVIOUS
  <2>4. QED BY <2>2, <2>3
<1>3. n \in T
  <2> HIDE DEF T
  <2> QED BY <1>1, <1>2, AllNumbers
<1>4. \A S \in SUBSET (1 .. n) : f[S] = g[S]
  BY <1>3
<1>5. QED BY <1>4

LEMMA FoldIs ==
  ASSUME NEW b, NEW n \in Nat, NEW seq, DOMAIN seq = 1 .. n
  PROVE  \E f : IsFold(f, b, seq, n) /\ Fold(b, seq) = f[1 .. n]
<1> DEFINE f == CHOOSE g : g = [S \in SUBSET (1 .. n) |->
                    IF S = {} THEN b ELSE Op(g[S \ {Max(S)}], seq[Max(S)])]
<1>1. IsFold(f, b, seq, n)
  <2>1. \E g : g = [S \in SUBSET (1 .. n) |->
                     IF S = {} THEN b ELSE Op(g[S \ {Max(S)}], seq[Max(S)])]
    <3>1. \E g : IsFold(g, b, seq, n)
      BY FoldExists
    <3>2. QED BY <3>1 DEF IsFold
  <2>2. f = [S \in SUBSET (1 .. n) |->
               IF S = {} THEN b ELSE Op(f[S \ {Max(S)}], seq[Max(S)])]
    BY <2>1
  <2> HIDE DEF f
  <2>3. QED BY <2>2 DEF IsFold
<1>2. Fold(b, seq) = f[1 .. n]
  BY DEF Fold, FoldLeft, MapThenFoldSet
<1>3. QED BY <1>1, <1>2

-----------------------------------------------------------------------------
(* FoldLeft *)

THEOREM FoldNone == \A b : Fold(b, <<>>) = b
<1> SUFFICES ASSUME NEW b PROVE Fold(b, <<>>) = b
  OBVIOUS
<1>1. PICK f : IsFold(f, b, <<>>, 0) /\ Fold(b, <<>>) = f[1 .. 0]
  <2>1. DOMAIN <<>> = 1 .. 0 /\ 0 \in Nat
    OBVIOUS
  <2>2. QED BY <2>1, FoldIs
<1>2. 1 .. 0 \in SUBSET (1 .. 0) /\ 1 .. 0 = {}
  OBVIOUS
<1>3. f[1 .. 0] = b
  BY <1>1, <1>2 DEF IsFold
<1>4. QED BY <1>1, <1>3

THEOREM FoldMore ==
  ASSUME NEW b, NEW D, NEW seq \in Seq(D), NEW x \in D
  PROVE  Fold(b, Append(seq, x)) = Op(Fold(b, seq), x)
<1> DEFINE n == Len(seq)
           tip == Append(seq, x)
<1>1. /\ n \in Nat /\ DOMAIN seq = 1 .. n /\ DOMAIN tip = 1 .. n + 1
      /\ \A i \in 1 .. n : seq[i] = tip[i]
      /\ tip[n + 1] = x
  BY LenProperties, AppendProperties
<1> HIDE DEF n, tip
<1>2. PICK f : IsFold(f, b, seq, n) /\ Fold(b, seq) = f[1 .. n]
  BY <1>1, FoldIs
<1>3. PICK g : IsFold(g, b, tip, n + 1) /\ Fold(b, tip) = g[1 .. n + 1]
  BY <1>1, FoldIs
<1>4. f[1 .. n] = g[1 .. n]
  <2> DEFINE m == n + 1
  <2>1. m \in Nat /\ n <= m /\ IsFold(g, b, tip, m) /\ \A i \in 1 .. n : seq[i] = tip[i]
    BY <1>1, <1>3
  <2> HIDE DEF m
  <2>2. QED BY <1>1, <1>2, <2>1, FoldsAgree
<1>5. Max(1 .. n + 1) = n + 1
  <2> DEFINE m == n + 1
             S == 1 .. m
  <2>1. m \in Nat /\ m \in S /\ S \in SUBSET (1 .. m) /\ \A i \in S : i \in Int /\ i <= m
    BY <1>1
  <2> HIDE DEF m, S
  <2>2. Max(S) \in S /\ \A i \in S : i <= Max(S)
    BY <2>1, GreatestOf
  <2>3. Max(S) \in Int /\ Max(S) <= m /\ m <= Max(S)
    BY <2>1, <2>2
  <2>4. Max(S) = m
    BY <2>1, <2>3
  <2>5. QED BY <2>4 DEF m, S
<1>6. (1 .. n + 1) \ {n + 1} = 1 .. n /\ 1 .. n + 1 # {}
  <2>1. \A i : i \in 1 .. n + 1 <=> i = n + 1 \/ i \in 1 .. n
    BY <1>1
  <2>2. n + 1 \notin 1 .. n
    BY <1>1
  <2>3. QED BY <2>1, <2>2
<1>7. g[1 .. n + 1] = Op(g[1 .. n], x)
  BY <1>1, <1>3, <1>5, <1>6 DEF IsFold
<1>8. QED BY <1>2, <1>3, <1>4, <1>7 DEF tip

\* A sequence that is not empty is one that has been appended to.
LEMMA Shorter ==
  ASSUME NEW D, NEW n \in Nat, NEW seq \in Seq(D), Len(seq) = n + 1
  PROVE  \E s \in Seq(D) : \E e \in D : Len(s) = n /\ seq = Append(s, e)
<1> DEFINE s == [i \in 1 .. n |-> seq[i]]
<1>1. \A i \in 1 .. n + 1 : seq[i] \in D
  BY ElementOfSeq
<1>2. s \in Seq(D) /\ Len(s) = n
  BY <1>1
<1>3. seq[n + 1] \in D
  BY <1>1
<1>4. seq = Append(s, seq[n + 1])
  BY <1>2, <1>3
<1>5. QED BY <1>2, <1>3, <1>4

\* A set of sequences that holds the empty one and every longer one holds all.
LEMMA AllSequences ==
  ASSUME NEW D, NEW S, <<>> \in S, \A s \in Seq(D), e \in D : s \in S => Append(s, e) \in S
  PROVE  Seq(D) \subseteq S
<1> DEFINE T == {n \in Nat : \A s \in Seq(D) : Len(s) = n => s \in S}
<1>1. 0 \in T
  <2>1. \A s \in Seq(D) : Len(s) = 0 => s = <<>>
    BY EmptySeq
  <2>2. QED BY <2>1
<1>2. ASSUME NEW n \in Nat, n \in T PROVE n + 1 \in T
  <2>1. ASSUME NEW s \in Seq(D), Len(s) = n + 1 PROVE s \in S
    <3>1. \E r \in Seq(D) : \E e \in D : Len(r) = n /\ s = Append(r, e)
      BY <2>1, Shorter
    <3>2. PICK r \in Seq(D), e \in D : Len(r) = n /\ s = Append(r, e)
      BY <3>1
    <3>3. r \in S
      BY <1>2, <3>2
    <3>4. QED BY <3>2, <3>3
  <2>2. QED BY <2>1
<1>3. Nat \subseteq T
  <2> HIDE DEF T
  <2> QED BY <1>1, <1>2, AllNumbers
<1>4. ASSUME NEW s \in Seq(D) PROVE s \in S
  <2>1. Len(s) \in T
    BY <1>3
  <2>2. QED BY <2>1
<1>5. QED BY <1>4

\* What every step keeps, the fold keeps.
THEOREM FoldIn ==
  ASSUME NEW D, NEW S, NEW b \in S, NEW seq \in Seq(D),
         \A x \in S, e \in D : Op(x, e) \in S
  PROVE  Fold(b, seq) \in S
<1> DEFINE T == {s \in Seq(D) : Fold(b, s) \in S}
<1>1. <<>> \in T
  BY FoldNone
<1>2. ASSUME NEW s \in Seq(D), NEW e \in D, s \in T PROVE Append(s, e) \in T
  <2>1. Fold(b, Append(s, e)) = Op(Fold(b, s), e)
    BY FoldMore
  <2>2. QED BY <1>2, <2>1
<1>3. Seq(D) \subseteq T
  <2> HIDE DEF T
  <2> QED BY <1>1, <1>2, AllSequences
<1>4. QED BY <1>3

\* One sequence after another.
THEOREM FoldConcat ==
  ASSUME NEW b, NEW D, NEW seq \in Seq(D), NEW more \in Seq(D)
  PROVE  Fold(b, seq \o more) = Fold(Fold(b, seq), more)
<1> DEFINE T == {s \in Seq(D) : Fold(b, seq \o s) = Fold(Fold(b, seq), s)}
<1>1. <<>> \in T
  BY FoldNone
<1>2. ASSUME NEW s \in Seq(D), NEW e \in D, s \in T PROVE Append(s, e) \in T
  <2> DEFINE most   == seq \o s
             longer == Append(s, e)
             all    == seq \o longer
  <2>1. all = Append(most, e) /\ most \in Seq(D) /\ longer \in Seq(D)
    OBVIOUS
  <2> HIDE DEF most, all
  <2>2. Fold(b, Append(most, e)) = Op(Fold(b, most), e)
    BY <2>1, FoldMore
  <2>3. Fold(Fold(b, seq), Append(s, e)) = Op(Fold(Fold(b, seq), s), e)
    BY FoldMore
  <2>4. Fold(b, most) = Fold(Fold(b, seq), s)
    BY <1>2 DEF most
  <2>5. Fold(b, all) = Fold(Fold(b, seq), longer)
    BY <2>1, <2>2, <2>3, <2>4
  <2> HIDE DEF longer
  <2>6. longer \in T
    BY <2>1, <2>5 DEF all
  <2> HIDE DEF T
  <2>7. QED BY <2>6 DEF longer
<1>3. Seq(D) \subseteq T
  <2> HIDE DEF T
  <2> QED BY <1>1, <1>2, AllSequences
<1>4. QED BY <1>3

\* A sequence of one.
THEOREM FoldOne ==
  ASSUME NEW b, NEW x PROVE Fold(b, <<x>>) = Op(b, x)
<1> DEFINE none == <<>>
<1>1. none \in Seq({x}) /\ <<x>> = Append(none, x) /\ Fold(b, none) = b
  BY FoldNone
<1> HIDE DEF none
<1>2. Fold(b, Append(none, x)) = Op(Fold(b, none), x)
  BY <1>1, FoldMore
<1>3. QED BY <1>1, <1>2
=============================================================================
