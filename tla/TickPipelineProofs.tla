-------------------------- MODULE TickPipelineProofs --------------------------
(***************************************************************************)
(* Proofs about TickPipeline: no part file is ever given to other ticks,   *)
(* every tick that was put on the queue is on disk once a process has      *)
(* ended in order, ticks are put on it once and in feed order, and the     *)
(* replay of a date emits every stored stamp once and in that order.       *)
(*                                                                         *)
(* The argument turns on the two threads that may write at once after a    *)
(* cancelled flush.  They write the same buffer, so where they pick the    *)
(* same number they write the same rows; and a number is picked for other  *)
(* rows only when no thread is left that could still write below it.       *)
(***************************************************************************)
EXTENDS TickPipeline, SequenceTheorems, FiniteSetTheorems, TLAPS

Dates == {DateOf[i] : i \in DOMAIN Msc}
Steps == {"pick", "write", "count", "done", "failed"}
ThreadType ==
  [date : Dates, group : Seq(DOMAIN Msc), step : Steps, part : Nat, awaited : BOOLEAN]

\* The types in full: also of what a thread holds and of the files' names.
PipelineTypes ==
  /\ TypeOK
  /\ accepted \in Seq(Ticks)
  /\ threads \subseteq ThreadType
  /\ groups \subseteq Dates
  /\ files = [f \in DOMAIN files |-> files[f]] /\ DOMAIN files \subseteq Dates \X Nat
  /\ counters = [d \in DOMAIN counters |-> counters[d]]

\* There are finitely many part numbers, used or picked.
PartsBounded ==
  \E n \in Nat : /\ \A f \in DOMAIN files : f[2] <= n
                 /\ \A t \in threads : t.part <= n

\* At most one thread is awaited, and at most one other is left over.
ThreadsApart == \A t, u \in threads : t.awaited = u.awaited => t = u

\* Where the writer is, what it awaits, and how that goes with the shutdown.
WriterWaits ==
  /\ wpc = "waiting" => threads = {} /\ groups = {} /\ Len(buffer) < FlushSize
  /\ wpc = "flushing" => \A t \in threads : t.awaited
  /\ wpc \in {"flushing", "final"} =>
       /\ buffer # <<>> /\ \E t \in threads : t.awaited
       /\ \A t \in threads : t.awaited => t.date \notin groups
  /\ wpc = "gone" =>
       /\ buffer = <<>> /\ groups = {}
       /\ \A t \in threads : ~t.awaited /\ phase = "closing"
  /\ phase \in {"running", "draining"} => wpc # "final"
  /\ phase \in {"closing", "done"} => wpc \in {"final", "gone"}
  /\ phase = "done" => threads = {} /\ wpc = "gone"
  /\ phase # "running" => cpc = "gone"

\* Threads of one date write the same rows: those of the buffer.
SameRows ==
  /\ wpc \in {"flushing", "final"} => \A t \in threads : t.group = Group(buffer, t.date)
  /\ \A t, u \in threads : t.date = u.date => t.group = u.group

\* From part p on, the files of a date hold these rows and no others.
Holds(date, p, rows) ==
  \A f \in DOMAIN files : f[1] = date /\ f[2] >= p => files[f] = rows

\* What a thread may still overwrite holds its own rows.
ThreadsOverwriteOwn ==
  /\ \A t \in threads : t.step = "pick" => Holds(t.date, NextPart(t.date), t.group)
  /\ \A t \in threads : t.step \in {"write", "count"} => Holds(t.date, t.part, t.group)
  /\ wpc = "final" => \A d \in groups : Holds(d, NextPart(d), Group(buffer, d))

\* Before the writer is cancelled, the next number of a date is past every
\* file of that date but the one that is about to be counted.
NumbersAhead ==
  wpc \in {"waiting", "flushing"} =>
    /\ \A f \in DOMAIN files :
         \/ f[2] < NextPart(f[1])
         \/ \E t \in threads : t.step = "count" /\ f = <<t.date, t.part>>
    /\ \A t \in threads : t.step = "write" => NextPart(t.date) = t.part
    /\ \A t \in threads : t.step = "count" => NextPart(t.date) <= t.part + 1

\* A written group is on disk; a failed write is known.
WrittenIsOnDisk ==
  \A t \in threads :
    /\ t.step \in {"count", "done"} => ToSet(t.group) \subseteq OnDisk
    /\ t.step = "failed" => "write" \in troubled

\* As long as nothing went wrong, an accepted tick is on the queue, in the
\* buffer or on disk, and while a flush is under way a tick of the buffer is
\* on disk unless its date is still to be written.
NothingLost ==
  troubled \cap {"write", "drain", "crash"} = {} =>
    /\ ToSet(accepted) \subseteq ToSet(queue) \cup ToSet(buffer) \cup OnDisk
    /\ phase \in {"closing", "done"} => queue = <<>>
    /\ wpc \in {"flushing", "final"} =>
         \A k \in DOMAIN buffer :
           \/ DateOf[buffer[k]] \in groups
           \/ buffer[k] \in OnDisk
           \/ \E t \in threads : t.awaited /\ t.date = DateOf[buffer[k]]

PipelineInv ==
  /\ PipelineTypes /\ PartsBounded /\ ThreadsApart /\ WriterWaits /\ SameRows
  /\ ThreadsOverwriteOwn /\ NumbersAhead /\ WrittenIsOnDisk /\ NothingLost

-----------------------------------------------------------------------------
(* Lemmas about numbers and selected rows. *)

\* A non-empty set of naturals has a least member: the intervals below its
\* members are finite sets, and one of them contains none of the others.
LEMMA LeastNat ==
  ASSUME NEW T \in SUBSET Nat, T # {}
  PROVE  \E m \in T : \A n \in T : m <= n
<1> DEFINE Below(x) == {y \in Nat : y < x}
           R == StrictSubsetOrdering(Nat)
           F == FiniteSubsetsOf(Nat)
           A == {Below(x) : x \in T}
<1>1. IsWellFoundedOn(R, F)
  BY FS_StrictSubsetOrderingWellFounded
<1>2. ASSUME NEW x \in T PROVE Below(x) \in F
  <2>1. x \in Nat /\ Below(x) \in SUBSET Nat /\ \A y \in Below(x) : y <= x
    OBVIOUS
  <2> HIDE DEF Below
  <2>2. IsFiniteSet(Below(x))
    BY <2>1, FS_BoundedSetOfNaturals
  <2>3. QED BY <2>1, <2>2 DEF FiniteSubsetsOf
<1>3. A \subseteq F /\ A # {}
  BY <1>2
<1>4. PICK U \in A : \A V \in A : ~ (<<V, U>> \in R)
  <2> HIDE DEF A, R, F
  <2> QED BY <1>1, <1>3, WFMin
<1>5. PICK m \in T : U = Below(m)
  OBVIOUS
<1>6. ASSUME NEW n \in T, n < m PROVE FALSE
  <2>1. Below(n) \in A
    OBVIOUS
  <2>2. Below(n) \subseteq U /\ Below(n) # U
    BY <1>5, <1>6
  <2>3. <<Below(n), U>> \in R
    BY <2>1, <2>2, <1>5, <1>3 DEF StrictSubsetOrdering
  <2>4. QED BY <2>1, <2>3, <1>4
<1>7. QED BY <1>6

\* A bounded set of naturals has a greatest member: its least upper bound.
LEMMA GreatestNat ==
  ASSUME NEW T \in SUBSET Nat, T # {}, NEW b \in Nat, \A n \in T : n <= b
  PROVE  \E m \in T : \A n \in T : n <= m
<1> DEFINE B == {u \in Nat : \A n \in T : n <= u}
<1>1. B \in SUBSET Nat /\ B # {}
  OBVIOUS
<1>2. PICK m \in B : \A u \in B : m <= u
  BY <1>1, LeastNat
<1>3. CASE m \in T
  BY <1>2, <1>3
<1>4. CASE m \notin T
  <2>1. \A n \in T : n < m
    BY <1>2, <1>4
  <2>2. m # 0 /\ m - 1 \in Nat
    <3>1. PICK n \in T : n < m
      BY <2>1
    <3>2. QED BY <3>1, <1>2
  <2>3. m - 1 \in B
    BY <2>1, <2>2
  <2>4. QED BY <1>2, <2>2, <2>3
<1>5. QED BY <1>3, <1>4

\* The greatest number among the files D of a date, -1 when there is none.
TopPart(D, date) == Max({f[2] : f \in {g \in D : g[1] = date}} \cup {-1})

\* _next_part on the directory: one past the greatest number found, 0 when
\* there is none.
LEMMA MaxPart ==
  ASSUME NEW D, NEW b \in Nat, NEW d,
         \A f \in D : f[2] \in Nat /\ f[2] <= b
  PROVE  LET m == TopPart(D, d)
         IN  /\ m \in Int /\ m + 1 \in Nat
             /\ \A f \in D : f[1] = d => f[2] < m + 1
             /\ m + 1 # 0 => \E f \in D : f[1] = d /\ f[2] = m
<1> DEFINE S == {f[2] : f \in {g \in D : g[1] = d}}
           m == Max(S \cup {-1})
<1>1. S \in SUBSET Nat /\ \A n \in S : n <= b
  OBVIOUS
<1>2. \E x \in S \cup {-1} : \A y \in S \cup {-1} : x >= y
  <2>1. CASE S = {}
    BY <2>1
  <2>2. CASE S # {}
    <3>1. PICK x \in S : \A y \in S : y <= x
      <4> HIDE DEF S
      <4> QED BY <1>1, <2>2, GreatestNat
    <3>2. QED BY <3>1, <1>1
  <2>3. QED BY <2>1, <2>2
<1>3. m \in S \cup {-1} /\ \A y \in S \cup {-1} : m >= y
  <2> HIDE DEF S
  <2> QED BY <1>2 DEF Max
<1>4. m \in Nat \cup {-1}
  BY <1>1, <1>3
<1> HIDE DEF m
<1>5. \A f \in D : f[1] = d => f[2] \in S
  OBVIOUS
<1>6. \A n \in S : \E f \in D : f[1] = d /\ f[2] = n
  OBVIOUS
<1> HIDE DEF S
<1>7. /\ m \in Int /\ m + 1 \in Nat
      /\ \A f \in D : f[1] = d => f[2] < m + 1
      /\ m + 1 # 0 => \E f \in D : f[1] = d /\ f[2] = m
  BY <1>1, <1>3, <1>4, <1>5, <1>6
<1>8. QED BY <1>7 DEF m, S, TopPart

\* The members of a finite set of numbers, counted from below: each has a rank of
\* its own, from 0 to the size of the set less one, and each rank is taken.
LEMMA Ranks ==
  ASSUME NEW S \in SUBSET Nat, IsFiniteSet(S)
  PROVE  LET Rank(i) == Cardinality({j \in S : j < i})
         IN  /\ Cardinality(S) \in Nat
             /\ \A i \in S : Rank(i) \in 0 .. Cardinality(S) - 1
             /\ \A i, j \in S : Rank(i) = Rank(j) => i = j
             /\ \A k \in 0 .. Cardinality(S) - 1 : \E i \in S : Rank(i) = k
             /\ \A i, j \in S : i < j => Rank(i) < Rank(j)
<1> DEFINE Under(i) == {j \in S : j < i}
           Rank(i) == Cardinality(Under(i))
<1>1. IsFiniteSet(S) /\ Cardinality(S) \in Nat
  BY FS_CardinalityType
<1>2. ASSUME NEW i \in S
      PROVE  IsFiniteSet(Under(i)) /\ Rank(i) \in 0 .. Cardinality(S) - 1
  <2>1. IsFiniteSet(S \ {i}) /\ Cardinality(S \ {i}) = Cardinality(S) - 1
    BY <1>1, FS_RemoveElement
  <2>2. Under(i) \in SUBSET (S \ {i})
    OBVIOUS
  <2> HIDE DEF Under
  <2>3. IsFiniteSet(Under(i)) /\ Cardinality(Under(i)) <= Cardinality(S) - 1
    BY <2>1, <2>2, FS_Subset
  <2>4. Cardinality(Under(i)) \in Nat
    BY <2>3, FS_CardinalityType
  <2>5. QED BY <2>3, <2>4, <1>1
<1>3. ASSUME NEW i \in S, NEW j \in S, i < j
      PROVE  Rank(i) < Rank(j)
  <2>1. Under(i) \cup {i} \in SUBSET Under(j) /\ i \notin Under(i)
    <3>1. S \subseteq Nat /\ i \in Nat /\ j \in Nat
      OBVIOUS
    <3>2. \A k \in S : k < i => k < j
      BY <1>3, <3>1
    <3>3. ~ (i < i)
      BY <3>1
    <3>4. QED BY <1>3, <3>2, <3>3
  <2>2. IsFiniteSet(Under(i)) /\ IsFiniteSet(Under(j))
    BY <1>2
  <2> HIDE DEF Under
  <2>3. Rank(i) \in Nat /\ Rank(j) \in Nat
    BY <2>2, FS_CardinalityType
  <2>4. Cardinality(Under(i) \cup {i}) = Rank(i) + 1
    BY <2>1, <2>2, FS_AddElement
  <2>5. Cardinality(Under(i) \cup {i}) <= Rank(j)
    BY <2>1, <2>2, FS_Subset
  <2>6. QED BY <2>2, <2>3, <2>4, <2>5
<1>4. ASSUME NEW i \in S, NEW j \in S, Rank(i) = Rank(j)
      PROVE  i = j
  <2>0. IsFiniteSet(Under(i))
    BY <1>2
  <2>1. Rank(i) \in Nat /\ i \in Nat /\ j \in Nat
    <3> HIDE DEF Under
    <3> QED BY <2>0, FS_CardinalityType
  <2>2. ~ (i < j) /\ ~ (j < i)
    <3> HIDE DEF Rank
    <3> QED BY <1>3, <1>4, <2>1
  <2>3. QED BY <2>1, <2>2
<1>5. \A k \in 0 .. Cardinality(S) - 1 : \E i \in S : Rank(i) = k
  <2> DEFINE T == 0 .. Cardinality(S) - 1
             f == [i \in S |-> Rank(i)]
  <2>1. f \in Injection(S, T)
    BY <1>2, <1>4 DEF Injection, IsInjective
  <2>2. IsFiniteSet(T) /\ Cardinality(T) = Cardinality(S)
    <3>1. 0 \in Int /\ Cardinality(S) - 1 \in Int
      BY <1>1
    <3>2. \A b \in Int : /\ IsFiniteSet(0 .. b)
                         /\ Cardinality(0 .. b) = IF 0 > b THEN 0 ELSE b - 0 + 1
      BY <3>1, FS_Interval
    <3>3. QED BY <3>1, <3>2, <1>1
  <2>3. f \in Surjection(S, T)
    <3> HIDE DEF f, T
    <3> QED BY <2>1, <2>2, FS_Injection
  <2>4. QED BY <2>3 DEF Surjection
<1>6. QED BY <1>1, <1>2, <1>3, <1>4, <1>5

\* The k-th number of a set.
LEMMA NthIs ==
  ASSUME NEW S \in SUBSET Nat, IsFiniteSet(S)
  PROVE  /\ Cardinality(S) \in Nat
         /\ \A k \in 1 .. Cardinality(S) : Nth(S, k) \in S
         /\ \A k, l \in 1 .. Cardinality(S) : k < l => Nth(S, k) < Nth(S, l)
         /\ \A i \in S : \E k \in 1 .. Cardinality(S) : Nth(S, k) = i
<1> DEFINE Rank(i) == Cardinality({j \in S : j < i})
           c == Cardinality(S)
<1>1. /\ c \in Nat
      /\ \A i \in S : Rank(i) \in 0 .. c - 1
      /\ \A i, j \in S : Rank(i) = Rank(j) => i = j
      /\ \A k \in 0 .. c - 1 : \E i \in S : Rank(i) = k
      /\ \A i, j \in S : i < j => Rank(i) < Rank(j)
  BY Ranks
<1> HIDE DEF Rank
<1>2. ASSUME NEW k \in 1 .. c PROVE Nth(S, k) \in S /\ Rank(Nth(S, k)) = k - 1
  <2>1. k - 1 \in 0 .. c - 1
    BY <1>1
  <2>2. \E i \in S : Rank(i) = k - 1
    <3> HIDE DEF c
    <3> QED BY <1>1, <2>1
  <2>3. QED BY <2>2 DEF Nth, Rank
<1> HIDE DEF c
<1>3. ASSUME NEW k \in 1 .. c, NEW l \in 1 .. c, k < l PROVE Nth(S, k) < Nth(S, l)
  <2>1. /\ Nth(S, k) \in S /\ Nth(S, l) \in S
        /\ Rank(Nth(S, k)) = k - 1 /\ Rank(Nth(S, l)) = l - 1
    BY <1>2
  <2>2. k \in Int /\ l \in Int /\ Nth(S, k) \in Int /\ Nth(S, l) \in Int
    <3>1. \A i \in S : i \in Int
      OBVIOUS
    <3>2. Nth(S, k) \in Int /\ Nth(S, l) \in Int
      BY <2>1, <3>1
    <3>3. c \in Nat
      BY <1>1
    <3>4. QED BY <3>2, <3>3
  <2>3. Nth(S, l) < Nth(S, k) => l - 1 < k - 1
    BY <1>1, <2>1
  <2>4. Nth(S, l) = Nth(S, k) => l - 1 = k - 1
    BY <2>1
  <2>5. QED BY <1>3, <2>2, <2>3, <2>4
<1>4. ASSUME NEW i \in S PROVE \E k \in 1 .. c : Nth(S, k) = i
  <2>1. Rank(i) \in 0 .. c - 1
    BY <1>1
  <2>2. PICK k \in 1 .. c : k - 1 = Rank(i)
    <3>1. c \in Nat /\ Rank(i) \in Int /\ Rank(i) + 1 \in 1 .. c
      BY <1>1, <2>1
    <3>2. QED BY <3>1
  <2>3. Nth(S, k) \in S /\ Rank(Nth(S, k)) = Rank(i)
    BY <1>2, <2>2
  <2>4. QED BY <1>1, <2>3
<1>5. QED BY <1>1, <1>2, <1>3, <1>4 DEF c

\* A set of positions is a finite set of numbers.
LEMMA Positions ==
  ASSUME NEW n \in Nat, NEW S \in SUBSET (1 .. n)
  PROVE  S \in SUBSET Nat /\ IsFiniteSet(S) /\ Cardinality(S) \in 0 .. n
<1>1. IsFiniteSet(1 .. n) /\ Cardinality(1 .. n) = n
  BY FS_Interval
<1>2. IsFiniteSet(S) /\ Cardinality(S) <= n
  BY <1>1, FS_Subset
<1>3. QED BY <1>2, FS_CardinalityType

\* A selection of rows is a sequence of the selected entries, no longer than
\* what it is selected from.
LEMMA RowsSelect ==
  ASSUME NEW X, NEW s \in Seq(X), NEW S \in SUBSET DOMAIN s
  PROVE  /\ Rows(s, S) \in Seq(X)
         /\ Len(Rows(s, S)) = Cardinality(S) /\ Cardinality(S) \in 0 .. Len(s)
         /\ ToSet(Rows(s, S)) = {s[k] : k \in S}
<1>1. Len(s) \in Nat /\ S \in SUBSET (1 .. Len(s)) /\ \A i \in DOMAIN s : s[i] \in X
  OBVIOUS
<1>2. S \in SUBSET Nat /\ IsFiniteSet(S) /\ Cardinality(S) \in 0 .. Len(s)
  BY <1>1, Positions
<1>3. \A k \in 1 .. Cardinality(S) : Nth(S, k) \in S
  BY <1>2, NthIs
<1>4. \A i \in S : \E k \in 1 .. Cardinality(S) : Nth(S, k) = i
  BY <1>2, NthIs
<1> DEFINE r == [k \in 1 .. Cardinality(S) |-> s[Nth(S, k)]]
<1>5. r \in Seq(X) /\ Len(r) = Cardinality(S) /\ DOMAIN r = 1 .. Cardinality(S)
  <2>1. \A k \in 1 .. Cardinality(S) : s[Nth(S, k)] \in X
    BY <1>1, <1>3
  <2>2. Cardinality(S) \in Nat
    BY <1>2
  <2>3. QED BY <2>1, <2>2
<1>6. {r[k] : k \in 1 .. Cardinality(S)} = {s[k] : k \in S}
  BY <1>3, <1>4
<1>7. QED BY <1>2, <1>5, <1>6 DEF Rows, ToSet

\* The rows of a date are those of the buffer that have the date.
LEMMA GroupIs ==
  ASSUME NEW X, NEW b \in Seq(X), NEW d
  PROVE  /\ Group(b, d) \in Seq(X)
         /\ ToSet(Group(b, d)) = {b[k] : k \in {j \in DOMAIN b : DateOf[b[j]] = d}}
<1> DEFINE S == {k \in DOMAIN b : DateOf[b[k]] = d}
<1>1. S \in SUBSET DOMAIN b
  OBVIOUS
<1>2. Group(b, d) = Rows(b, S)
  BY DEF Group
<1>3. QED BY <1>1, <1>2, RowsSelect

\* _next_part as an operator of the files' names and the counters.
Numbered(D, c, date) ==
  IF date \in DOMAIN c THEN c[date]
  ELSE TopPart(D, date) + 1

LEMMA NextPartIs == \A d : /\ NextPart(d) = Numbered(DOMAIN files, counters, d)
                           /\ NextPart(d)' = Numbered(DOMAIN files', counters', d)
BY DEF NextPart, Numbered, TopPart

LEMMA NumberedIs ==
  ASSUME NEW D, NEW c, NEW d, NEW b \in Nat,
         \A f \in D : f[2] \in Nat /\ f[2] <= b,
         \A e \in DOMAIN c : c[e] \in Nat
  PROVE  /\ Numbered(D, c, d) \in Nat
         /\ d \in DOMAIN c => Numbered(D, c, d) = c[d]
         /\ d \notin DOMAIN c =>
              /\ \A f \in D : f[1] = d => f[2] < Numbered(D, c, d)
              /\ Numbered(D, c, d) # 0 =>
                   \E f \in D : f[1] = d /\ f[2] = Numbered(D, c, d) - 1
<1> DEFINE m == TopPart(D, d)
<1>1. /\ m \in Int /\ m + 1 \in Nat
      /\ \A f \in D : f[1] = d => f[2] < m + 1
      /\ m + 1 # 0 => \E f \in D : f[1] = d /\ f[2] = m
  BY MaxPart
<1>2. CASE d \in DOMAIN c
  BY <1>2 DEF Numbered
<1>3. CASE d \notin DOMAIN c
  <2>1. Numbered(D, c, d) = m + 1
    BY <1>3 DEF Numbered
  <2> HIDE DEF m
  <2>2. QED BY <1>1, <1>3, <2>1
<1>4. QED BY <1>2, <1>3

-----------------------------------------------------------------------------
(* Types. *)

LEMMA TicksAreInFeed == TypeOK => Ticks \subseteq DOMAIN Msc /\ arrived \in Nat \ {0}
BY PipelineAssumption DEF TypeOK, Ticks

LEMMA FetchedAreTicks ==
  ASSUME TypeOK
  PROVE  Fetchable \in Seq(Ticks)
<1> DEFINE from == {i \in 1 .. arrived : Msc[i] >= cursor}
           feed == [i \in 1 .. arrived |-> i]
           some == Rows(feed, from)
<1>1. arrived \in Nat /\ feed \in Seq(Ticks) /\ from \in SUBSET DOMAIN feed
  BY TicksAreInFeed DEF Ticks
<1>2. some \in Seq(Ticks) /\ Len(some) \in Nat
  <2> HIDE DEF feed, from
  <2> QED BY <1>1, RowsSelect
<1> DEFINE n == IF Len(some) < BatchSize THEN Len(some) ELSE BatchSize
<1>3. n \in Nat /\ n <= Len(some)
  BY <1>2, PipelineAssumption
<1>4. SubSeq(some, 1, n) \in Seq(Ticks)
  <2> HIDE DEF some, n
  <2>1. \A i \in 1 .. n : some[i] \in Ticks
    BY <1>2, <1>3, ElementOfSeq
  <2>2. QED BY <1>3, <2>1, SubSeqProperties
<1>5. Fetchable = SubSeq(some, 1, n)
  BY DEF Fetchable
<1>6. QED BY <1>4, <1>5

\* What is put on the queue is put on record, and there is room for it.
LEMMA EnqueuePuts ==
  ASSUME TypeOK, Enqueue
  PROVE  /\ \E put \in Seq(Ticks) :
              /\ queue' = queue \o put /\ accepted' = accepted \o put
              /\ Len(put) <= QueueMax - Len(queue)
         /\ cursor' \in Nat
<1> DEFINE newer == {k \in DOMAIN batch : Msc[batch[k]] > cursor}
           new == NewTicks
           n == IF Len(new) < Room THEN Len(new) ELSE Room
           put == SubSeq(new, 1, n)
<1>1. batch \in Seq(Ticks) /\ newer \in SUBSET DOMAIN batch /\ new = Rows(batch, newer)
  BY DEF TypeOK, NewTicks
<1>2. new \in Seq(Ticks) /\ Len(new) \in Nat
  <2> HIDE DEF newer, new
  <2> QED BY <1>1, RowsSelect
<1>3. Room \in Nat /\ Room = QueueMax - Len(queue)
  BY PipelineAssumption, LenProperties DEF TypeOK, Room
<1>4. n \in Nat /\ n <= Len(new) /\ n <= Room
  BY <1>2, <1>3
<1>5. put \in Seq(Ticks) /\ Len(put) = n
  <2> HIDE DEF new, n
  <2>1. \A i \in 1 .. n : new[i] \in Ticks
    BY <1>2, <1>4, ElementOfSeq
  <2>2. QED BY <1>4, <2>1, SubSeqProperties
<1>6. queue' = queue \o put /\ accepted' = accepted \o put
  BY DEF Enqueue
<1>7. cursor' \in Nat
  <2>1. CASE new = <<>>
    BY <2>1 DEF Enqueue, TypeOK
  <2>2. CASE new # <<>>
    <3>1. cursor' = Msc[new[Len(new)]]
      BY <2>2 DEF Enqueue, NewCursor, Last
    <3>2. Len(new) \in 1 .. Len(new)
      BY <1>2, <2>2, EmptySeq
    <3> HIDE DEF new
    <3>3. new[Len(new)] \in Ticks
      BY <1>2, <3>2, ElementOfSeq
    <3>4. new[Len(new)] \in DOMAIN Msc
      BY <3>3, TicksAreInFeed
    <3>5. QED BY <3>1, <3>4, PipelineAssumption
  <2>3. QED BY <2>1, <2>2
<1>8. QED BY <1>3, <1>4, <1>5, <1>6, <1>7

\* A group is handed over: its date was to be written and is no longer, its
\* thread is new and awaited and has the rows of the buffer.
HandedOver(b, dates, others) ==
  \E t \in ThreadType :
    /\ t.date \in dates /\ groups' = dates \ {t.date}
    /\ threads' = others \cup {t}
    /\ t.group = Group(b, t.date) /\ t.group \in Seq(Ticks)
    /\ t.step = "pick" /\ t.part = 0 /\ t.awaited

LEMMA HandsOver ==
  ASSUME NEW b \in Seq(Ticks), NEW dates \in SUBSET Dates, NEW others,
         TypeOK, HandOver(b, dates, others)
  PROVE  HandedOver(b, dates, others)
<1>1. PICK d \in dates :
        /\ groups' = dates \ {d}
        /\ threads' = others \cup
             {[date |-> d, group |-> Group(b, d), step |-> "pick", part |-> 0,
               awaited |-> TRUE]}
  BY DEF HandOver
<1> DEFINE t == [date |-> d, group |-> Group(b, d), step |-> "pick", part |-> 0,
                 awaited |-> TRUE]
<1>2. Group(b, d) \in Seq(Ticks)
  BY GroupIs
<1>3. Group(b, d) \in Seq(DOMAIN Msc)
  BY <1>2, TicksAreInFeed, SeqMonotonic
<1>4. t \in ThreadType
  BY <1>1, <1>3 DEF ThreadType, Steps
<1>5. QED BY <1>1, <1>2, <1>4 DEF HandedOver

\* The part of the types that is about the writer's side.
WriterTypes ==
  /\ wpc \in {"waiting", "flushing", "final", "gone"}
  /\ buffer \in Seq(Ticks) /\ Len(buffer) <= FlushSize /\ groups \subseteq Dates
  /\ \A t \in threads : t \in ThreadType /\ t.group \in Seq(Ticks)
  /\ \A d \in DOMAIN counters : counters[d] \in Nat
  /\ counters = [d \in DOMAIN counters |-> counters[d]]
  /\ files = [f \in DOMAIN files |-> files[f]] /\ DOMAIN files \subseteq Dates \X Nat
  /\ \A f \in DOMAIN files : files[f] \in Seq(Ticks)

OtherTypes ==
  /\ arrived \in DOMAIN Msc
  /\ cpc \in {"sleep", "fetched", "gone"} /\ cursor \in Nat /\ batch \in Seq(Ticks)
  /\ queue \in Seq(Ticks) /\ Len(queue) <= QueueMax /\ accepted \in Seq(Ticks)
  /\ phase \in {"running", "draining", "closing", "done"} /\ run \in 0 .. MaxRun

LEMMA TypesSplit == /\ PipelineTypes <=> WriterTypes /\ OtherTypes
                    /\ PipelineTypes' <=> WriterTypes' /\ OtherTypes'
<1>1. PipelineTypes => WriterTypes /\ OtherTypes
  BY DEF PipelineTypes, WriterTypes, OtherTypes, TypeOK
<1>2. WriterTypes /\ OtherTypes => PipelineTypes
  <2>1. ASSUME WriterTypes, NEW t \in threads PROVE t.part \in Nat
    BY <2>1 DEF WriterTypes, ThreadType
  <2>2. QED BY <2>1 DEF PipelineTypes, WriterTypes, OtherTypes, TypeOK
<1>3. QED BY <1>1, <1>2, PTL

LEMMA OtherTypesKept ==
  ASSUME PipelineTypes, [Next]_vars
  PROVE  OtherTypes'
<1>0. OtherTypes /\ WriterTypes /\ TypeOK
  BY TypesSplit DEF PipelineTypes
<1> USE <1>0
<1>1. CASE TickArrives
  <2>1. arrived' \in DOMAIN Msc /\ Ticks \subseteq Ticks'
    BY <1>1, PipelineAssumption DEF TickArrives, OtherTypes, Ticks
  <2>2. batch \in Seq(Ticks') /\ queue \in Seq(Ticks') /\ accepted \in Seq(Ticks')
    BY <2>1, SeqMonotonic DEF OtherTypes
  <2>3. QED BY <1>1, <2>1, <2>2 DEF TickArrives, OtherTypes, collector, writer, history
<1>2. CASE Fetch
  BY <1>2, FetchedAreTicks DEF Fetch, OtherTypes, Ticks
<1>3. CASE Enqueue
  <2>1. PICK put \in Seq(Ticks) :
          /\ queue' = queue \o put /\ accepted' = accepted \o put
          /\ Len(put) <= QueueMax - Len(queue) /\ cursor' \in Nat
    BY <1>3, EnqueuePuts
  <2>2. /\ queue' \in Seq(Ticks) /\ accepted' \in Seq(Ticks)
        /\ Len(queue') = Len(queue) + Len(put)
    BY <2>1, ConcatProperties DEF OtherTypes
  <2>3. Len(queue') <= QueueMax
    BY <2>1, <2>2, PipelineAssumption, LenProperties DEF OtherTypes
  <2>4. QED BY <1>3, <2>1, <2>2, <2>3 DEF Enqueue, OtherTypes, Ticks
<1>4. CASE TakeTick
  <2>1. queue' \in Seq(Ticks) /\ Len(queue') = Len(queue) - 1 /\ Len(queue) \in Nat
    BY <1>4, HeadTailProperties, LenProperties DEF TakeTick, OtherTypes
  <2>2. QED BY <1>4, <2>1, PipelineAssumption DEF TakeTick, OtherTypes, Ticks, collector, history
<1>5. CASE TimeFlush \/ GroupWritten \/ GroupFailed
  BY <1>5 DEF TimeFlush, GroupWritten, GroupFailed, OtherTypes, Ticks, collector, history
<1>6. CASE Stop
  BY <1>6, EmptySeq DEF Stop, OtherTypes, Ticks, writer, history
<1>7. CASE CancelWriter \/ Exit
  BY <1>7 DEF CancelWriter, Exit, OtherTypes, Ticks, collector, history
<1>8. CASE Die
  <2>1. Len(<<>>) = 0 /\ <<>> \in Seq(Ticks)
    BY EmptySeq
  <2>2. /\ cpc' = "gone" /\ phase' = "done" /\ batch' = <<>> /\ queue' = <<>>
        /\ UNCHANGED <<arrived, cursor, run, accepted>>
    BY <1>8 DEF Die
  <2>3. QED BY <1>0, <2>1, <2>2, PipelineAssumption DEF OtherTypes, Ticks
<1>9. CASE Restart
  <2>1. Len(<<>>) = 0 /\ <<>> \in Seq(Ticks)
    BY EmptySeq
  <2>2. Msc[arrived] \in Nat
    BY PipelineAssumption DEF OtherTypes
  <2>3. /\ cpc' = "sleep" /\ phase' = "running" /\ batch' = <<>> /\ queue' = <<>>
        /\ cursor' = Msc[arrived] /\ run' = run + 1 /\ run < MaxRun
        /\ UNCHANGED <<arrived, accepted>>
    BY <1>9 DEF Restart, Started
  <2>4. run' \in 0 .. MaxRun /\ 0 <= QueueMax
    BY <2>3, PipelineAssumption DEF OtherTypes
  <2>5. QED BY <2>1, <2>2, <2>3, <2>4 DEF OtherTypes, Ticks
<1>10. ASSUME NEW t \in threads, Thread(t) PROVE OtherTypes'
  BY <1>10 DEF Thread, PickPart, WriteFile, CountPart, OtherTypes, Ticks, collector, history
<1>11. CASE UNCHANGED vars
  BY <1>11 DEF vars, collector, writer, history, OtherTypes, Ticks
<1>12. QED
  BY <1>1, <1>2, <1>3, <1>4, <1>5, <1>6, <1>7, <1>8, <1>9, <1>10, <1>11
     DEF Next, Collector, Writer, Main

LEMMA DatesOfTicks ==
  ASSUME TypeOK, NEW b \in Seq(Ticks)
  PROVE  DatesOf(b) \in SUBSET Dates
<1>1. \A k \in DOMAIN b : b[k] \in DOMAIN Msc
  BY TicksAreInFeed, ElementOfSeq, LenProperties
<1>2. QED BY <1>1 DEF DatesOf, Dates

LEMMA NextPartType ==
  ASSUME WriterTypes, PartsBounded
  PROVE  \A d : NextPart(d) \in Nat
<1>1. PICK n \in Nat : \A f \in DOMAIN files : f[2] <= n
  BY DEF PartsBounded
<1>2. \A f \in DOMAIN files : f[2] \in Nat
  BY DEF WriterTypes
<1>3. QED BY <1>1, <1>2, NumberedIs, NextPartIs DEF WriterTypes

LEMMA WriterTypesKept ==
  ASSUME PipelineTypes, PartsBounded, ThreadsApart, WriterWaits, [Next]_vars
  PROVE  WriterTypes'
<1>0. OtherTypes /\ WriterTypes /\ TypeOK
  BY TypesSplit DEF PipelineTypes
<1> USE <1>0
<1>1. CASE TickArrives
  <2>1. Ticks \subseteq Ticks'
    BY <1>1, PipelineAssumption DEF TickArrives, OtherTypes, Ticks
  <2>2. \A s \in Seq(Ticks) : s \in Seq(Ticks')
    BY <2>1, SeqMonotonic
  <2>3. QED BY <1>1, <2>2 DEF TickArrives, WriterTypes, writer
<1>2. CASE Fetch \/ Enqueue \/ Stop
  BY <1>2 DEF Fetch, Enqueue, Stop, WriterTypes, writer, Ticks
<1>3. ASSUME NEW b \in Seq(Ticks), NEW dates \in SUBSET Dates,
             NEW others, \A t \in others : t \in ThreadType /\ t.group \in Seq(Ticks),
             HandOver(b, dates, others), arrived' = arrived
      PROVE  /\ groups' \subseteq Dates
             /\ \A t \in threads' : t \in ThreadType /\ t.group \in Seq(Ticks')
  <2>1. Ticks' = Ticks
    BY <1>3 DEF Ticks
  <2>2. QED BY <1>3, <2>1, HandsOver DEF HandedOver
<1>4. CASE TakeTick
  <2>1. buffer' \in Seq(Ticks) /\ Len(buffer') = Len(buffer) + 1 /\ Len(buffer) \in Nat
    BY <1>4, HeadTailProperties, AppendProperties, LenProperties
       DEF TakeTick, OtherTypes, WriterTypes
  <2>2. Len(buffer') <= FlushSize
    BY <1>4, <2>1, PipelineAssumption DEF TakeTick, WriterWaits
  <2>3. /\ groups' \subseteq Dates /\ wpc' \in {"waiting", "flushing", "final", "gone"}
        /\ \A t \in threads' : t \in ThreadType /\ t.group \in Seq(Ticks')
    <3>1. CASE UNCHANGED <<wpc, groups, threads>>
      BY <1>4, <3>1 DEF TakeTick, WriterTypes, Ticks
    <3>2. CASE wpc' = "flushing" /\ HandOver(buffer', DatesOf(buffer'), threads)
      <4>1. DatesOf(buffer') \in SUBSET Dates
        BY <2>1, DatesOfTicks
      <4>2. QED BY <1>3, <1>4, <2>1, <3>2, <4>1 DEF TakeTick, WriterTypes
    <3>3. QED BY <1>4, <3>1, <3>2 DEF TakeTick
  <2>4. QED BY <1>4, <2>1, <2>2, <2>3 DEF TakeTick, WriterTypes, Ticks
<1>5. CASE TimeFlush
  <2>1. DatesOf(buffer) \in SUBSET Dates
    BY DatesOfTicks DEF WriterTypes
  <2>2. /\ groups' \subseteq Dates
        /\ \A t \in threads' : t \in ThreadType /\ t.group \in Seq(Ticks')
    BY <1>3, <1>5, <2>1 DEF TimeFlush, WriterTypes
  <2>3. QED BY <1>5, <2>2 DEF TimeFlush, WriterTypes, Ticks
<1>6. CASE GroupWritten
  <2>1. PICK t \in threads :
          IF groups # {}
          THEN HandOver(buffer, groups, threads \ {t}) /\ UNCHANGED <<wpc, buffer>>
          ELSE /\ threads' = threads \ {t} /\ groups' = {}
               /\ buffer' = Emptied
               /\ wpc' = IF wpc = "final" THEN "gone" ELSE "waiting"
    BY <1>6 DEF GroupWritten
  <2>2. UNCHANGED <<arrived, counters, files>>
    BY <1>6 DEF GroupWritten
  <2>3. CASE groups # {}
    <3>1. /\ groups' \subseteq Dates
          /\ \A u \in threads' : u \in ThreadType /\ u.group \in Seq(Ticks')
      BY <1>3, <2>1, <2>2, <2>3 DEF WriterTypes
    <3>2. QED BY <2>1, <2>2, <2>3, <3>1 DEF WriterTypes, Ticks
  <2>4. CASE groups = {}
    <3>1. Len(<<>>) = 0 /\ <<>> \in Seq(Ticks)
      BY EmptySeq
    <3>2. QED BY <2>1, <2>2, <2>4, <3>1, PipelineAssumption DEF WriterTypes, Emptied, Ticks
  <2>5. QED BY <2>3, <2>4
<1>7. CASE GroupFailed \/ Die \/ Restart \/ Exit
  <2>1. Len(<<>>) = 0 /\ <<>> \in Seq(Ticks)
    BY EmptySeq
  <2>2. CASE GroupFailed
    BY <2>1, <2>2, PipelineAssumption DEF GroupFailed, WriterTypes, Ticks
  <2>3. CASE Restart
    BY <2>1, <2>3, PipelineAssumption DEF Restart, Started, Empty, WriterTypes, Ticks
  <2>4. CASE Exit
    BY <2>4 DEF Exit, WriterTypes, Ticks
  <2>5. CASE Die
    <3>1. PICK torn \in SUBSET {<<t.date, t.part>> : t \in {u \in threads : u.step = "write"}} :
            files' = [g \in DOMAIN files \cup torn |-> IF g \in torn THEN Torn ELSE files[g]]
      BY <2>5 DEF Die
    <3>2. torn \subseteq Dates \X Nat
      BY <3>1 DEF WriterTypes, ThreadType
    <3>3. /\ files' = [f \in DOMAIN files' |-> files'[f]] /\ DOMAIN files' \subseteq Dates \X Nat
          /\ \A f \in DOMAIN files' : files'[f] \in Seq(Ticks)
      BY <2>1, <3>1, <3>2 DEF WriterTypes, Torn
    <3>4. /\ buffer' \in Seq(Ticks) /\ Len(buffer') <= FlushSize /\ groups' \subseteq Dates
          /\ wpc' = "gone" /\ threads' = {} /\ UNCHANGED <<counters, arrived>>
      BY <2>1, <2>5, PipelineAssumption DEF Die
    <3>5. QED BY <3>3, <3>4 DEF WriterTypes, Ticks
  <2>6. QED BY <1>7, <2>2, <2>3, <2>4, <2>5
<1>8. CASE CancelWriter
  <2>1. CASE wpc = "gone" \/ FinalBuffer = <<>>
    BY <1>8, <2>1 DEF CancelWriter, WriterTypes, Ticks
  <2>2. CASE ~(wpc = "gone" \/ FinalBuffer = <<>>)
    <3>1. DatesOf(FinalBuffer) \in SUBSET Dates /\ FinalBuffer \in Seq(Ticks)
      BY DatesOfTicks DEF WriterTypes, FinalBuffer
    <3>2. \A t \in Left : t \in ThreadType /\ t.group \in Seq(Ticks)
      BY DEF Left, WriterTypes, ThreadType
    <3>3. /\ groups' \subseteq Dates
          /\ \A t \in threads' : t \in ThreadType /\ t.group \in Seq(Ticks')
      BY <1>3, <1>8, <2>2, <3>1, <3>2 DEF CancelWriter
    <3>4. QED BY <1>8, <2>2, <3>3 DEF CancelWriter, WriterTypes, Ticks
  <2>3. QED BY <2>1, <2>2
<1>9. ASSUME NEW t \in threads, Thread(t) PROVE WriterTypes'
  <2>0. UNCHANGED <<arrived, wpc, buffer, groups>> /\ t \in ThreadType
    BY <1>9 DEF Thread, PickPart, WriteFile, CountPart, WriterTypes
  <2>1. CASE PickPart(t)
    <3>1. NextPart(t.date) \in Nat
      BY NextPartType
    <3>2. \A u \in threads' : u \in ThreadType /\ u.group \in Seq(Ticks)
      BY <2>0, <2>1, <3>1 DEF PickPart, Stepped, WriterTypes, ThreadType, Steps
    <3>3. QED BY <2>0, <2>1, <3>2 DEF PickPart, WriterTypes, Ticks
  <2>2. CASE WriteFile(t)
    <3>1. \A u \in threads' : u \in ThreadType /\ u.group \in Seq(Ticks)
      <4>1. PICK step \in {"count", "failed"} : threads' = (threads \ {t}) \cup {[t EXCEPT !.step = step]}
        BY <2>2 DEF WriteFile, Stepped
      <4>2. QED BY <2>0, <4>1 DEF WriterTypes, ThreadType, Steps
    <3>2. /\ files' = [f \in DOMAIN files' |-> files'[f]] /\ DOMAIN files' \subseteq Dates \X Nat
          /\ \A f \in DOMAIN files' : files'[f] \in Seq(Ticks)
      <4>1. /\ DOMAIN files \subseteq Dates \X Nat /\ \A f \in DOMAIN files : files[f] \in Seq(Ticks)
            /\ files = [f \in DOMAIN files |-> files[f]]
            /\ <<t.date, t.part>> \in Dates \X Nat /\ t.group \in Seq(Ticks)
        BY <1>9, <2>0 DEF WriterTypes, ThreadType
      <4>2. CASE UNCHANGED files
        BY <4>1, <4>2
      <4>3. CASE files' = [g \in DOMAIN files \cup {<<t.date, t.part>>} |->
                             IF g = <<t.date, t.part>> THEN t.group ELSE files[g]]
        BY <4>1, <4>3
      <4>4. QED BY <2>2, <4>2, <4>3 DEF WriteFile
    <3>3. QED BY <2>0, <2>2, <3>1, <3>2 DEF WriteFile, WriterTypes, Ticks
  <2>3. CASE CountPart(t)
    <3>1. \A u \in threads' : u \in ThreadType /\ u.group \in Seq(Ticks)
      BY <2>0, <2>3 DEF CountPart, Stepped, WriterTypes, ThreadType, Steps
    <3>2. /\ counters' = [d \in DOMAIN counters' |-> counters'[d]]
          /\ \A d \in DOMAIN counters' : counters'[d] \in Nat
      BY <2>0, <2>3 DEF CountPart, WriterTypes, ThreadType
    <3>3. QED BY <2>0, <2>3, <3>1, <3>2 DEF CountPart, WriterTypes, Ticks
  <2>4. QED BY <1>9, <2>1, <2>2, <2>3 DEF Thread
<1>10. CASE UNCHANGED vars
  BY <1>10 DEF vars, writer, WriterTypes, Ticks
<1>11. QED
  BY <1>1, <1>2, <1>4, <1>5, <1>6, <1>7, <1>8, <1>9, <1>10
     DEF Next, Collector, Writer, Main

-----------------------------------------------------------------------------
(* The writer and its threads. *)

\* A thread that moves on keeps its rows and whether it is awaited.
LEMMA ThreadSteps ==
  ASSUME WriterTypes, PartsBounded, NEW t \in threads, Thread(t)
  PROVE  /\ UNCHANGED <<arrived, cpc, queue, accepted, wpc, buffer, groups, phase>>
         /\ \E u \in ThreadType :
              /\ threads' = (threads \ {t}) \cup {u}
              /\ u.date = t.date /\ u.group = t.group /\ u.awaited = t.awaited
              /\ \/ PickPart(t) /\ t.step = "pick" /\ u.step = "write" /\ u.part = NextPart(t.date)
                 \/ /\ WriteFile(t) /\ t.step = "write" /\ u.part = t.part
                    /\ \/ u.step = "count" /\ DOMAIN files' = DOMAIN files \cup {<<t.date, t.part>>}
                          /\ files'[<<t.date, t.part>>] = t.group
                       \/ u.step = "failed" /\ UNCHANGED files /\ "write" \in troubled'
                 \/ CountPart(t) /\ t.step = "count" /\ u.step = "done" /\ u.part = t.part
<1>0. t \in ThreadType
  BY DEF WriterTypes
<1>1. UNCHANGED <<arrived, cpc, queue, accepted, wpc, buffer, groups, phase>>
  BY DEF Thread, PickPart, WriteFile, CountPart, collector, history
<1> HIDE DEF ThreadType
<1>2. CASE PickPart(t)
  <2> DEFINE u == [t EXCEPT !.step = "write", !.part = NextPart(t.date)]
  <2>1. threads' = (threads \ {t}) \cup {u} /\ t.step = "pick"
    BY <1>2 DEF PickPart, Stepped
  <2>2. /\ u.date = t.date /\ u.group = t.group /\ u.awaited = t.awaited
        /\ u.step = "write" /\ u.part = NextPart(t.date)
    BY <1>0 DEF ThreadType
  <2>3. NextPart(t.date) \in Nat
    BY NextPartType
  <2>4. u \in ThreadType
    BY <1>0, <2>3 DEF ThreadType, Steps
  <2>5. QED BY <1>1, <1>2, <2>1, <2>2, <2>4
<1>3. CASE WriteFile(t)
  <2>1. PICK step \in {"count", "failed"} :
          /\ t.step = "write" /\ threads' = (threads \ {t}) \cup {[t EXCEPT !.step = step]}
          /\ \/ step = "count" /\ DOMAIN files' = DOMAIN files \cup {<<t.date, t.part>>}
                /\ files'[<<t.date, t.part>>] = t.group
             \/ step = "failed" /\ UNCHANGED files /\ "write" \in troubled'
    BY <1>3 DEF WriteFile, Stepped
  <2> DEFINE u == [t EXCEPT !.step = step]
  <2>2. /\ u.date = t.date /\ u.group = t.group /\ u.awaited = t.awaited
        /\ u.step = step /\ u.part = t.part /\ u \in ThreadType
    BY <1>0 DEF ThreadType, Steps
  <2> HIDE DEF u
  <2>3. threads' = (threads \ {t}) \cup {u}
    BY <2>1 DEF u
  <2>4. QED BY <1>1, <1>3, <2>1, <2>2, <2>3
<1>4. CASE CountPart(t)
  <2> DEFINE u == [t EXCEPT !.step = "done"]
  <2>1. threads' = (threads \ {t}) \cup {u} /\ t.step = "count"
    BY <1>4 DEF CountPart, Stepped
  <2>2. /\ u.date = t.date /\ u.group = t.group /\ u.awaited = t.awaited
        /\ u.step = "done" /\ u.part = t.part /\ u \in ThreadType
    BY <1>0 DEF ThreadType, Steps
  <2>3. QED BY <1>1, <1>4, <2>1, <2>2
<1>5. QED BY <1>2, <1>3, <1>4 DEF Thread

\* What the actions of the writer do to its groups and threads.
LEMMA TakesTick ==
  ASSUME PipelineTypes, WriterWaits, TakeTick
  PROVE  /\ wpc = "waiting" /\ threads = {} /\ groups = {} /\ queue # <<>>
         /\ queue' = Tail(queue) /\ buffer' = Append(buffer, Head(queue))
         /\ buffer' \in Seq(Ticks) /\ buffer' # <<>> /\ UNCHANGED <<arrived, counters, files, phase, cpc>>
         /\ \/ wpc' = "waiting" /\ groups' = {} /\ threads' = {} /\ Len(buffer') < FlushSize
            \/ wpc' = "flushing" /\ HandedOver(buffer', DatesOf(buffer'), {})
<1>1. queue \in Seq(Ticks) /\ buffer \in Seq(Ticks) /\ TypeOK
  BY DEF PipelineTypes, TypeOK
<1>2. buffer' \in Seq(Ticks) /\ buffer' # <<>>
  BY <1>1, HeadTailProperties, AppendProperties DEF TakeTick
<1>3. DatesOf(buffer') \in SUBSET Dates
  BY <1>1, <1>2, DatesOfTicks
<1>4. wpc = "waiting" /\ threads = {} /\ groups = {}
  BY DEF TakeTick, WriterWaits
<1>5. HandOver(buffer', DatesOf(buffer'), {}) => HandedOver(buffer', DatesOf(buffer'), {})
  BY <1>1, <1>2, <1>3, HandsOver
<1>6. QED BY <1>2, <1>4, <1>5 DEF TakeTick, collector, history

LEMMA FlushesInTime ==
  ASSUME PipelineTypes, WriterWaits, TimeFlush
  PROVE  /\ wpc = "waiting" /\ threads = {} /\ groups = {} /\ wpc' = "flushing"
         /\ UNCHANGED <<arrived, queue, buffer, counters, files, phase, cpc, accepted, troubled>>
         /\ buffer # <<>> /\ HandedOver(buffer, DatesOf(buffer), {})
<1>1. buffer \in Seq(Ticks) /\ TypeOK
  BY DEF PipelineTypes, TypeOK
<1>2. DatesOf(buffer) \in SUBSET Dates
  BY <1>1, DatesOfTicks
<1>3. wpc = "waiting" /\ threads = {} /\ groups = {}
  BY DEF TimeFlush, WriterWaits
<1>4. HandOver(buffer, DatesOf(buffer), {}) => HandedOver(buffer, DatesOf(buffer), {})
  BY <1>1, <1>2, HandsOver
<1>5. QED BY <1>3, <1>4 DEF TimeFlush, collector, history

LEMMA WritesGroup ==
  ASSUME PipelineTypes, GroupWritten
  PROVE  /\ wpc \in {"flushing", "final"}
         /\ UNCHANGED <<arrived, queue, counters, files, phase, cpc, accepted, troubled>>
         /\ \E t \in threads :
              /\ t.awaited /\ t.step = "done"
              /\ \/ UNCHANGED <<wpc, buffer>> /\ HandedOver(buffer, groups, threads \ {t})
                 \/ /\ groups = {} /\ threads' = threads \ {t} /\ groups' = {} /\ buffer' = <<>>
                    /\ wpc' = IF wpc = "final" THEN "gone" ELSE "waiting"
<1>1. buffer \in Seq(Ticks) /\ TypeOK /\ groups \in SUBSET Dates
  BY DEF PipelineTypes, TypeOK
<1>2. ASSUME NEW others, HandOver(buffer, groups, others)
      PROVE  HandedOver(buffer, groups, others)
  BY <1>1, <1>2, HandsOver
<1>3. PICK t \in threads :
        /\ t.awaited /\ t.step = "done"
        /\ IF groups # {}
           THEN HandOver(buffer, groups, threads \ {t}) /\ UNCHANGED <<wpc, buffer>>
           ELSE /\ threads' = threads \ {t} /\ groups' = {}
                /\ buffer' = Emptied
                /\ wpc' = IF wpc = "final" THEN "gone" ELSE "waiting"
  BY DEF GroupWritten
<1>4. QED BY <1>2, <1>3 DEF GroupWritten, Emptied, collector, history

LEMMA CancelsWriter ==
  ASSUME PipelineTypes, CancelWriter
  PROVE  /\ phase = "draining" /\ phase' = "closing"
         /\ UNCHANGED <<arrived, queue, buffer, counters, files, cpc, accepted>>
         /\ troubled \subseteq troubled' /\ (queue # <<>> => "drain" \in troubled')
         /\ \/ wpc' = "gone" /\ (wpc = "gone" \/ buffer = <<>>) /\ UNCHANGED <<groups, threads>>
            \/ /\ wpc # "gone" /\ wpc' = "final" /\ buffer # <<>>
               /\ HandedOver(buffer, DatesOf(buffer), Left)
<1>1. buffer \in Seq(Ticks) /\ TypeOK
  BY DEF PipelineTypes, TypeOK
<1>2. DatesOf(buffer) \in SUBSET Dates
  BY <1>1, DatesOfTicks
<1>3. HandOver(buffer, DatesOf(buffer), Left) => HandedOver(buffer, DatesOf(buffer), Left)
  BY <1>1, <1>2, HandsOver
<1>4. QED BY <1>3 DEF CancelWriter, FinalBuffer, collector

LEMMA BoundKept ==
  ASSUME PipelineTypes, PartsBounded, WriterWaits, [Next]_vars
  PROVE  PartsBounded'
<1>0. WriterTypes
  BY TypesSplit
<1>1. PICK n \in Nat : /\ \A f \in DOMAIN files : f[2] <= n
                       /\ \A t \in threads : t.part <= n
  BY DEF PartsBounded
<1>2. CASE UNCHANGED writer
  BY <1>1, <1>2 DEF writer, PartsBounded
<1>3. ASSUME UNCHANGED files, NEW others \in SUBSET threads, NEW b, NEW dates,
             HandedOver(b, dates, others)
      PROVE  PartsBounded'
  <2>1. PICK u \in ThreadType : threads' = others \cup {u} /\ u.part = 0
    BY <1>3 DEF HandedOver
  <2>2. \A v \in threads' : v.part <= n
    BY <1>1, <2>1
  <2>3. QED BY <1>1, <1>3, <2>2 DEF PartsBounded
<1>4. CASE TakeTick
  <2>1. CASE threads' = {}
    BY <1>1, <1>4, <2>1 DEF PartsBounded, TakeTick
  <2>2. QED BY <1>3, <1>4, <2>1, TakesTick
<1>5. CASE TimeFlush
  BY <1>3, <1>5, FlushesInTime
<1>6. CASE GroupWritten
  <2>1. PICK t \in threads :
          \/ HandedOver(buffer, groups, threads \ {t})
          \/ threads' = threads \ {t}
    BY <1>6, WritesGroup
  <2>2. UNCHANGED files
    BY <1>6, WritesGroup
  <2>3. CASE threads' = threads \ {t}
    BY <1>1, <2>2, <2>3 DEF PartsBounded
  <2>4. CASE HandedOver(buffer, groups, threads \ {t})
    BY <1>3, <2>2, <2>4
  <2>5. QED BY <2>1, <2>3, <2>4
<1>7. CASE GroupFailed \/ Exit
  BY <1>1, <1>7 DEF GroupFailed, Exit, PartsBounded
<1>8. CASE CancelWriter
  <2>1. UNCHANGED files
    BY <1>8, CancelsWriter
  <2>2. CASE UNCHANGED threads
    BY <1>1, <2>1, <2>2 DEF PartsBounded
  <2>3. CASE HandedOver(buffer, DatesOf(buffer), Left)
    <3>1. \A t \in Left : t.part <= n
      BY <1>0, <1>1 DEF Left, WriterTypes, ThreadType
    <3>2. QED BY <1>1, <2>1, <2>3, <3>1 DEF HandedOver, PartsBounded
  <2>4. QED BY <1>8, <2>2, <2>3, CancelsWriter
<1>9. CASE Die
  <2>1. PICK torn \in SUBSET {<<t.date, t.part>> : t \in {u \in threads : u.step = "write"}} :
          files' = [g \in DOMAIN files \cup torn |-> IF g \in torn THEN Torn ELSE files[g]]
    BY <1>9 DEF Die
  <2>2. \A f \in torn : f[2] <= n
    BY <1>1, <2>1
  <2>3. DOMAIN files' = DOMAIN files \cup torn /\ threads' = {}
    BY <1>9, <2>1 DEF Die
  <2>4. QED BY <1>1, <2>2, <2>3 DEF PartsBounded
<1>10. CASE Restart
  BY <1>1, <1>10 DEF Restart, PartsBounded
<1>11. ASSUME NEW t \in threads, Thread(t) PROVE PartsBounded'
  <2>1. PICK u \in ThreadType :
          /\ threads' = (threads \ {t}) \cup {u}
          /\ \/ PickPart(t) /\ u.part = NextPart(t.date)
             \/ WriteFile(t) /\ u.part = t.part
             \/ CountPart(t) /\ u.part = t.part
    BY <1>0, <1>11, ThreadSteps
  <2>2. t.part \in Nat /\ \A v \in threads : v.part \in Nat
    BY <1>0 DEF WriterTypes, ThreadType
  <2>3. CASE PickPart(t) /\ u.part = NextPart(t.date)
    <3>1. NextPart(t.date) \in Nat
      BY <1>0, NextPartType
    <3> DEFINE m == IF n < NextPart(t.date) THEN NextPart(t.date) ELSE n
    <3>2. m \in Nat /\ n <= m /\ NextPart(t.date) <= m
      BY <3>1
    <3>3. UNCHANGED files
      BY <2>3 DEF PickPart
    <3> HIDE DEF m
    <3>4. \A f \in DOMAIN files : f[2] <= m
      BY <1>0, <1>1, <3>2 DEF WriterTypes
    <3>5. \A v \in threads' : v.part <= m
      BY <1>1, <2>1, <2>2, <2>3, <3>2
    <3>6. QED BY <3>2, <3>3, <3>4, <3>5 DEF PartsBounded
  <2>4. CASE u.part = t.part /\ (WriteFile(t) \/ CountPart(t))
    <3>1. DOMAIN files' \subseteq DOMAIN files \cup {<<t.date, t.part>>}
      BY <2>4 DEF WriteFile, CountPart
    <3>2. \A f \in DOMAIN files' : f[2] <= n
      BY <1>1, <3>1
    <3>3. \A v \in threads' : v.part <= n
      BY <1>1, <2>1, <2>4
    <3>4. QED BY <3>2, <3>3 DEF PartsBounded
  <2>5. QED BY <2>1, <2>3, <2>4
<1>12. QED
  BY <1>2, <1>4, <1>5, <1>6, <1>7, <1>8, <1>9, <1>10, <1>11
     DEF Next, Collector, Writer, Main, TickArrives, Fetch, Enqueue, Stop, vars

LEMMA ApartKept ==
  ASSUME PipelineTypes, PartsBounded, ThreadsApart, WriterWaits, [Next]_vars
  PROVE  ThreadsApart'
<1>0. WriterTypes
  BY TypesSplit
<1>1. CASE UNCHANGED writer
  BY <1>1 DEF writer, ThreadsApart
<1>2. CASE TakeTick
  BY <1>2, TakesTick DEF HandedOver, ThreadsApart
<1>3. CASE TimeFlush
  BY <1>3, FlushesInTime DEF HandedOver, ThreadsApart
<1>4. CASE GroupWritten
  <2>1. PICK t \in threads :
          /\ t.awaited
          /\ \/ HandedOver(buffer, groups, threads \ {t})
             \/ threads' = threads \ {t}
    BY <1>4, WritesGroup
  <2>2. \A u \in threads \ {t} : ~u.awaited
    BY <1>0, <2>1 DEF ThreadsApart, WriterTypes, ThreadType
  <2>3. CASE threads' = threads \ {t}
    BY <2>3 DEF ThreadsApart
  <2>4. CASE HandedOver(buffer, groups, threads \ {t})
    <3>1. PICK u \in ThreadType : threads' = (threads \ {t}) \cup {u} /\ u.awaited
      BY <2>4 DEF HandedOver
    <3>2. QED BY <2>2, <3>1 DEF ThreadsApart
  <2>5. QED BY <2>1, <2>3, <2>4
<1>5. CASE GroupFailed \/ Exit \/ Die \/ Restart
  BY <1>5 DEF GroupFailed, Exit, Die, Restart, ThreadsApart
<1>6. CASE CancelWriter
  <2>1. CASE UNCHANGED threads
    BY <2>1 DEF ThreadsApart
  <2>2. CASE wpc # "gone" /\ HandedOver(buffer, DatesOf(buffer), Left)
    <3>1. PICK u \in ThreadType : threads' = Left \cup {u} /\ u.awaited
      BY <2>2 DEF HandedOver
    <3>2. wpc \in {"waiting", "flushing"}
      BY <1>0, <1>6, <2>2, CancelsWriter DEF WriterTypes, WriterWaits
    <3>3. \A t \in threads : t.awaited
      BY <3>2 DEF WriterWaits
    <3>4. \A t, v \in threads : t = v
      BY <3>3 DEF ThreadsApart
    <3>5. \A t, v \in Left : t = v
      BY <3>4 DEF Left
    <3>6. \A t \in Left : ~t.awaited
      BY <1>0 DEF Left, WriterTypes, ThreadType
    <3>7. QED BY <3>1, <3>5, <3>6 DEF ThreadsApart
  <2>3. QED BY <1>6, <2>1, <2>2, CancelsWriter
<1>7. ASSUME NEW t \in threads, Thread(t) PROVE ThreadsApart'
  <2>1. PICK u \in ThreadType :
          threads' = (threads \ {t}) \cup {u} /\ u.awaited = t.awaited
    BY <1>0, <1>7, ThreadSteps
  <2>2. QED BY <2>1 DEF ThreadsApart
<1>8. QED
  BY <1>1, <1>2, <1>3, <1>4, <1>5, <1>6, <1>7
     DEF Next, Collector, Writer, Main, TickArrives, Fetch, Enqueue, Stop, vars

LEMMA WaitsKept ==
  ASSUME PipelineTypes, PartsBounded, ThreadsApart, WriterWaits, [Next]_vars
  PROVE  WriterWaits'
<1>0. WriterTypes /\ OtherTypes
  BY TypesSplit
<1>1. CASE UNCHANGED <<writer, phase>> /\ (cpc' = cpc \/ phase = "running")
  BY <1>1 DEF writer, WriterWaits
<1>2. CASE TickArrives \/ Fetch \/ Enqueue \/ UNCHANGED vars
  BY <1>1, <1>2 DEF TickArrives, Fetch, Enqueue, WriterWaits, collector, vars
<1>3. CASE TakeTick
  <2>1. phase \in {"running", "draining"}
    BY <1>0, <1>3, TakesTick DEF WriterWaits, OtherTypes
  <2>2. CASE wpc' = "waiting"
    BY <1>3, <2>1, <2>2, TakesTick DEF WriterWaits
  <2>3. CASE wpc' = "flushing" /\ HandedOver(buffer', DatesOf(buffer'), {})
    <3>1. PICK u \in ThreadType :
            groups' = DatesOf(buffer') \ {u.date} /\ threads' = {u} /\ u.awaited
      BY <2>3 DEF HandedOver
    <3>2. QED BY <1>3, <2>1, <2>3, <3>1, TakesTick DEF WriterWaits
  <2>4. QED BY <1>3, <2>2, <2>3, TakesTick
<1>4. CASE TimeFlush
  <2>1. phase \in {"running", "draining"}
    BY <1>0, <1>4, FlushesInTime DEF WriterWaits, OtherTypes
  <2>2. PICK u \in ThreadType :
          groups' = DatesOf(buffer) \ {u.date} /\ threads' = {u} /\ u.awaited
    BY <1>4, FlushesInTime DEF HandedOver
  <2>3. QED BY <1>4, <2>1, <2>2, FlushesInTime DEF WriterWaits
<1>5. CASE GroupWritten
  <2>1. PICK t \in threads :
          /\ t.awaited
          /\ \/ UNCHANGED <<wpc, buffer>> /\ HandedOver(buffer, groups, threads \ {t})
             \/ /\ groups = {} /\ threads' = threads \ {t} /\ groups' = {} /\ buffer' = <<>>
                /\ wpc' = IF wpc = "final" THEN "gone" ELSE "waiting"
    BY <1>5, WritesGroup
  <2>2. wpc \in {"flushing", "final"} /\ UNCHANGED <<phase, cpc>>
    BY <1>5, WritesGroup
  <2>3. \A u \in threads \ {t} : ~u.awaited
    BY <1>0, <2>1 DEF ThreadsApart, WriterTypes, ThreadType
  <2>4. CASE UNCHANGED <<wpc, buffer>> /\ HandedOver(buffer, groups, threads \ {t})
    <3>1. PICK u \in ThreadType :
            groups' = groups \ {u.date} /\ threads' = (threads \ {t}) \cup {u} /\ u.awaited
      BY <2>4 DEF HandedOver
    <3>2. /\ \A v \in threads' : v.awaited => v.date \notin groups'
          /\ u \in threads'
      BY <2>3, <3>1
    <3>3. wpc = "flushing" => \A v \in threads' : v.awaited
      BY <3>1 DEF WriterWaits
    <3>4. wpc' = wpc /\ phase' = phase /\ cpc' = cpc /\ buffer' # <<>>
      BY <2>2, <2>4 DEF WriterWaits
    <3>5. phase # "done"
      BY <2>2 DEF WriterWaits
    <3>6. QED BY <2>2, <3>1, <3>2, <3>3, <3>4, <3>5 DEF WriterWaits
  <2>5. CASE /\ threads' = threads \ {t} /\ groups' = {} /\ buffer' = <<>>
             /\ wpc' = IF wpc = "final" THEN "gone" ELSE "waiting"
    <3>1. CASE wpc = "final"
      <4>1. phase = "closing"
        BY <1>0, <3>1 DEF WriterWaits, OtherTypes
      <4>2. QED BY <2>2, <2>3, <2>5, <3>1, <4>1 DEF WriterWaits
    <3>2. CASE wpc = "flushing"
      <4>1. threads' = {} /\ wpc' = "waiting"
        BY <2>3, <2>5, <3>2 DEF WriterWaits
      <4>2. Len(<<>>) < FlushSize
        BY PipelineAssumption
      <4>3. phase \in {"running", "draining"}
        BY <1>0, <3>2 DEF WriterWaits, OtherTypes
      <4>4. QED BY <2>2, <2>5, <4>1, <4>2, <4>3 DEF WriterWaits
    <3>3. QED BY <2>2, <3>1, <3>2
  <2>6. QED BY <2>1, <2>4, <2>5
<1>6. CASE GroupFailed
  <2>1. PICK t \in threads : t.awaited /\ threads' = threads \ {t}
    BY <1>6 DEF GroupFailed
  <2>2. /\ wpc \in {"flushing", "final"} /\ UNCHANGED <<phase, cpc>>
        /\ wpc' = "gone" /\ groups' = {} /\ buffer' = <<>>
    BY <1>6 DEF GroupFailed, collector
  <2>3. \A u \in threads \ {t} : ~u.awaited
    BY <1>0, <2>1 DEF ThreadsApart, WriterTypes, ThreadType
  <2>4. CASE wpc = "final"
    <3>1. phase = "closing"
      BY <1>0, <2>4 DEF WriterWaits, OtherTypes
    <3>2. QED BY <2>1, <2>2, <2>3, <3>1 DEF WriterWaits
  <2>5. CASE wpc = "flushing"
    <3>1. threads' = {}
      BY <2>1, <2>3, <2>5 DEF WriterWaits
    <3>2. phase \in {"running", "draining"}
      BY <1>0, <2>5 DEF WriterWaits, OtherTypes
    <3>3. QED BY <2>2, <3>1, <3>2 DEF WriterWaits
  <2>6. QED BY <2>2, <2>4, <2>5
<1>7. CASE Stop
  BY <1>7 DEF Stop, WriterWaits, writer
<1>8. CASE CancelWriter
  <2>1. cpc = "gone" /\ UNCHANGED cpc /\ phase = "draining" /\ phase' = "closing"
    BY <1>8, CancelsWriter DEF WriterWaits
  <2>2. CASE wpc' = "gone" /\ (wpc = "gone" \/ buffer = <<>>) /\ UNCHANGED <<groups, threads>>
    <3>1. CASE wpc = "gone"
      BY <1>8, <2>1, <2>2, <3>1, CancelsWriter DEF WriterWaits
    <3>2. CASE wpc = "waiting" /\ buffer = <<>>
      BY <1>8, <2>1, <2>2, <3>2, CancelsWriter DEF WriterWaits
    <3>3. wpc # "final"
      BY <2>1 DEF WriterWaits
    <3>4. wpc = "flushing" => buffer # <<>>
      BY DEF WriterWaits
    <3>5. QED BY <1>0, <2>2, <3>1, <3>2, <3>3, <3>4 DEF WriterTypes
  <2>3. CASE wpc' = "final" /\ buffer # <<>> /\ HandedOver(buffer, DatesOf(buffer), Left)
    <3>1. PICK u \in ThreadType :
            groups' = DatesOf(buffer) \ {u.date} /\ threads' = Left \cup {u} /\ u.awaited
      BY <2>3 DEF HandedOver
    <3>2. \A t \in Left : ~t.awaited
      BY <1>0 DEF Left, WriterTypes, ThreadType
    <3>3. buffer' # <<>>
      BY <1>8, <2>3, CancelsWriter
    <3>4. QED BY <2>1, <2>3, <3>1, <3>2, <3>3 DEF WriterWaits
  <2>4. QED BY <1>8, <2>2, <2>3, CancelsWriter
<1>9. CASE Exit \/ Die
  <2>1. CASE Exit
    <3>1. buffer = <<>> /\ groups = {} /\ cpc = "gone" /\ wpc = "gone"
      BY <2>1 DEF Exit, WriterWaits
    <3>2. QED BY <2>1, <3>1 DEF Exit, WriterWaits, collector
  <2>2. CASE Die
    BY <2>2 DEF Die, WriterWaits
  <2>3. QED BY <1>9, <2>1, <2>2
<1>10. CASE Restart
  <2>1. threads = {} /\ Len(<<>>) < FlushSize
    BY <1>10, PipelineAssumption DEF Restart, WriterWaits
  <2>2. QED BY <1>10, <2>1 DEF Restart, Started, WriterWaits
<1>11. ASSUME NEW t \in threads, Thread(t) PROVE WriterWaits'
  <2>1. PICK u \in ThreadType :
          /\ threads' = (threads \ {t}) \cup {u} /\ u.awaited = t.awaited
          /\ u.date = t.date
    BY <1>0, <1>11, ThreadSteps
  <2>2. UNCHANGED <<cpc, wpc, buffer, groups, phase>>
    BY <1>0, <1>11, ThreadSteps
  <2>3. wpc # "waiting" /\ phase # "done"
    BY DEF WriterWaits
  <2>4. QED BY <2>1, <2>2, <2>3 DEF WriterWaits
<1>12. QED
  BY <1>2, <1>3, <1>4, <1>5, <1>6, <1>7, <1>8, <1>9, <1>10, <1>11
     DEF Next, Collector, Writer, Main

LEMMA SameRowsKept ==
  ASSUME PipelineTypes, PartsBounded, ThreadsApart, WriterWaits, SameRows, [Next]_vars
  PROVE  SameRows'
<1>0. WriterTypes
  BY TypesSplit
<1>1. CASE UNCHANGED writer
  BY <1>1 DEF writer, SameRows, Group
<1>2. CASE TakeTick
  BY <1>2, TakesTick DEF HandedOver, SameRows
<1>3. CASE TimeFlush
  BY <1>3, FlushesInTime DEF HandedOver, SameRows
<1>4. CASE GroupWritten
  <2>1. PICK t \in threads :
          \/ UNCHANGED <<wpc, buffer>> /\ HandedOver(buffer, groups, threads \ {t})
          \/ /\ threads' = threads \ {t}
             /\ wpc' = IF wpc = "final" THEN "gone" ELSE "waiting"
    BY <1>4, WritesGroup
  <2>2. wpc \in {"flushing", "final"}
    BY <1>4, WritesGroup
  <2>3. CASE UNCHANGED <<wpc, buffer>> /\ HandedOver(buffer, groups, threads \ {t})
    <3>1. PICK u \in ThreadType :
            threads' = (threads \ {t}) \cup {u} /\ u.group = Group(buffer, u.date)
      BY <2>3 DEF HandedOver
    <3>2. \A v \in threads' : v.group = Group(buffer, v.date)
      BY <2>2, <3>1 DEF SameRows
    <3>3. QED BY <2>3, <3>2 DEF SameRows
  <2>4. CASE /\ threads' = threads \ {t}
             /\ wpc' = IF wpc = "final" THEN "gone" ELSE "waiting"
    BY <2>4 DEF SameRows
  <2>5. QED BY <2>1, <2>3, <2>4
<1>5. CASE GroupFailed \/ Exit \/ Die \/ Restart
  <2>1. threads' \subseteq threads /\ wpc' \in {"gone", "waiting"} /\ (wpc' = "waiting" => threads' = {})
    BY <1>5 DEF GroupFailed, Exit, Die, Restart, Started, WriterWaits
  <2>2. QED BY <2>1 DEF SameRows
<1>6. CASE CancelWriter
  <2>1. CASE wpc' = "gone" /\ UNCHANGED threads
    BY <2>1 DEF SameRows
  <2>2. CASE wpc # "gone" /\ HandedOver(buffer, DatesOf(buffer), Left) /\ wpc' = "final"
    <3>1. PICK u \in ThreadType : threads' = Left \cup {u} /\ u.group = Group(buffer, u.date)
      BY <2>2 DEF HandedOver
    <3>2. wpc \in {"waiting", "flushing"}
      BY <1>0, <1>6, <2>2, CancelsWriter DEF WriterTypes, WriterWaits
    <3>3. \A t \in threads : t.group = Group(buffer, t.date)
      BY <3>2 DEF SameRows, WriterWaits
    <3>4. \A v \in Left : v.group = Group(buffer, v.date)
      BY <1>0, <3>3 DEF Left, WriterTypes, ThreadType
    <3>5. \A v \in threads' : v.group = Group(buffer, v.date)
      BY <3>1, <3>4
    <3>6. UNCHANGED buffer
      BY <1>6, CancelsWriter
    <3>7. QED BY <3>5, <3>6 DEF SameRows
  <2>3. QED BY <1>6, <2>1, <2>2, CancelsWriter
<1>7. ASSUME NEW t \in threads, Thread(t) PROVE SameRows'
  <2>1. PICK u \in ThreadType :
          threads' = (threads \ {t}) \cup {u} /\ u.group = t.group /\ u.date = t.date
    BY <1>0, <1>7, ThreadSteps
  <2>2. UNCHANGED <<wpc, buffer>>
    BY <1>0, <1>7, ThreadSteps
  <2>3. QED BY <2>1, <2>2 DEF SameRows
<1>8. QED
  BY <1>1, <1>2, <1>3, <1>4, <1>5, <1>6, <1>7
     DEF Next, Collector, Writer, Main, TickArrives, Fetch, Enqueue, Stop, vars

-----------------------------------------------------------------------------
(* The numbers of the part files. *)

\* A new file raises the next number of its own date at most, to one past it.
LEMMA NumberedGrows ==
  ASSUME NEW D, NEW c, NEW b \in Nat, NEW d, NEW e, NEW p \in Nat,
         \A f \in D : f[2] \in Nat /\ f[2] <= b,
         \A x \in DOMAIN c : c[x] \in Nat
  PROVE  LET old == Numbered(D, c, d)
             new == Numbered(D \cup {<<e, p>>}, c, d)
         IN  /\ old \in Nat /\ new \in Nat /\ old <= new
             /\ d # e => new = old
             /\ new <= old \/ new <= p + 1
<1> DEFINE D2 == D \cup {<<e, p>>}
           old == Numbered(D, c, d)
           new == Numbered(D2, c, d)
           b2 == IF b < p THEN p ELSE b
<1>1. b2 \in Nat /\ b <= b2 /\ p <= b2
  OBVIOUS
<1>2. \A f \in D2 : f[2] \in Nat /\ f[2] <= b2
  <2> HIDE DEF b2
  <2> QED BY <1>1
<1>3. CASE d \in DOMAIN c
  BY <1>3 DEF Numbered
<1>4. CASE d \notin DOMAIN c
  <2>1. /\ old \in Nat /\ \A f \in D : f[1] = d => f[2] < old
        /\ old # 0 => \E f \in D : f[1] = d /\ f[2] = old - 1
    BY <1>4, NumberedIs
  <2>2. /\ new \in Nat /\ \A f \in D2 : f[1] = d => f[2] < new
        /\ new # 0 => \E f \in D2 : f[1] = d /\ f[2] = new - 1
    <3> HIDE DEF D2, b2
    <3> QED BY <1>1, <1>2, <1>4, NumberedIs
  <2> HIDE DEF old, new
  <2>3. old <= new
    <3>1. CASE old = 0
      BY <2>2, <3>1
    <3>2. CASE old # 0
      <4>1. PICK f \in D : f[1] = d /\ f[2] = old - 1
        BY <2>1, <3>2
      <4>2. old - 1 < new
        BY <2>2, <4>1
      <4>3. QED BY <2>1, <2>2, <4>2
    <3>3. QED BY <3>1, <3>2
  <2>4. ASSUME old < new PROVE d = e /\ new = p + 1
    <3>1. new # 0
      BY <2>1, <2>2, <2>4
    <3>2. PICK f \in D2 : f[1] = d /\ f[2] = new - 1
      BY <2>2, <3>1
    <3>3. f \notin D
      BY <2>1, <2>2, <2>4, <3>2
    <3>4. f = <<e, p>>
      BY <3>2, <3>3
    <3>5. QED BY <2>2, <3>2, <3>4
  <2>5. QED BY <2>1, <2>2, <2>3, <2>4 DEF old, new
<1>5. QED BY <1>3, <1>4

\* What a step of a thread does to the files and to the next numbers.
LEMMA ThreadNumbers ==
  ASSUME WriterTypes, PartsBounded, NEW t \in threads, Thread(t)
  PROVE  /\ DOMAIN files \subseteq DOMAIN files'
         /\ \A f \in DOMAIN files' :
              \/ f \in DOMAIN files /\ files'[f] = files[f]
              \/ WriteFile(t) /\ f = <<t.date, t.part>> /\ files'[f] = t.group
         /\ \A d : d # t.date => NextPart(d)' = NextPart(d)
         /\ PickPart(t) => NextPart(t.date)' = NextPart(t.date)
         /\ WriteFile(t) =>
              /\ NextPart(t.date) <= NextPart(t.date)'
              /\ NextPart(t.date)' <= NextPart(t.date) \/ NextPart(t.date)' <= t.part + 1
         /\ CountPart(t) => NextPart(t.date)' = t.part + 1
         /\ \A d : NextPart(d)' \in Nat
<1>0. t.part \in Nat
  BY DEF WriterTypes, ThreadType
<1>1. PICK n \in Nat : \A f \in DOMAIN files : f[2] <= n
  BY DEF PartsBounded
<1>2. \A f \in DOMAIN files : f[2] \in Nat
  BY DEF WriterTypes
<1>3. \A d : NextPart(d) \in Nat
  BY NextPartType
<1>4. CASE PickPart(t)
  <2>1. t.step = "pick" /\ UNCHANGED <<files, counters>>
    BY <1>4 DEF PickPart
  <2>2. \A d : NextPart(d)' = NextPart(d)
    BY <2>1, NextPartIs
  <2>3. ~WriteFile(t) /\ ~CountPart(t)
    BY <2>1 DEF WriteFile, CountPart
  <2>4. QED BY <1>3, <2>1, <2>2, <2>3
<1>5. CASE WriteFile(t)
  <2>1. ~CountPart(t) /\ UNCHANGED counters
    BY <1>5 DEF WriteFile, CountPart
  <2>2. CASE UNCHANGED files
    <3>1. \A d : NextPart(d)' = NextPart(d)
      BY <2>1, <2>2, NextPartIs
    <3>2. QED BY <1>3, <1>5, <2>1, <2>2, <3>1
  <2>3. CASE files' = [g \in DOMAIN files \cup {<<t.date, t.part>>} |->
                         IF g = <<t.date, t.part>> THEN t.group ELSE files[g]]
    <3>1. DOMAIN files' = DOMAIN files \cup {<<t.date, t.part>>}
      BY <2>3
    <3>2. \A d : /\ NextPart(d) <= NextPart(d)' /\ NextPart(d)' \in Nat
                 /\ d # t.date => NextPart(d)' = NextPart(d)
                 /\ NextPart(d)' <= NextPart(d) \/ NextPart(d)' <= t.part + 1
      <4>1. TAKE d
      <4> DEFINE old == Numbered(DOMAIN files, counters, d)
                 new == Numbered(DOMAIN files \cup {<<t.date, t.part>>}, counters, d)
      <4>2. \A x \in DOMAIN counters : counters[x] \in Nat
        BY DEF WriterTypes
      <4>3. /\ old \in Nat /\ new \in Nat /\ old <= new
            /\ d # t.date => new = old
            /\ new <= old \/ new <= t.part + 1
        BY <1>0, <1>1, <1>2, <4>2, NumberedGrows
      <4>4. NextPart(d) = old /\ NextPart(d)' = new
        BY <2>1, <3>1, NextPartIs
      <4>5. QED BY <4>3, <4>4
    <3>3. \A f \in DOMAIN files' :
            \/ f \in DOMAIN files /\ files'[f] = files[f]
            \/ WriteFile(t) /\ f = <<t.date, t.part>> /\ files'[f] = t.group
      BY <1>5, <2>3
    <3>4. ~PickPart(t)
      BY <1>5 DEF WriteFile, PickPart
    <3>5. QED BY <2>1, <3>1, <3>2, <3>3, <3>4
  <2>4. QED BY <1>5, <2>2, <2>3 DEF WriteFile
<1>6. CASE CountPart(t)
  <2>1. /\ ~PickPart(t) /\ ~WriteFile(t) /\ UNCHANGED files
        /\ DOMAIN counters' = DOMAIN counters \cup {t.date}
        /\ \A d \in DOMAIN counters' : counters'[d] = IF d = t.date THEN t.part + 1 ELSE counters[d]
    BY <1>6 DEF CountPart, PickPart, WriteFile
  <2>2. \A d : d # t.date => NextPart(d)' = NextPart(d)
    BY <2>1, NextPartIs DEF Numbered
  <2>3. NextPart(t.date)' = t.part + 1
    BY <2>1, NextPartIs DEF Numbered
  <2>4. QED BY <1>0, <1>3, <2>1, <2>2, <2>3
<1>7. QED BY <1>4, <1>5, <1>6 DEF Thread

\* What holds of the files of a date survives a step of a thread that has
\* those rows or another date.
LEMMA HoldsKept ==
  ASSUME WriterTypes, PartsBounded, ThreadsOverwriteOwn,
         NEW t \in threads, Thread(t), NEW d, NEW rows,
         t.date = d => t.group = rows
  PROVE  /\ \A p : Holds(d, p, rows) => Holds(d, p, rows)'
         /\ Holds(d, NextPart(d), rows) => Holds(d, NextPart(d), rows)'
<1>1. \A f \in DOMAIN files' :
         \/ f \in DOMAIN files /\ files'[f] = files[f]
         \/ WriteFile(t) /\ f = <<t.date, t.part>> /\ files'[f] = t.group
  BY ThreadNumbers
<1>2. \A f \in DOMAIN files' : f[1] = d =>
         \/ f \in DOMAIN files /\ files'[f] = files[f]
         \/ files'[f] = rows
  BY <1>1
<1>3. ASSUME NEW p, Holds(d, p, rows) PROVE Holds(d, p, rows)'
  BY <1>2, <1>3 DEF Holds
<1>4. ASSUME Holds(d, NextPart(d), rows) PROVE Holds(d, NextPart(d), rows)'
  <2>0. /\ \A f \in DOMAIN files' : f[2] \in Nat
        /\ NextPart(d) \in Nat /\ NextPart(d)' \in Nat /\ t.part \in Nat
        /\ \A f \in DOMAIN files : f[2] \in Nat
    BY <1>1, ThreadNumbers, NextPartType DEF WriterTypes, ThreadType
  <2>1. CASE NextPart(d) <= NextPart(d)'
    <3>1. \A f \in DOMAIN files' : f[2] >= NextPart(d)' => f[2] >= NextPart(d)
      BY <2>0, <2>1
    <3>2. QED BY <1>2, <1>4, <3>1 DEF Holds
  <2>2. CASE CountPart(t) /\ t.date = d
    <3>1. Holds(d, t.part, rows) /\ NextPart(d)' = t.part + 1
      BY <2>2, ThreadNumbers DEF ThreadsOverwriteOwn, CountPart
    <3>2. \A f \in DOMAIN files' : f[2] >= NextPart(d)' => f[2] >= t.part
      BY <2>0, <3>1
    <3>3. QED BY <1>2, <3>1, <3>2 DEF Holds
  <2>3. QED BY <2>0, <2>1, <2>2, ThreadNumbers DEF Thread
<1>5. QED BY <1>3, <1>4

\* While the writer is not cancelled, the files past the next number are those
\* of a thread about to count them.
LEMMA AheadMeansHeld ==
  ASSUME WriterTypes, PartsBounded, ThreadsOverwriteOwn, NumbersAhead, SameRows, WriterWaits,
         wpc \in {"waiting", "flushing"}, NEW d
  PROVE  Holds(d, NextPart(d), Group(buffer, d))
<1>1. SUFFICES ASSUME NEW f \in DOMAIN files, f[1] = d, f[2] >= NextPart(d)
               PROVE  files[f] = Group(buffer, d)
  BY DEF Holds
<1>2. f[2] \in Nat /\ NextPart(d) \in Nat
  BY NextPartType DEF WriterTypes
<1>3. PICK t \in threads : t.step = "count" /\ f = <<t.date, t.part>>
  BY <1>1, <1>2 DEF NumbersAhead
<1>4. t.date = d /\ t.part \in Nat /\ f[2] = t.part
  BY <1>1, <1>3 DEF WriterTypes, ThreadType
<1>5. Holds(t.date, t.part, t.group)
  BY <1>3 DEF ThreadsOverwriteOwn
<1>6. files[f] = t.group
  BY <1>1, <1>4, <1>5 DEF Holds
<1>7. t.group = Group(buffer, d)
  BY <1>4 DEF SameRows, WriterWaits
<1>8. QED BY <1>6, <1>7

LEMMA OverwriteKept ==
  ASSUME PipelineTypes, PartsBounded, ThreadsApart, WriterWaits, SameRows,
         ThreadsOverwriteOwn, NumbersAhead, [Next]_vars
  PROVE  ThreadsOverwriteOwn'
<1>0. WriterTypes
  BY TypesSplit
<1>1. ASSUME UNCHANGED <<files, counters>>,
             \A u \in threads' :
               \/ u \in threads \cup Left
               \/ u.step = "pick" /\ Holds(u.date, NextPart(u.date), u.group),
             wpc' = "final" => \A d \in groups' : Holds(d, NextPart(d), Group(buffer', d))
      PROVE  ThreadsOverwriteOwn'
  <2>1. \A d : NextPart(d)' = NextPart(d)
    BY <1>1, NextPartIs
  <2>2. \A d, p, rows : Holds(d, p, rows)' <=> Holds(d, p, rows)
    BY <1>1 DEF Holds
  <2>3. \A t \in threads \cup Left :
          /\ t.step = "pick" => Holds(t.date, NextPart(t.date), t.group)
          /\ t.step \in {"write", "count"} => Holds(t.date, t.part, t.group)
    <3>1. \A t \in Left : \E v \in threads :
            v.step = t.step /\ v.date = t.date /\ v.part = t.part /\ v.group = t.group
      BY <1>0 DEF Left, WriterTypes, ThreadType
    <3>2. QED BY <3>1 DEF ThreadsOverwriteOwn
  <2>4. \A t \in threads' :
          /\ t.step = "pick" => Holds(t.date, NextPart(t.date), t.group)
          /\ t.step \in {"write", "count"} => Holds(t.date, t.part, t.group)
    BY <1>1, <2>3
  <2>5. /\ \A t \in threads' : t.step = "pick" => Holds(t.date, NextPart(t.date), t.group)'
        /\ \A t \in threads' : t.step \in {"write", "count"} => Holds(t.date, t.part, t.group)'
    BY <1>1, <2>1, <2>4 DEF Holds
  <2>6. wpc' = "final" => \A d \in groups' : Holds(d, NextPart(d), Group(buffer, d))'
    BY <1>1, <2>1 DEF Holds, Group
  <2>7. QED BY <2>5, <2>6 DEF ThreadsOverwriteOwn
<1>2. CASE UNCHANGED writer
  BY <1>2 DEF writer, ThreadsOverwriteOwn, Holds, NextPart, Group
<1>3. \A d, rows : wpc = "waiting" => Holds(d, NextPart(d), rows)
  <2>1. SUFFICES ASSUME wpc = "waiting", NEW f \in DOMAIN files
                 PROVE  ~ (f[2] >= NextPart(f[1]))
    BY DEF Holds
  <2>2. f[2] < NextPart(f[1])
    BY <2>1 DEF NumbersAhead, WriterWaits
  <2>3. f[2] \in Nat /\ NextPart(f[1]) \in Nat
    BY <1>0, NextPartType DEF WriterTypes
  <2>4. QED BY <2>2, <2>3
<1>4. CASE TakeTick
  <2>1. CASE threads' = {} /\ wpc' = "waiting"
    BY <2>1 DEF ThreadsOverwriteOwn
  <2>2. CASE wpc' = "flushing" /\ HandedOver(buffer', DatesOf(buffer'), {})
    <3>1. PICK u \in ThreadType : threads' = {u} /\ u.step = "pick"
      BY <2>2 DEF HandedOver
    <3>2. UNCHANGED <<files, counters>> /\ Holds(u.date, NextPart(u.date), u.group)
      BY <1>3, <1>4, TakesTick
    <3>3. QED BY <1>1, <2>2, <3>1, <3>2
  <2>3. QED BY <1>4, <2>1, <2>2, TakesTick
<1>5. CASE TimeFlush
  <2>1. PICK u \in ThreadType : threads' = {u} /\ u.step = "pick"
    BY <1>5, FlushesInTime DEF HandedOver
  <2>2. /\ UNCHANGED <<files, counters>> /\ Holds(u.date, NextPart(u.date), u.group)
        /\ wpc' = "flushing"
    BY <1>3, <1>5, FlushesInTime
  <2>3. QED BY <1>1, <2>1, <2>2
<1>6. CASE GroupWritten
  <2>1. PICK t \in threads :
          /\ t.awaited /\ t.step = "done"
          /\ \/ UNCHANGED <<wpc, buffer>> /\ HandedOver(buffer, groups, threads \ {t})
             \/ /\ threads' = threads \ {t}
                /\ wpc' = IF wpc = "final" THEN "gone" ELSE "waiting"
    BY <1>6, WritesGroup
  <2>2. wpc \in {"flushing", "final"} /\ UNCHANGED <<files, counters>>
    BY <1>6, WritesGroup
  <2>3. CASE threads' = threads \ {t} /\ wpc' # "final"
    BY <1>1, <2>2, <2>3
  <2>4. CASE UNCHANGED <<wpc, buffer>> /\ HandedOver(buffer, groups, threads \ {t})
    <3>1. PICK u \in ThreadType :
            /\ u.date \in groups /\ groups' = groups \ {u.date}
            /\ threads' = (threads \ {t}) \cup {u}
            /\ u.group = Group(buffer, u.date) /\ u.step = "pick"
      BY <2>4 DEF HandedOver
    <3>2. CASE wpc = "final"
      <4>1. \A d \in groups : Holds(d, NextPart(d), Group(buffer, d))
        BY <3>2 DEF ThreadsOverwriteOwn
      <4>2. \A d \in groups' : Holds(d, NextPart(d), Group(buffer', d))
        BY <2>4, <3>1, <4>1
      <4>3. QED BY <1>1, <2>2, <3>1, <4>1, <4>2
    <3>3. CASE wpc = "flushing"
      <4>1. Holds(u.date, NextPart(u.date), Group(buffer, u.date))
        BY <1>0, <3>3, AheadMeansHeld
      <4>2. wpc' # "final"
        BY <2>4, <3>3
      <4>3. QED BY <1>1, <2>2, <3>1, <4>1, <4>2
    <3>4. QED BY <2>2, <3>2, <3>3
  <2>5. QED BY <2>1, <2>2, <2>3, <2>4
<1>7. CASE GroupFailed \/ Exit \/ Die \/ Restart
  <2>1. CASE Die \/ Restart
    <3>1. threads' = {} /\ wpc' # "final"
      BY <2>1 DEF Die, Restart, Started, WriterWaits
    <3>2. QED BY <3>1 DEF ThreadsOverwriteOwn
  <2>2. CASE GroupFailed \/ Exit
    <3>1. threads' \subseteq threads /\ UNCHANGED <<files, counters>> /\ wpc' = "gone"
      BY <2>2 DEF GroupFailed, Exit
    <3>2. QED BY <1>1, <3>1
  <2>3. QED BY <1>7, <2>1, <2>2
<1>8. CASE CancelWriter
  <2>1. UNCHANGED <<files, counters, buffer>>
    BY <1>8, CancelsWriter
  <2>2. CASE wpc' = "gone" /\ UNCHANGED threads
    BY <1>1, <2>1, <2>2
  <2>3. CASE wpc # "gone" /\ HandedOver(buffer, DatesOf(buffer), Left)
    <3>1. PICK u \in ThreadType :
            /\ threads' = Left \cup {u}
            /\ u.group = Group(buffer, u.date) /\ u.step = "pick"
      BY <2>3 DEF HandedOver
    <3>2. wpc \in {"waiting", "flushing"}
      BY <1>0, <1>8, <2>3, CancelsWriter DEF WriterTypes, WriterWaits
    <3>3. \A d : Holds(d, NextPart(d), Group(buffer, d))
      BY <1>0, <3>2, AheadMeansHeld
    <3>4. \A d \in groups' : Holds(d, NextPart(d), Group(buffer', d))
      BY <2>1, <3>3
    <3>5. QED BY <1>1, <2>1, <3>1, <3>3, <3>4
  <2>4. QED BY <1>8, <2>2, <2>3, CancelsWriter
<1>9. ASSUME NEW t \in threads, Thread(t) PROVE ThreadsOverwriteOwn'
  <2>1. PICK u \in ThreadType :
          /\ threads' = (threads \ {t}) \cup {u} /\ u.date = t.date /\ u.group = t.group
          /\ \/ PickPart(t) /\ t.step = "pick" /\ u.step = "write" /\ u.part = NextPart(t.date)
             \/ WriteFile(t) /\ t.step = "write" /\ u.step \in {"count", "failed"} /\ u.part = t.part
             \/ CountPart(t) /\ t.step = "count" /\ u.step = "done" /\ u.part = t.part
    BY <1>0, <1>9, ThreadSteps
  <2>2. UNCHANGED <<wpc, buffer, groups>>
    BY <1>0, <1>9, ThreadSteps
  <2>3. ASSUME NEW v \in threads \ {t}
        PROVE  /\ v.step = "pick" => Holds(v.date, NextPart(v.date), v.group)'
               /\ v.step \in {"write", "count"} => Holds(v.date, v.part, v.group)'
    <3>1. t.date = v.date => t.group = v.group
      BY DEF SameRows
    <3>2. /\ v.step = "pick" => Holds(v.date, NextPart(v.date), v.group)
          /\ v.step \in {"write", "count"} => Holds(v.date, v.part, v.group)
      BY DEF ThreadsOverwriteOwn
    <3>3. /\ \A p : Holds(v.date, p, v.group) => Holds(v.date, p, v.group)'
          /\ Holds(v.date, NextPart(v.date), v.group) => Holds(v.date, NextPart(v.date), v.group)'
      BY <1>0, <1>9, <3>1, HoldsKept
    <3>4. QED BY <3>2, <3>3
  <2>4. /\ u.step # "pick"
        /\ u.step \in {"write", "count"} => Holds(u.date, u.part, u.group)'
    <3>1. \A p : Holds(t.date, p, t.group) => Holds(t.date, p, t.group)'
      BY <1>0, <1>9, HoldsKept
    <3>2. PickPart(t) => Holds(t.date, NextPart(t.date), t.group)
      BY DEF ThreadsOverwriteOwn, PickPart
    <3>3. WriteFile(t) => Holds(t.date, t.part, t.group)
      BY DEF ThreadsOverwriteOwn, WriteFile
    <3>4. QED BY <2>1, <3>1, <3>2, <3>3
  <2>5. wpc' = "final" => \A d \in groups' : Holds(d, NextPart(d), Group(buffer, d))'
    <3>1. SUFFICES ASSUME wpc = "final", NEW d \in groups
                   PROVE  Holds(d, NextPart(d), Group(buffer, d))'
      BY <2>2
    <3>2. t.date = d => t.group = Group(buffer, d)
      BY <3>1 DEF SameRows
    <3>3. Holds(d, NextPart(d), Group(buffer, d))
      BY <3>1 DEF ThreadsOverwriteOwn
    <3> DEFINE rows == Group(buffer, d)
    <3>4. Holds(d, NextPart(d), rows)'
      <4>1. ASSUME NEW r, r = Group(buffer, d) PROVE Holds(d, NextPart(d), r)'
        BY <1>0, <1>9, <3>2, <3>3, <4>1, HoldsKept
      <4>2. ASSUME NEW r, r = Group(buffer, d)
            PROVE  \A f \in DOMAIN files' : f[1] = d /\ f[2] >= NextPart(d)' => files'[f] = Group(buffer, d)
        BY <4>1, <4>2 DEF Holds
      <4>3. QED BY <2>2, <4>2 DEF Holds, Group
    <3>5. QED BY <3>4
  <2>6. QED BY <2>1, <2>3, <2>4, <2>5 DEF ThreadsOverwriteOwn
<1>10. QED
  BY <1>2, <1>4, <1>5, <1>6, <1>7, <1>8, <1>9
     DEF Next, Collector, Writer, Main, TickArrives, Fetch, Enqueue, Stop, vars

LEMMA AheadKept ==
  ASSUME PipelineTypes, PartsBounded, ThreadsApart, WriterWaits, SameRows,
         ThreadsOverwriteOwn, NumbersAhead, [Next]_vars
  PROVE  NumbersAhead'
<1>0. WriterTypes
  BY TypesSplit
<1>1. CASE UNCHANGED writer
  BY <1>1 DEF writer, NumbersAhead, NextPart
<1>2. ASSUME UNCHANGED <<files, counters>>,
             wpc \in {"waiting", "flushing"}, \A t \in threads : t.step # "count",
             \A t \in threads' : t.step = "pick"
      PROVE  NumbersAhead'
  <2>1. \A d : NextPart(d)' = NextPart(d)
    BY <1>2, NextPartIs
  <2>2. \A f \in DOMAIN files : f[2] < NextPart(f[1])
    BY <1>2 DEF NumbersAhead
  <2>3. QED BY <1>2, <2>1, <2>2 DEF NumbersAhead
<1>3. CASE TakeTick
  <2>1. \A t \in threads' : t.step = "pick"
    BY <1>3, TakesTick DEF HandedOver
  <2>2. QED BY <1>2, <1>3, <2>1, TakesTick
<1>4. CASE TimeFlush
  <2>1. \A t \in threads' : t.step = "pick"
    BY <1>4, FlushesInTime DEF HandedOver
  <2>2. QED BY <1>2, <1>4, <2>1, FlushesInTime
<1>5. CASE GroupWritten
  <2>1. PICK t \in threads :
          /\ t.awaited /\ t.step = "done"
          /\ \/ UNCHANGED <<wpc, buffer>> /\ HandedOver(buffer, groups, threads \ {t})
             \/ /\ threads' = threads \ {t}
                /\ wpc' = IF wpc = "final" THEN "gone" ELSE "waiting"
    BY <1>5, WritesGroup
  <2>2. wpc \in {"flushing", "final"} /\ UNCHANGED <<files, counters>>
    BY <1>5, WritesGroup
  <2>3. CASE wpc = "final"
    BY <2>1, <2>3 DEF NumbersAhead
  <2>4. CASE wpc = "flushing"
    <3>1. \A v \in threads : v = t
      BY <2>1, <2>4 DEF WriterWaits, ThreadsApart
    <3>2. \A v \in threads' : v.step = "pick"
      BY <2>1, <3>1 DEF HandedOver
    <3>3. QED BY <1>2, <2>1, <2>2, <2>4, <3>1, <3>2
  <2>5. QED BY <2>2, <2>3, <2>4
<1>6. CASE GroupFailed \/ Exit \/ Die \/ CancelWriter
  <2>1. wpc' \in {"gone", "final"}
    BY <1>6, CancelsWriter DEF GroupFailed, Exit, Die
  <2>2. QED BY <2>1 DEF NumbersAhead
<1>7. CASE Restart
  <2>1. threads' = {} /\ UNCHANGED files /\ DOMAIN counters' = {}
    BY <1>7 DEF Restart, Started, Empty, WriterWaits
  <2>2. PICK n \in Nat : \A f \in DOMAIN files : f[2] <= n
    BY DEF PartsBounded
  <2>3. \A f \in DOMAIN files : f[2] \in Nat
    BY <1>0 DEF WriterTypes
  <2>4. \A d : \A f \in DOMAIN files : f[1] = d => f[2] < Numbered(DOMAIN files, counters', d)
    BY <2>1, <2>2, <2>3, NumberedIs
  <2>5. \A f \in DOMAIN files : f[2] < NextPart(f[1])'
    BY <2>1, <2>4, NextPartIs
  <2>6. QED BY <2>1, <2>5 DEF NumbersAhead
<1>8. ASSUME NEW t \in threads, Thread(t) PROVE NumbersAhead'
  <2>1. PICK u \in ThreadType :
          /\ threads' = (threads \ {t}) \cup {u} /\ u.date = t.date
          /\ \/ PickPart(t) /\ t.step = "pick" /\ u.step = "write" /\ u.part = NextPart(t.date)
             \/ /\ WriteFile(t) /\ t.step = "write" /\ u.part = t.part
                /\ \/ u.step = "count" /\ DOMAIN files' = DOMAIN files \cup {<<t.date, t.part>>}
                   \/ u.step = "failed" /\ UNCHANGED files
             \/ CountPart(t) /\ t.step = "count" /\ u.step = "done" /\ u.part = t.part
    BY <1>0, <1>8, ThreadSteps
  <2>2. UNCHANGED wpc
    BY <1>0, <1>8, ThreadSteps
  <2>3. SUFFICES ASSUME wpc \in {"waiting", "flushing"}
                 PROVE  NumbersAhead'
    BY <2>2 DEF NumbersAhead
  <2>4. \A v \in threads : v = t
    BY <2>3 DEF WriterWaits, ThreadsApart
  <2>5. threads' = {u}
    BY <2>1, <2>4
  <2>6. \A d : NextPart(d) \in Nat /\ NextPart(d)' \in Nat
    BY <1>0, <1>8, NextPartType, ThreadNumbers
  <2>7. \A f \in DOMAIN files : f[2] \in Nat
    BY <1>0 DEF WriterTypes
  <2>8. \A d : d # t.date => NextPart(d)' = NextPart(d)
    BY <1>0, <1>8, ThreadNumbers
  <2>9. CASE PickPart(t)
    <3>1. /\ u.step = "write" /\ u.part = NextPart(t.date) /\ t.step = "pick"
          /\ NextPart(t.date)' = NextPart(t.date)
      BY <1>0, <1>8, <2>1, <2>9, ThreadNumbers DEF PickPart, WriteFile, CountPart
    <3>2. \A f \in DOMAIN files : f[2] < NextPart(f[1])
      BY <2>3, <2>4, <3>1 DEF NumbersAhead
    <3>3. \A f \in DOMAIN files' : f[2] < NextPart(f[1])'
      BY <2>8, <2>9, <3>1, <3>2 DEF PickPart
    <3>4. QED BY <2>1, <2>5, <3>1, <3>3 DEF NumbersAhead
  <2>10. CASE WriteFile(t)
    <3>1. /\ u.step \in {"count", "failed"} /\ u.part = t.part /\ t.step = "write"
          /\ NextPart(t.date) = t.part /\ t.part \in Nat
          /\ NextPart(t.date) <= NextPart(t.date)' /\ NextPart(t.date)' <= t.part + 1
      <4>1. NextPart(t.date) = t.part /\ t.part \in Nat
        BY <1>0, <2>3, <2>10 DEF NumbersAhead, WriteFile, WriterTypes, ThreadType
      <4>2. /\ NextPart(t.date) <= NextPart(t.date)'
            /\ NextPart(t.date)' <= NextPart(t.date) \/ NextPart(t.date)' <= t.part + 1
        BY <1>0, <1>8, <2>10, ThreadNumbers
      <4>3. NextPart(t.date)' <= t.part + 1
        BY <2>6, <4>1, <4>2
      <4>4. QED BY <2>1, <2>10, <4>1, <4>2, <4>3 DEF PickPart, WriteFile, CountPart
    <3>2. \A f \in DOMAIN files : f[2] < NextPart(f[1])
      BY <2>3, <2>4, <3>1 DEF NumbersAhead
    <3>3. \A f \in DOMAIN files : f[2] < NextPart(f[1])'
      <4>1. SUFFICES ASSUME NEW f \in DOMAIN files PROVE f[2] < NextPart(f[1])'
        OBVIOUS
      <4>2. NextPart(f[1]) <= NextPart(f[1])'
        BY <2>6, <2>8, <3>1
      <4>3. QED BY <2>6, <2>7, <3>2, <4>2
    <3>4. CASE UNCHANGED files /\ u.step = "failed"
      BY <2>5, <3>3, <3>4 DEF NumbersAhead
    <3>5. CASE DOMAIN files' = DOMAIN files \cup {<<t.date, t.part>>} /\ u.step = "count"
      BY <2>1, <2>5, <3>1, <3>3, <3>5 DEF NumbersAhead
    <3>6. (UNCHANGED files /\ u.step = "failed")
          \/ (DOMAIN files' = DOMAIN files \cup {<<t.date, t.part>>} /\ u.step = "count")
      BY <2>1, <2>10 DEF PickPart, WriteFile, CountPart
    <3>7. QED BY <3>4, <3>5, <3>6
  <2>11. CASE CountPart(t)
    <3>1. /\ u.step = "done" /\ t.step = "count" /\ t.part \in Nat
          /\ NextPart(t.date) <= t.part + 1 /\ NextPart(t.date)' = t.part + 1
      <4>1. t.step = "count" /\ t.part \in Nat /\ NextPart(t.date)' = t.part + 1
        BY <1>0, <1>8, <2>11, ThreadNumbers DEF CountPart, WriterTypes, ThreadType
      <4>2. NextPart(t.date) <= t.part + 1
        BY <2>3, <4>1 DEF NumbersAhead
      <4>3. QED BY <2>1, <4>1, <4>2
    <3>2. \A f \in DOMAIN files : f[2] < NextPart(f[1])'
      <4>1. SUFFICES ASSUME NEW f \in DOMAIN files PROVE f[2] < NextPart(f[1])'
        OBVIOUS
      <4>2. f[2] < NextPart(f[1]) \/ f = <<t.date, t.part>>
        BY <2>3, <2>4 DEF NumbersAhead
      <4>3. CASE f[1] # t.date
        BY <2>8, <4>2, <4>3
      <4>4. CASE f[1] = t.date
        BY <2>6, <2>7, <3>1, <4>2, <4>4
      <4>5. QED BY <4>3, <4>4
    <3>3. UNCHANGED files
      BY <2>11 DEF CountPart
    <3>4. QED BY <2>5, <3>1, <3>2, <3>3 DEF NumbersAhead
  <2>12. QED BY <1>8, <2>9, <2>10, <2>11 DEF Thread
<1>9. QED
  BY <1>1, <1>3, <1>4, <1>5, <1>6, <1>7, <1>8
     DEF Next, Collector, Writer, Main, TickArrives, Fetch, Enqueue, Stop, vars

-----------------------------------------------------------------------------
(* What is on disk stays there. *)

LEMMA FilesKept ==
  ASSUME PipelineTypes, PartsBounded, ThreadsOverwriteOwn, [Next]_vars
  PROVE  \A f \in DOMAIN files :
           /\ f \in DOMAIN files' /\ files'[f] \in {files[f], Torn}
           /\ ~Die => files'[f] = files[f]
<1>0. WriterTypes
  BY TypesSplit
<1>1. CASE UNCHANGED files
  BY <1>1
<1>2. ASSUME NEW t \in threads, Thread(t)
      PROVE  \A f \in DOMAIN files : f \in DOMAIN files' /\ files'[f] = files[f]
  <2>1. /\ DOMAIN files \subseteq DOMAIN files'
        /\ \A f \in DOMAIN files' :
              \/ f \in DOMAIN files /\ files'[f] = files[f]
              \/ WriteFile(t) /\ f = <<t.date, t.part>> /\ files'[f] = t.group
    BY <1>0, <1>2, ThreadNumbers
  <2>2. ASSUME NEW f \in DOMAIN files, WriteFile(t), f = <<t.date, t.part>>, files'[f] = t.group
        PROVE  files'[f] = files[f]
    <3>1. Holds(t.date, t.part, t.group)
      BY <2>2 DEF ThreadsOverwriteOwn, WriteFile
    <3>2. f[1] = t.date /\ f[2] = t.part /\ t.part \in Nat
      BY <1>0, <2>2 DEF WriterTypes, ThreadType
    <3>3. QED BY <2>2, <3>1, <3>2 DEF Holds
  <2>3. QED BY <2>1, <2>2
<1>3. CASE Die
  BY <1>3 DEF Die
<1>4. QED
  BY <1>1, <1>2, <1>3
     DEF Next, Collector, Writer, Main, TickArrives, Fetch, Enqueue, Stop, TakeTick, TimeFlush,
         GroupWritten, GroupFailed, CancelWriter, Exit, Restart, writer, vars

LEMMA DiskGrows ==
  ASSUME PipelineTypes, PartsBounded, ThreadsOverwriteOwn, [Next]_vars, ~Die
  PROVE  OnDisk \subseteq OnDisk'
<1>1. \A f \in DOMAIN files : f \in DOMAIN files' /\ files'[f] = files[f]
  BY FilesKept
<1>2. QED BY <1>1 DEF OnDisk

LEMMA TroublesStay ==
  ASSUME [Next]_vars
  PROVE  troubled \subseteq troubled'
BY DEF Next, Collector, Writer, Main, Thread, TickArrives, Fetch, Enqueue, Stop, TakeTick,
       TimeFlush, GroupWritten, GroupFailed, CancelWriter, Exit, Die, Restart, PickPart,
       WriteFile, CountPart, history, vars

LEMMA OnDiskKept ==
  ASSUME PipelineTypes, PartsBounded, WriterWaits, ThreadsOverwriteOwn, WrittenIsOnDisk,
         [Next]_vars
  PROVE  WrittenIsOnDisk'
<1>0. WriterTypes /\ troubled \subseteq troubled'
  BY TypesSplit, TroublesStay
<1>1. CASE Die
  BY <1>1 DEF Die, WrittenIsOnDisk
<1>2. ASSUME ~Die,
             \A t \in threads' :
               \/ \E v \in threads : v.step = t.step /\ v.group = t.group
               \/ t.step \notin {"count", "done", "failed"}
      PROVE  WrittenIsOnDisk'
  BY <1>0, <1>2, DiskGrows DEF WrittenIsOnDisk
<1>3. ASSUME NEW t \in threads, Thread(t) PROVE WrittenIsOnDisk'
  <2>1. PICK u \in ThreadType :
          /\ threads' = (threads \ {t}) \cup {u} /\ u.group = t.group
          /\ \/ u.step = "write"
             \/ u.step = "count" /\ DOMAIN files' = DOMAIN files \cup {<<t.date, t.part>>}
                /\ files'[<<t.date, t.part>>] = t.group
             \/ u.step = "failed" /\ "write" \in troubled'
             \/ t.step = "count" /\ u.step = "done"
    BY <1>0, <1>3, ThreadSteps
  <2>2. ~Die
    BY <1>0, <1>3, ThreadSteps DEF Die
  <2>3. u.step \in {"count", "done"} => ToSet(u.group) \subseteq OnDisk'
    <3>1. t.step = "count" => ToSet(t.group) \subseteq OnDisk'
      BY <2>2, DiskGrows DEF WrittenIsOnDisk
    <3>2. u.step = "count" => ToSet(t.group) \subseteq OnDisk'
      BY <2>1 DEF OnDisk
    <3>3. QED BY <2>1, <3>1, <3>2
  <2>4. u.step = "failed" => "write" \in troubled'
    BY <2>1
  <2>5. QED BY <1>0, <2>1, <2>2, <2>3, <2>4, DiskGrows DEF WrittenIsOnDisk
<1>4. CASE TakeTick \/ TimeFlush \/ GroupWritten
  <2>1. \A t \in threads' : t \in threads \/ t.step = "pick"
    BY <1>4, TakesTick, FlushesInTime, WritesGroup DEF HandedOver
  <2>2. ~Die
    BY <1>4 DEF TakeTick, TimeFlush, GroupWritten, Die, WriterWaits
  <2>3. QED BY <1>2, <2>1, <2>2
<1>5. CASE CancelWriter
  <2>1. \A t \in threads' : t \in threads \cup Left \/ t.step = "pick"
    BY <1>5, CancelsWriter DEF HandedOver
  <2>2. \A t \in Left : \E v \in threads : v.step = t.step /\ v.group = t.group
    BY <1>0 DEF Left, WriterTypes, ThreadType
  <2>3. ~Die
    BY <1>5 DEF CancelWriter, Die
  <2>4. QED BY <1>2, <2>1, <2>2, <2>3
<1>6. CASE GroupFailed \/ Exit \/ Restart \/ UNCHANGED threads
  <2>1. threads' \subseteq threads
    BY <1>6 DEF GroupFailed, Exit, Restart
  <2>2. QED BY <1>1, <1>2, <2>1
<1>7. QED
  BY <1>1, <1>3, <1>4, <1>5, <1>6
     DEF Next, Collector, Writer, Main, TickArrives, Fetch, Enqueue, Stop, writer, vars

-----------------------------------------------------------------------------
(* No accepted tick is lost. *)

LEMMA ToSetOfSeqs ==
  ASSUME NEW X, NEW s \in Seq(X), NEW t \in Seq(X)
  PROVE  /\ ToSet(s \o t) = ToSet(s) \cup ToSet(t)
         /\ s # <<>> => ToSet(s) = {Head(s)} \cup ToSet(Tail(s))
         /\ \A x \in X : ToSet(Append(s, x)) = ToSet(s) \cup {x}
<1>1. ToSet(s \o t) = ToSet(s) \cup ToSet(t)
  <2>1. /\ Len(s) \in Nat /\ Len(t) \in Nat /\ DOMAIN s = 1 .. Len(s) /\ DOMAIN t = 1 .. Len(t)
        /\ DOMAIN (s \o t) = 1 .. Len(s) + Len(t)
        /\ \A i \in 1 .. Len(s) + Len(t) :
             (s \o t)[i] = IF i <= Len(s) THEN s[i] ELSE t[i - Len(s)]
    BY ConcatProperties, LenProperties
  <2>2. ASSUME NEW i \in DOMAIN s PROVE i \in DOMAIN (s \o t) /\ (s \o t)[i] = s[i]
    BY <2>1
  <2>3. ASSUME NEW j \in DOMAIN t
        PROVE  j + Len(s) \in DOMAIN (s \o t) /\ (s \o t)[j + Len(s)] = t[j]
    <3>1. j + Len(s) \in 1 .. Len(s) + Len(t) /\ ~(j + Len(s) <= Len(s)) /\ (j + Len(s)) - Len(s) = j
      BY <2>1
    <3>2. QED BY <2>1, <3>1
  <2>4. ASSUME NEW i \in DOMAIN (s \o t)
        PROVE  (\E k \in DOMAIN s : (s \o t)[i] = s[k]) \/ (\E j \in DOMAIN t : (s \o t)[i] = t[j])
    <3>1. CASE i <= Len(s)
      BY <2>1, <3>1
    <3>2. CASE ~(i <= Len(s))
      <4>1. i - Len(s) \in DOMAIN t /\ (s \o t)[i] = t[i - Len(s)]
        BY <2>1, <3>2
      <4>2. QED BY <4>1
    <3>3. QED BY <3>1, <3>2
  <2> DEFINE r == s \o t
  <2> HIDE DEF r
  <2>5. ToSet(r) = ToSet(s) \cup ToSet(t)
    <3>1. /\ \A i \in DOMAIN s : i \in DOMAIN r /\ r[i] = s[i]
          /\ \A j \in DOMAIN t : \E i \in DOMAIN r : r[i] = t[j]
          /\ \A i \in DOMAIN r : (\E k \in DOMAIN s : r[i] = s[k]) \/ (\E j \in DOMAIN t : r[i] = t[j])
      BY <2>2, <2>3, <2>4 DEF r
    <3>2. QED BY <3>1 DEF ToSet
  <2>6. QED BY <2>5 DEF r
<1>2. s # <<>> => ToSet(s) = {Head(s)} \cup ToSet(Tail(s))
  <2>1. SUFFICES ASSUME s # <<>> PROVE ToSet(s) = {Head(s)} \cup ToSet(Tail(s))
    OBVIOUS
  <2>2. /\ Len(s) \in Nat \ {0} /\ DOMAIN s = 1 .. Len(s) /\ Head(s) = s[1]
        /\ DOMAIN Tail(s) = 1 .. Len(s) - 1
        /\ \A i \in 1 .. Len(s) - 1 : Tail(s)[i] = s[i + 1]
    BY <2>1, EmptySeq, LenProperties, HeadTailProperties
  <2>3. \A i \in DOMAIN s : i = 1 \/ (i - 1 \in DOMAIN Tail(s) /\ Tail(s)[i - 1] = s[i])
    BY <2>2
  <2>4. \A i \in DOMAIN Tail(s) : i + 1 \in DOMAIN s /\ Tail(s)[i] = s[i + 1]
    BY <2>2
  <2>5. 1 \in DOMAIN s
    BY <2>2
  <2> DEFINE r == Tail(s)
             h == Head(s)
  <2> HIDE DEF r, h
  <2>6. ToSet(s) = {h} \cup ToSet(r)
    <3>1. /\ \A i \in DOMAIN s : s[i] = h \/ \E j \in DOMAIN r : r[j] = s[i]
          /\ \A j \in DOMAIN r : \E i \in DOMAIN s : r[j] = s[i]
          /\ \E i \in DOMAIN s : s[i] = h
      BY <2>2, <2>3, <2>4, <2>5 DEF r, h
    <3>2. QED BY <3>1 DEF ToSet
  <2>7. QED BY <2>6 DEF r, h
<1>3. ASSUME NEW x \in X PROVE ToSet(Append(s, x)) = ToSet(s) \cup {x}
  <2>1. /\ Len(s) \in Nat /\ DOMAIN s = 1 .. Len(s) /\ DOMAIN Append(s, x) = 1 .. Len(s) + 1
        /\ \A i \in 1 .. Len(s) : Append(s, x)[i] = s[i]
        /\ Append(s, x)[Len(s) + 1] = x
    BY AppendProperties, LenProperties
  <2>2. \A i \in 1 .. Len(s) + 1 : i \in 1 .. Len(s) \/ i = Len(s) + 1
    BY <2>1
  <2>3. Len(s) + 1 \in 1 .. Len(s) + 1 /\ 1 .. Len(s) \subseteq 1 .. Len(s) + 1
    BY <2>1
  <2> DEFINE r == Append(s, x)
  <2> HIDE DEF r
  <2>4. ToSet(r) = ToSet(s) \cup {x}
    BY <2>1, <2>2, <2>3 DEF ToSet, r
  <2>5. QED BY <2>4 DEF r
<1>4. QED BY <1>1, <1>2, <1>3

Clean == troubled \cap {"write", "drain", "crash"} = {}

\* The three parts of NothingLost.
Accounted == ToSet(accepted) \subseteq ToSet(queue) \cup ToSet(buffer) \cup OnDisk
QueueIsDry == phase \in {"closing", "done"} => queue = <<>>
InFlush   ==
  wpc \in {"flushing", "final"} =>
    \A k \in DOMAIN buffer :
      \/ DateOf[buffer[k]] \in groups
      \/ buffer[k] \in OnDisk
      \/ \E t \in threads : t.awaited /\ t.date = DateOf[buffer[k]]

LEMMA NothingLostParts == /\ NothingLost <=> (Clean => Accounted /\ QueueIsDry /\ InFlush)
                          /\ NothingLost' <=> (Clean' => Accounted' /\ QueueIsDry' /\ InFlush')
BY DEF NothingLost, Clean, Accounted, QueueIsDry, InFlush, OnDisk

LEMMA LossKept ==
  ASSUME PipelineTypes, PartsBounded, ThreadsApart, WriterWaits, SameRows,
         ThreadsOverwriteOwn, WrittenIsOnDisk, NothingLost, [Next]_vars
  PROVE  NothingLost'
<1>0. /\ WriterTypes /\ OtherTypes /\ TypeOK
      /\ queue \in Seq(Ticks) /\ buffer \in Seq(Ticks) /\ accepted \in Seq(Ticks)
  BY TypesSplit DEF PipelineTypes, TypeOK
<1>1. CASE Die
  BY <1>1 DEF Die, NothingLost
<1>2. SUFFICES ASSUME Clean', ~Die
               PROVE  Accounted' /\ QueueIsDry' /\ InFlush'
  BY <1>1, NothingLostParts
<1>3. Clean /\ Accounted /\ QueueIsDry /\ InFlush
  BY <1>2, TroublesStay, NothingLostParts DEF Clean
<1>4. OnDisk \subseteq OnDisk'
  BY <1>2, DiskGrows
<1>5. ASSUME UNCHANGED <<accepted, queue, buffer, phase>> PROVE Accounted' /\ QueueIsDry'
  BY <1>3, <1>4, <1>5 DEF Accounted, QueueIsDry
<1>6. ASSUME NEW b, NEW others, HandedOver(b, DatesOf(b), others), buffer' = b PROVE InFlush'
  <2>1. PICK u \in ThreadType :
          /\ groups' = DatesOf(b) \ {u.date} /\ threads' = others \cup {u} /\ u.awaited
    BY <1>6 DEF HandedOver
  <2>2. \A k \in DOMAIN b : DateOf[b[k]] \in DatesOf(b)
    BY DEF DatesOf
  <2>3. u \in threads'
    BY <2>1
  <2>4. QED BY <1>6, <2>1, <2>2, <2>3 DEF InFlush
<1>7. CASE TickArrives \/ Fetch \/ UNCHANGED vars
  BY <1>3, <1>7 DEF TickArrives, Fetch, vars, writer, history, Accounted, QueueIsDry, InFlush, OnDisk
<1>8. CASE Enqueue
  <2>1. PICK put \in Seq(Ticks) : queue' = queue \o put /\ accepted' = accepted \o put
    BY <1>0, <1>8, EnqueuePuts
  <2>2. /\ ToSet(queue') = ToSet(queue) \cup ToSet(put)
        /\ ToSet(accepted') = ToSet(accepted) \cup ToSet(put)
    BY <1>0, <2>1, ToSetOfSeqs
  <2>3. UNCHANGED <<wpc, buffer, groups, threads, files, phase>>
    BY <1>8 DEF Enqueue, writer
  <2>4. phase = "running"
    BY <1>8 DEF Enqueue, WriterWaits
  <2>5. Accounted'
    BY <1>3, <1>4, <2>2, <2>3 DEF Accounted
  <2>6. QueueIsDry' /\ InFlush'
    BY <1>3, <2>3, <2>4 DEF QueueIsDry, InFlush, OnDisk
  <2>7. QED BY <2>5, <2>6
<1>9. CASE TakeTick
  <2>1. /\ queue # <<>> /\ queue' = Tail(queue) /\ buffer' = Append(buffer, Head(queue))
        /\ UNCHANGED <<phase, files, accepted>> /\ Head(queue) \in Ticks
    BY <1>0, <1>9, TakesTick, HeadTailProperties DEF TakeTick, history
  <2>2. /\ ToSet(queue) = {Head(queue)} \cup ToSet(queue')
        /\ ToSet(buffer') = ToSet(buffer) \cup {Head(queue)}
    BY <1>0, <2>1, ToSetOfSeqs
  <2>3. Accounted'
    BY <1>3, <1>4, <2>1, <2>2 DEF Accounted
  <2>4. QueueIsDry'
    BY <1>3, <2>1 DEF QueueIsDry
  <2>5. InFlush'
    <3>1. CASE wpc' = "waiting"
      BY <3>1 DEF InFlush
    <3>2. CASE HandedOver(buffer', DatesOf(buffer'), {})
      BY <1>6, <3>2
    <3>3. QED BY <1>9, <3>1, <3>2, TakesTick
  <2>6. QED BY <2>3, <2>4, <2>5
<1>10. CASE TimeFlush
  <2>1. UNCHANGED <<accepted, queue, buffer, phase>> /\ HandedOver(buffer, DatesOf(buffer), {})
    BY <1>10, FlushesInTime
  <2>2. QED BY <1>5, <1>6, <2>1
<1>11. CASE GroupWritten
  <2>1. PICK t \in threads :
          /\ t.awaited /\ t.step = "done"
          /\ \/ UNCHANGED <<wpc, buffer>> /\ HandedOver(buffer, groups, threads \ {t})
             \/ /\ groups = {} /\ threads' = threads \ {t} /\ groups' = {} /\ buffer' = <<>>
                /\ wpc' = IF wpc = "final" THEN "gone" ELSE "waiting"
    BY <1>11, WritesGroup
  <2>2. /\ wpc \in {"flushing", "final"}
        /\ UNCHANGED <<queue, files, phase, accepted>>
    BY <1>11, WritesGroup
  <2>3. \A k \in DOMAIN buffer : DateOf[buffer[k]] = t.date => buffer[k] \in OnDisk
    <3>1. ToSet(t.group) \subseteq OnDisk
      BY <2>1 DEF WrittenIsOnDisk
    <3>2. t.group = Group(buffer, t.date)
      BY <2>2 DEF SameRows
    <3>3. ToSet(Group(buffer, t.date)) = {buffer[k] : k \in {j \in DOMAIN buffer : DateOf[buffer[j]] = t.date}}
      BY <1>0, GroupIs
    <3>4. QED BY <3>1, <3>2, <3>3
  <2>4. \A k \in DOMAIN buffer : DateOf[buffer[k]] \in groups \/ buffer[k] \in OnDisk
    <3>1. \A v \in threads : v.awaited => v = t
      BY <2>1 DEF ThreadsApart
    <3>2. QED BY <1>3, <2>2, <2>3, <3>1 DEF InFlush
  <2>5. CASE UNCHANGED <<wpc, buffer>> /\ HandedOver(buffer, groups, threads \ {t})
    <3>1. PICK u \in ThreadType :
            groups' = groups \ {u.date} /\ threads' = (threads \ {t}) \cup {u} /\ u.awaited
      BY <2>5 DEF HandedOver
    <3>2. u \in threads'
      BY <3>1
    <3>3. InFlush'
      BY <1>4, <2>4, <2>5, <3>1, <3>2 DEF InFlush
    <3>4. QED BY <1>5, <2>2, <2>5, <3>3
  <2>6. CASE groups = {} /\ buffer' = <<>> /\ wpc' = IF wpc = "final" THEN "gone" ELSE "waiting"
    <3>1. ToSet(buffer) \subseteq OnDisk
      BY <2>4, <2>6 DEF ToSet
    <3>2. Accounted'
      BY <1>3, <1>4, <2>2, <3>1 DEF Accounted
    <3>3. QueueIsDry' /\ InFlush'
      BY <1>3, <2>2, <2>6 DEF QueueIsDry, InFlush
    <3>4. QED BY <3>2, <3>3
  <2>7. QED BY <2>1, <2>5, <2>6
<1>12. CASE GroupFailed
  BY <1>3, <1>12 DEF GroupFailed, WrittenIsOnDisk, Clean
<1>13. CASE Stop
  BY <1>3, <1>13 DEF Stop, writer, history, Accounted, QueueIsDry, InFlush, OnDisk
<1>14. CASE CancelWriter
  <2>1. UNCHANGED <<queue, buffer, accepted>> /\ (queue # <<>> => "drain" \in troubled')
    BY <1>14, CancelsWriter
  <2>2. queue' = <<>>
    BY <1>2, <2>1 DEF Clean
  <2>3. Accounted' /\ QueueIsDry'
    BY <1>3, <1>4, <2>1, <2>2 DEF Accounted, QueueIsDry
  <2>4. InFlush'
    <3>1. CASE wpc' = "gone"
      BY <3>1 DEF InFlush
    <3>2. CASE HandedOver(buffer, DatesOf(buffer), Left)
      BY <1>6, <2>1, <3>2
    <3>3. QED BY <1>14, <3>1, <3>2, CancelsWriter
  <2>5. QED BY <2>3, <2>4
<1>15. CASE Exit
  BY <1>3, <1>15 DEF Exit, history, Accounted, QueueIsDry, InFlush, OnDisk
<1>16. CASE Restart
  <2>1. buffer = <<>> /\ queue = <<>>
    BY <1>3, <1>16 DEF Restart, WriterWaits, QueueIsDry
  <2>2. UNCHANGED <<accepted, files>> /\ queue' = <<>> /\ buffer' = <<>> /\ wpc' = "waiting" /\ phase' = "running"
    BY <1>16 DEF Restart, Started
  <2>3. QED BY <1>3, <1>4, <2>1, <2>2 DEF Accounted, QueueIsDry, InFlush
<1>17. ASSUME NEW t \in threads, Thread(t) PROVE Accounted' /\ QueueIsDry' /\ InFlush'
  <2>1. UNCHANGED <<queue, accepted, wpc, buffer, groups, phase>>
    BY <1>0, <1>17, ThreadSteps
  <2>2. PICK u \in ThreadType :
          threads' = (threads \ {t}) \cup {u} /\ u.date = t.date /\ u.awaited = t.awaited
    BY <1>0, <1>17, ThreadSteps
  <2>3. InFlush'
    BY <1>3, <1>4, <2>1, <2>2 DEF InFlush
  <2>4. QED BY <1>5, <2>1, <2>3
<1>18. QED
  BY <1>2, <1>7, <1>8, <1>9, <1>10, <1>11, <1>12, <1>13, <1>14, <1>15, <1>16, <1>17
     DEF Next, Collector, Writer, Main

-----------------------------------------------------------------------------
(* The invariant, and the properties that follow from it. *)

LEMMA PipelineStarts == Init => PipelineInv
<1> SUFFICES ASSUME Init PROVE PipelineInv
  OBVIOUS
<1>1. /\ arrived = 1 /\ 1 \in DOMAIN Msc /\ cursor \in Nat
      /\ <<>> \in Seq(Ticks) /\ Len(<<>>) = 0 /\ DOMAIN Empty = {}
  BY PipelineAssumption DEF Init, Empty
<1>2. WriterTypes
  BY <1>1, PipelineAssumption DEF Init, WriterTypes, Empty
<1>3. OtherTypes
  BY <1>1, PipelineAssumption DEF Init, OtherTypes
<1>4. PartsBounded
  <2>1. DOMAIN files = {} /\ threads = {}
    BY <1>1 DEF Init
  <2>2. 0 \in Nat
    OBVIOUS
  <2>3. QED BY <2>1, <2>2 DEF PartsBounded
<1>5. ThreadsApart /\ SameRows /\ ThreadsOverwriteOwn /\ WrittenIsOnDisk
  BY DEF Init, ThreadsApart, SameRows, ThreadsOverwriteOwn, WrittenIsOnDisk
<1>6. WriterWaits
  BY <1>1, PipelineAssumption DEF Init, WriterWaits
<1>7. NumbersAhead
  BY <1>1 DEF Init, NumbersAhead
<1>8. NothingLost
  <2>1. ToSet(accepted) = {}
    BY DEF Init, ToSet
  <2>2. QED BY <2>1 DEF Init, NothingLost
<1>9. QED BY <1>2, <1>3, <1>4, <1>5, <1>6, <1>7, <1>8, TypesSplit DEF PipelineInv

LEMMA PipelineKept == PipelineInv /\ [Next]_vars => PipelineInv'
<1> SUFFICES ASSUME PipelineInv, [Next]_vars PROVE PipelineInv'
  OBVIOUS
<1> USE DEF PipelineInv
<1>1. PipelineTypes'
  BY OtherTypesKept, WriterTypesKept, TypesSplit
<1>2. PartsBounded' /\ ThreadsApart' /\ WriterWaits' /\ SameRows'
  BY BoundKept, ApartKept, WaitsKept, SameRowsKept
<1>3. ThreadsOverwriteOwn' /\ NumbersAhead' /\ WrittenIsOnDisk' /\ NothingLost'
  BY OverwriteKept, AheadKept, OnDiskKept, LossKept
<1>4. QED BY <1>1, <1>2, <1>3

\* The inductive invariant: the types in full, where writer and threads stand
\* in the shutdown, what a thread may still overwrite, and where an accepted
\* tick is.
THEOREM PipelineAlways == Spec => []PipelineInv
BY PipelineStarts, PipelineKept, PTL DEF Spec

\* PartsKept: no part file is ever given to other ticks (_next_part and
\* _write_partition of TickWriter), for every feed and every size of batch,
\* queue and buffer.
THEOREM PartFilesAreKept == Spec => PartsKept
<1>1. PipelineInv /\ [Next]_vars
        => [\A f \in DOMAIN files : f \in DOMAIN files' /\ files'[f] \in {files[f], Torn}]_files
  BY FilesKept DEF PipelineInv
<1>2. QED BY <1>1, PipelineAlways, PTL DEF Spec, PartsKept

\* AcceptedReachDisk: when a process has ended and no write failed, the drain
\* ended in time and nothing died, every tick that TickCollector put on the
\* queue is in a part file, the ticks of a flush that the shutdown cut short
\* included.
THEOREM AcceptedTicksReachDisk == Spec => []AcceptedReachDisk
<1>1. PipelineInv => AcceptedReachDisk
  <2> SUFFICES ASSUME PipelineInv PROVE AcceptedReachDisk
    OBVIOUS
  <2>1. TypeOK
    BY DEF PipelineInv, PipelineTypes
  <2>2. ASSUME phase = "done", Clean PROVE ToSet(accepted) \subseteq OnDisk
    <3>1. Accounted /\ QueueIsDry
      BY <2>2, NothingLostParts DEF PipelineInv
    <3>2. queue = <<>> /\ buffer = <<>>
      BY <2>2, <3>1 DEF PipelineInv, WriterWaits, QueueIsDry
    <3>3. ToSet(<<>>) = {}
      BY DEF ToSet
    <3>4. QED BY <3>1, <3>2, <3>3 DEF Accounted
  <2>3. QED BY <2>1, <2>2 DEF AcceptedReachDisk, Clean
<1>2. QED BY <1>1, PipelineAlways, PTL

-----------------------------------------------------------------------------
(***************************************************************************)
(* Ticks are accepted once and in the order of the feed.  The cursor is    *)
(* what makes it so: no accepted tick is newer than it, every tick that is *)
(* put on the queue is, and it never runs ahead of the feed, so that a new *)
(* process, which begins at the newest tick, does not go back.             *)
(***************************************************************************)
InOrder(q)   == \A i, j \in DOMAIN q : i < j => q[i] < q[j]
\* No tick of the one comes after a tick of the other.
Below(q, r)  == \A x \in ToSet(q), y \in ToSet(r) : x < y

FeedInv ==
  /\ accepted \in Seq(Ticks)
  /\ InOrder(accepted) /\ InOrder(batch)
  /\ \A i \in DOMAIN accepted : Msc[accepted[i]] <= cursor
  /\ cursor <= Msc[arrived]

\* A selection keeps the order.
LEMMA RowsInOrder ==
  ASSUME NEW q \in Seq(Nat), InOrder(q), NEW S \in SUBSET DOMAIN q
  PROVE  InOrder(Rows(q, S))
<1> DEFINE c == Cardinality(S)
<1>1. Len(q) \in Nat /\ S \in SUBSET (1 .. Len(q)) /\ DOMAIN q = 1 .. Len(q)
  BY LenProperties
<1>2. S \in SUBSET Nat /\ IsFiniteSet(S)
  BY <1>1, Positions
<1>3. /\ \A k \in 1 .. c : Nth(S, k) \in S
      /\ \A k, l \in 1 .. c : k < l => Nth(S, k) < Nth(S, l)
  BY <1>2, NthIs
<1> HIDE DEF c
<1>5. Rows(q, S) = [k \in 1 .. c |-> q[Nth(S, k)]]
  BY DEF Rows, c
<1>6. ASSUME NEW k \in 1 .. c, NEW l \in 1 .. c, k < l PROVE Rows(q, S)[k] < Rows(q, S)[l]
  <2>1. Nth(S, k) \in DOMAIN q /\ Nth(S, l) \in DOMAIN q /\ Nth(S, k) < Nth(S, l)
    BY <1>3, <1>6
  <2>2. q[Nth(S, k)] < q[Nth(S, l)]
    BY <2>1 DEF InOrder
  <2>3. QED BY <1>5, <2>2
<1>7. DOMAIN Rows(q, S) = 1 .. c
  BY <1>5
<1>8. QED BY <1>6, <1>7 DEF InOrder

\* So does its beginning.
LEMMA PrefixInOrder ==
  ASSUME NEW q \in Seq(Nat), InOrder(q), NEW m \in Nat, m <= Len(q)
  PROVE  /\ InOrder(SubSeq(q, 1, m)) /\ Len(SubSeq(q, 1, m)) = m
         /\ \A i \in 1 .. m : SubSeq(q, 1, m)[i] = q[i] /\ i \in 1 .. Len(q)
<1>1. Len(q) \in Nat /\ DOMAIN q = 1 .. Len(q)
  BY LenProperties
<1>2. \A i \in 1 .. m : i \in 1 .. Len(q) /\ q[i] \in Nat
  BY <1>1, ElementOfSeq
<1>3. /\ SubSeq(q, 1, m) \in Seq(Nat) /\ Len(SubSeq(q, 1, m)) = m
      /\ \A i \in 1 .. m : SubSeq(q, 1, m)[i] = q[i]
  <2>1. /\ SubSeq(q, 1, m) \in Seq(Nat)
        /\ Len(SubSeq(q, 1, m)) = IF 1 <= m THEN m - 1 + 1 ELSE 0
        /\ \A i \in 1 .. m - 1 + 1 : SubSeq(q, 1, m)[i] = q[1 + i - 1]
    BY <1>2, SubSeqProperties
  <2>2. m - 1 + 1 = m /\ \A i \in 1 .. m : 1 + i - 1 = i
    OBVIOUS
  <2>3. QED BY <2>1, <2>2
<1>4. DOMAIN SubSeq(q, 1, m) = 1 .. m
  BY <1>3, LenProperties
<1>5. QED BY <1>1, <1>2, <1>3, <1>4 DEF InOrder

LEMMA MscGrows ==
  \A i, j \in DOMAIN Msc : /\ Msc[i] \in Nat
                           /\ i \in Nat
                           /\ i <= j => Msc[i] <= Msc[j]
                           /\ Msc[i] < Msc[j] => i < j
<1>1. SUFFICES ASSUME NEW i \in DOMAIN Msc, NEW j \in DOMAIN Msc
               PROVE  /\ Msc[i] \in Nat /\ i \in Nat
                      /\ i <= j => Msc[i] <= Msc[j]
                      /\ Msc[i] < Msc[j] => i < j
  OBVIOUS
<1>2. i \in Nat /\ j \in Nat /\ Msc[i] \in Nat /\ Msc[j] \in Nat
  BY PipelineAssumption, ElementOfSeq, LenProperties
<1>3. /\ i < j => Msc[i] <= Msc[j]
      /\ j < i => Msc[j] <= Msc[i]
  BY PipelineAssumption
<1>4. QED BY <1>2, <1>3

LEMMA FeedStarts == Init => FeedInv
<1> SUFFICES ASSUME Init PROVE FeedInv
  OBVIOUS
<1>1. accepted = <<>> /\ batch = <<>> /\ cursor = Msc[1] /\ arrived = 1
  BY DEF Init
<1>2. 1 \in DOMAIN Msc
  BY PipelineAssumption, LenProperties
<1>3. Msc[1] \in Nat
  BY <1>2, PipelineAssumption, ElementOfSeq
<1>4. DOMAIN accepted = {} /\ DOMAIN batch = {} /\ accepted \in Seq(Ticks)
  BY <1>1
<1>5. QED BY <1>1, <1>3, <1>4 DEF FeedInv, InOrder

LEMMA FetchKeeps == TypeOK /\ FeedInv /\ Fetch => FeedInv'
<1> SUFFICES ASSUME TypeOK, FeedInv, Fetch PROVE FeedInv'
  OBVIOUS
<1>1. UNCHANGED <<arrived, cursor, accepted>>
  BY DEF Fetch
<1>2. InOrder(batch')
  <2>1. CASE batch' = Fetchable
    <3> DEFINE all  == [i \in 1 .. arrived |-> i]
               from == {i \in 1 .. arrived : Msc[i] >= cursor}
               some == Rows(all, from)
               m    == IF Len(some) < BatchSize THEN Len(some) ELSE BatchSize
    <3>1. arrived \in Nat
      BY TicksAreInFeed
    <3>2. /\ all \in Seq(Nat) /\ DOMAIN all = 1 .. arrived /\ InOrder(all)
          /\ from \in SUBSET DOMAIN all
      BY <3>1 DEF InOrder
    <3> HIDE DEF all, from
    <3>3. some \in Seq(Nat) /\ InOrder(some)
      BY <3>2, RowsSelect, RowsInOrder
    <3>4. Fetchable = SubSeq(some, 1, m)
      BY DEF Fetchable, all, from
    <3> HIDE DEF some
    <3>5. m \in Nat /\ m <= Len(some)
      BY <3>3, PipelineAssumption, LenProperties
    <3> HIDE DEF m
    <3>6. QED BY <2>1, <3>3, <3>4, <3>5, PrefixInOrder
  <2>2. CASE batch' = batch
    BY <2>2 DEF FeedInv
  <2>3. QED BY <2>1, <2>2 DEF Fetch
<1>3. QED BY <1>1, <1>2 DEF FeedInv, Ticks

\* What is put on the queue is in feed order and past the cursor, and the
\* cursor moves past it.
LEMMA PutsNewer ==
  ASSUME TypeOK, FeedInv, Enqueue
  PROVE  /\ cursor' \in Nat /\ cursor <= cursor' /\ cursor' <= Msc[arrived]
         /\ \E put \in Seq(Ticks) :
              /\ queue' = queue \o put /\ accepted' = accepted \o put /\ InOrder(put)
              /\ \A x \in ToSet(put) : cursor < Msc[x] /\ Msc[x] <= cursor'
<1> DEFINE newer == {k \in DOMAIN batch : Msc[batch[k]] > cursor}
           new == NewTicks
           m   == IF Len(new) < Room THEN Len(new) ELSE Room
           put == SubSeq(new, 1, m)
<1>1. /\ batch \in Seq(Ticks) /\ accepted \in Seq(Ticks) /\ cursor \in Nat
      /\ newer \in SUBSET DOMAIN batch /\ new = Rows(batch, newer) /\ batch' = <<>>
      /\ arrived' = arrived /\ arrived \in DOMAIN Msc /\ arrived \in Nat
  BY TicksAreInFeed DEF TypeOK, FeedInv, NewTicks, Enqueue
<1>2. Ticks \subseteq Nat /\ Ticks \subseteq DOMAIN Msc /\ \A i \in Ticks : i <= arrived
  BY <1>1, TicksAreInFeed DEF Ticks
<1>3. /\ new \in Seq(Ticks) /\ Len(new) \in Nat /\ InOrder(new)
      /\ ToSet(new) = {batch[k] : k \in newer}
  <2>1. batch \in Seq(Nat) /\ InOrder(batch)
    BY <1>1, <1>2, SeqMonotonic DEF FeedInv
  <2> HIDE DEF newer, new
  <2>2. /\ new \in Seq(Ticks) /\ Len(new) \in Nat /\ ToSet(new) = {batch[k] : k \in newer}
    BY <1>1, RowsSelect
  <2>3. InOrder(new)
    BY <1>1, <2>1, RowsInOrder
  <2>4. QED BY <2>2, <2>3
<1>4. \A i \in 1 .. Len(new) : new[i] \in Ticks /\ Msc[new[i]] > cursor
  <2>1. SUFFICES ASSUME NEW i \in 1 .. Len(new) PROVE new[i] \in Ticks /\ Msc[new[i]] > cursor
    OBVIOUS
  <2> HIDE DEF new
  <2>2. new[i] \in Ticks /\ new[i] \in ToSet(new)
    BY <1>3, ElementOfSeq, LenProperties DEF ToSet
  <2>3. PICK k \in newer : new[i] = batch[k]
    BY <1>3, <2>2
  <2>4. QED BY <2>2, <2>3
<1>5. Room \in Nat
  BY PipelineAssumption, LenProperties DEF TypeOK, Room
<1>6. m \in Nat /\ m <= Len(new)
  BY <1>3, <1>5
<1>7. /\ accepted' = accepted \o put /\ queue' = queue \o put
      /\ new = <<>> => cursor' = cursor
      /\ new # <<>> => cursor' = Msc[new[Len(new)]]
  BY DEF Enqueue, NewCursor, Last
<1> HIDE DEF newer, new, m
<1>8. /\ put \in Seq(Ticks) /\ Len(put) = m /\ DOMAIN put = 1 .. m /\ InOrder(put)
      /\ \A i \in 1 .. m : put[i] = new[i] /\ i \in 1 .. Len(new)
  <2>1. new \in Seq(Nat)
    BY <1>2, <1>3, SeqMonotonic
  <2>2. /\ InOrder(put) /\ Len(put) = m
        /\ \A i \in 1 .. m : put[i] = new[i] /\ i \in 1 .. Len(new)
    BY <1>3, <1>6, <2>1, PrefixInOrder
  <2>3. \A i \in 1 .. m : new[i] \in Ticks
    BY <1>4, <2>2
  <2>4. put \in Seq(Ticks)
    BY <1>6, <2>3, SubSeqProperties
  <2> HIDE DEF put
  <2>5. QED BY <2>2, <2>4, LenProperties
<1> HIDE DEF put
<1>9. /\ cursor' \in Nat /\ cursor <= cursor' /\ cursor' <= Msc[arrived]
      /\ \A i \in 1 .. Len(new) : Msc[new[i]] <= cursor'
  <2>1. CASE new = <<>>
    <3>1. Len(new) = 0 /\ cursor' = cursor
      BY <1>7, <2>1
    <3>2. QED BY <1>1, <3>1 DEF FeedInv
  <2>2. CASE new # <<>>
    <3>1. Len(new) \in 1 .. Len(new)
      BY <1>3, <2>2, EmptySeq
    <3>2. /\ cursor' = Msc[new[Len(new)]] /\ new[Len(new)] \in DOMAIN Msc
          /\ new[Len(new)] <= arrived /\ cursor < cursor'
      BY <1>2, <1>4, <1>7, <2>2, <3>1
    <3>3. cursor' \in Nat /\ cursor' <= Msc[arrived]
      BY <1>1, <3>2, MscGrows
    <3>4. ASSUME NEW i \in 1 .. Len(new) PROVE Msc[new[i]] <= cursor'
      <4>1. new[i] \in DOMAIN Msc /\ new[i] \in Nat /\ new[Len(new)] \in Nat
        BY <1>2, <1>4, <3>1
      <4>2. i = Len(new) \/ new[i] < new[Len(new)]
        BY <1>3, <3>1, LenProperties DEF InOrder
      <4>3. new[i] <= new[Len(new)]
        BY <4>1, <4>2
      <4>4. QED BY <3>2, <4>1, <4>3, MscGrows
    <3>5. QED BY <1>1, <3>2, <3>3, <3>4
  <2>3. QED BY <2>1, <2>2
<1>10. ASSUME NEW x \in ToSet(put) PROVE cursor < Msc[x] /\ Msc[x] <= cursor'
  <2>1. PICK i \in 1 .. m : x = put[i]
    BY <1>8 DEF ToSet
  <2>2. x = new[i] /\ i \in 1 .. Len(new) /\ x \in DOMAIN Msc
    BY <1>2, <1>4, <1>8, <2>1
  <2>3. Msc[x] \in Nat /\ Msc[x] > cursor /\ Msc[x] <= cursor'
    BY <1>4, <1>9, <2>2, MscGrows
  <2>4. QED BY <1>1, <2>3
<1>11. QED BY <1>7, <1>8, <1>9, <1>10

\* An ordered sequence and one that comes after it.
LEMMA OrderedConcat ==
  ASSUME NEW q \in Seq(Nat), NEW r \in Seq(Nat), InOrder(q), InOrder(r), Below(q, r)
  PROVE  InOrder(q \o r)
<1> DEFINE s == q \o r
           n == Len(q)
<1>1. /\ n \in Nat /\ DOMAIN q = 1 .. n /\ DOMAIN r = 1 .. Len(r) /\ Len(r) \in Nat
      /\ DOMAIN s = 1 .. n + Len(r)
      /\ \A i \in 1 .. n + Len(r) : s[i] = IF i <= n THEN q[i] ELSE r[i - n]
  BY ConcatProperties, LenProperties
<1>2. ASSUME NEW i \in DOMAIN q, NEW j \in DOMAIN r PROVE q[i] < r[j]
  BY DEF Below, ToSet
<1> HIDE DEF s, n
<1>3. ASSUME NEW i \in DOMAIN s, NEW j \in DOMAIN s, i < j PROVE s[i] < s[j]
  <2>1. CASE j <= n
    <3>1. i \in DOMAIN q /\ j \in DOMAIN q /\ s[i] = q[i] /\ s[j] = q[j]
      BY <1>1, <1>3, <2>1
    <3>2. QED BY <1>3, <3>1 DEF InOrder
  <2>2. CASE i <= n /\ ~ (j <= n)
    <3>1. i \in DOMAIN q /\ j - n \in DOMAIN r /\ s[i] = q[i] /\ s[j] = r[j - n]
      BY <1>1, <2>2
    <3>2. QED BY <1>2, <3>1
  <2>3. CASE ~ (i <= n)
    <3>1. /\ i - n \in DOMAIN r /\ j - n \in DOMAIN r /\ i - n < j - n
          /\ s[i] = r[i - n] /\ s[j] = r[j - n]
      BY <1>1, <1>3, <2>3
    <3>2. QED BY <3>1 DEF InOrder
  <2>4. QED BY <1>1, <1>3, <2>1, <2>2, <2>3
<1>4. QED BY <1>3 DEF InOrder, s

LEMMA EnqueueKeeps == TypeOK /\ FeedInv /\ Enqueue => FeedInv'
<1> SUFFICES ASSUME TypeOK, FeedInv, Enqueue PROVE FeedInv'
  OBVIOUS
<1>1. /\ accepted \in Seq(Ticks) /\ cursor \in Nat /\ InOrder(accepted) /\ batch' = <<>>
      /\ arrived' = arrived /\ Ticks \subseteq DOMAIN Msc /\ Ticks \subseteq Nat /\ Ticks' = Ticks
      /\ \A x \in ToSet(accepted) : x \in Ticks /\ Msc[x] <= cursor
  <2>1. accepted \in Seq(Ticks) /\ \A i \in DOMAIN accepted : Msc[accepted[i]] <= cursor
    BY DEF FeedInv
  <2>2. \A x \in ToSet(accepted) : x \in Ticks /\ Msc[x] <= cursor
    BY <2>1, ElementOfSeq, LenProperties DEF ToSet
  <2>3. QED BY <2>1, <2>2, TicksAreInFeed DEF TypeOK, FeedInv, Enqueue, Ticks
<1>2. cursor' \in Nat /\ cursor <= cursor' /\ cursor' <= Msc[arrived]
  BY PutsNewer
<1>3. PICK put \in Seq(Ticks) :
        /\ accepted' = accepted \o put /\ InOrder(put)
        /\ \A x \in ToSet(put) : cursor < Msc[x] /\ Msc[x] <= cursor'
  BY PutsNewer
<1>4. accepted' \in Seq(Ticks) /\ ToSet(accepted') = ToSet(accepted) \cup ToSet(put)
  BY <1>1, <1>3, ConcatProperties, ToSetOfSeqs
<1>5. \A x \in ToSet(put) : x \in Ticks
  BY <1>3, ElementOfSeq, LenProperties DEF ToSet
<1>6. InOrder(accepted')
  <2>1. Below(accepted, put)
    <3>1. SUFFICES ASSUME NEW x \in ToSet(accepted), NEW y \in ToSet(put) PROVE x < y
      BY DEF Below
    <3>2. x \in DOMAIN Msc /\ y \in DOMAIN Msc /\ Msc[x] <= cursor /\ cursor < Msc[y]
      BY <1>1, <1>3, <1>5
    <3>3. Msc[x] < Msc[y]
      BY <1>1, <3>2, MscGrows
    <3>4. QED BY <3>2, <3>3, MscGrows
  <2>2. accepted \in Seq(Nat) /\ put \in Seq(Nat)
    BY <1>1, SeqMonotonic
  <2>3. QED BY <1>1, <1>3, <2>1, <2>2, OrderedConcat
<1>7. ASSUME NEW i \in DOMAIN accepted' PROVE Msc[accepted'[i]] <= cursor'
  <2>1. accepted'[i] \in ToSet(accepted')
    BY DEF ToSet
  <2>2. accepted'[i] \in DOMAIN Msc /\ (Msc[accepted'[i]] <= cursor \/ Msc[accepted'[i]] <= cursor')
    BY <1>1, <1>3, <1>4, <1>5, <2>1
  <2>3. QED BY <1>1, <1>2, <2>2, MscGrows
<1>8. InOrder(batch')
  BY <1>1 DEF InOrder
<1>9. QED BY <1>1, <1>2, <1>4, <1>6, <1>7, <1>8 DEF FeedInv

LEMMA FeedKept == TypeOK /\ FeedInv /\ [Next]_vars => FeedInv'
<1> SUFFICES ASSUME TypeOK, FeedInv, [Next]_vars PROVE FeedInv'
  OBVIOUS
<1>1. CASE Fetch
  BY <1>1, FetchKeeps
<1>2. CASE Enqueue
  BY <1>2, EnqueueKeeps
<1>3. CASE TickArrives
  <2>1. UNCHANGED <<cursor, batch, accepted>> /\ arrived' = arrived + 1
    BY <1>3 DEF TickArrives, collector, history
  <2>2. arrived \in DOMAIN Msc /\ arrived' \in DOMAIN Msc /\ arrived \in Nat
    BY <1>3, <2>1, TicksAreInFeed, PipelineAssumption, LenProperties DEF TypeOK, TickArrives
  <2>3. Msc[arrived] <= Msc[arrived'] /\ Msc[arrived] \in Nat /\ Msc[arrived'] \in Nat
    BY <2>1, <2>2, MscGrows
  <2>4. cursor \in Nat /\ cursor <= Msc[arrived']
    BY <2>3 DEF TypeOK, FeedInv
  <2>5. accepted' \in Seq(Ticks')
    <3>1. Ticks \subseteq Ticks'
      BY <2>1, <2>2 DEF Ticks
    <3>2. QED BY <2>1, <3>1, SeqMonotonic DEF FeedInv
  <2>6. QED BY <2>1, <2>4, <2>5 DEF FeedInv
<1>4. CASE Restart
  <2>1. /\ cursor' = Msc[arrived] /\ batch' = <<>>
        /\ UNCHANGED <<arrived, accepted>>
    BY <1>4 DEF Restart, Started
  <2>2. Ticks' = Ticks /\ InOrder(batch')
    BY <2>1 DEF Ticks, InOrder
  <2>3. ASSUME NEW i \in DOMAIN accepted PROVE Msc[accepted[i]] <= Msc[arrived]
    <3>1. accepted[i] \in Ticks
      BY ElementOfSeq, LenProperties DEF FeedInv
    <3>2. accepted[i] \in DOMAIN Msc /\ accepted[i] <= arrived /\ arrived \in DOMAIN Msc
      BY <3>1, TicksAreInFeed DEF Ticks, TypeOK
    <3>3. QED BY <3>2, MscGrows
  <2>4. Msc[arrived] <= Msc[arrived]
    BY MscGrows DEF TypeOK
  <2>5. QED BY <2>1, <2>2, <2>3, <2>4 DEF FeedInv
<1>5. CASE Stop \/ Die
  <2>1. UNCHANGED <<arrived, cursor, accepted>> /\ batch' = <<>>
    BY <1>5 DEF Stop, Die, history
  <2>2. Ticks' = Ticks /\ InOrder(batch')
    BY <2>1 DEF Ticks, InOrder
  <2>3. QED BY <2>1, <2>2 DEF FeedInv
<1>6. CASE \/ Writer \/ Main \/ UNCHANGED vars
           \/ \E t \in threads : Thread(t)
  <2>1. UNCHANGED <<arrived, cursor, batch, accepted>>
    BY <1>6 DEF Writer, TakeTick, TimeFlush, GroupWritten, GroupFailed, Main, CancelWriter, Exit,
                Thread, PickPart, WriteFile, CountPart, vars, collector, history
  <2>2. Ticks' = Ticks
    BY <2>1 DEF Ticks
  <2>3. QED BY <2>1, <2>2 DEF FeedInv
<1>7. QED BY <1>1, <1>2, <1>3, <1>4, <1>5, <1>6 DEF Next, Collector

\* tick_collector.py:70-105: no tick is put on the queue twice, and none after a
\* later one, however batches are cut, polls fail, the queue overflows and
\* processes begin anew.
AcceptedInOrder == InOrder(accepted)

THEOREM TicksAreAcceptedInOrder == Spec => []AcceptedInOrder
<1>1. PipelineInv => TypeOK
  BY DEF PipelineInv, PipelineTypes
<1>2. FeedInv => AcceptedInOrder
  BY DEF FeedInv, AcceptedInOrder
<1>3. QED BY <1>1, <1>2, FeedStarts, FeedKept, PipelineAlways, PTL DEF Spec

-----------------------------------------------------------------------------
(***************************************************************************)
(* Replay emits what was stored, in the order of the feed.  Every group of *)
(* rows that is in the buffer, with a thread or in a file comes before     *)
(* what is still on the queue, and two files of a date hold either the     *)
(* same rows, written twice, or rows of which the lower number's come      *)
(* first.                                                                  *)
(***************************************************************************)
Old(q, c)   == \A x \in ToSet(q) : Msc[x] <= c
\* Rows that were taken off the queue q, with the cursor at c.
Behind(rows, q, c) == InOrder(rows) /\ Old(rows, c) /\ Below(rows, q)
\* The same rows, or rows before those.
Lined(q, r) == q = r \/ Below(q, r)

QueueInLine == InOrder(queue) /\ Old(queue, cursor) /\ Behind(buffer, queue, cursor)
FilesInLine ==
  /\ \A f \in DOMAIN files : Behind(files[f], queue, cursor)
  /\ \A f, g \in DOMAIN files : f[1] = g[1] /\ f[2] < g[2] => Lined(files[f], files[g])
\* Files and buffer: the groups of a flush may be in a file already.
BufferInLine ==
  /\ wpc = "waiting" => \A f \in DOMAIN files : Below(files[f], buffer)
  /\ wpc \in {"flushing", "final"} =>
       \A f \in DOMAIN files : files[f] = Group(buffer, f[1]) \/ Below(files[f], buffer)
ThreadsInLine ==
  \A t \in threads :
    /\ Behind(t.group, queue, cursor)
    /\ \A f \in DOMAIN files : f[1] = t.date => Lined(files[f], t.group)

LineInv == QueueInLine /\ FilesInLine /\ BufferInLine /\ ThreadsInLine

LEMMA InFeed ==
  ASSUME TypeOK, NEW q \in Seq(Ticks)
  PROVE  \A x \in ToSet(q) : x \in DOMAIN Msc /\ x \in Nat /\ Msc[x] \in Nat
<1>1. \A x \in ToSet(q) : x \in Ticks
  BY ElementOfSeq, LenProperties DEF ToSet
<1>2. QED BY <1>1, TicksAreInFeed, MscGrows

LEMMA NothingIn == /\ ToSet(<<>>) = {} /\ InOrder(<<>>) /\ \A c : Old(<<>>, c)
                   /\ \A q : Below(q, <<>>) /\ Below(<<>>, q)
                   /\ \A q, c : Behind(<<>>, q, c)
<1>1. ToSet(<<>>) = {} /\ InOrder(<<>>)
  BY DEF ToSet, InOrder
<1>2. QED BY <1>1 DEF Old, Below, Behind

\* What is behind a queue stays so when the queue gets shorter and the cursor
\* moves on.
LEMMA BehindStays ==
  ASSUME TypeOK, NEW rows \in Seq(Ticks), NEW q, NEW r, NEW c \in Nat, NEW d \in Nat, c <= d,
         ToSet(r) \subseteq ToSet(q), Behind(rows, q, c)
  PROVE  Behind(rows, r, d)
<1>1. \A x \in ToSet(rows) : Msc[x] \in Nat
  BY InFeed
<1>2. Old(rows, d)
  BY <1>1 DEF Behind, Old
<1>3. QED BY <1>2 DEF Behind, Below

\* A step that writes no file, and puts nothing on the queue.
LEMMA LineStays ==
  ASSUME PipelineTypes, FeedInv, LineInv, files' = files, cursor' \in Nat, cursor <= cursor',
         queue' = queue \/ queue' = <<>>,
         \/ wpc' = wpc /\ buffer' = buffer
         \/ buffer' = <<>> /\ wpc' \in {"waiting", "gone"},
         \A t \in threads' : \E u \in threads : t.group = u.group /\ t.date = u.date
  PROVE  LineInv'
<1>0. /\ TypeOK /\ cursor \in Nat /\ queue \in Seq(Ticks) /\ buffer \in Seq(Ticks)
      /\ \A f \in DOMAIN files : files[f] \in Seq(Ticks)
      /\ \A t \in threads : t.group \in Seq(Ticks)
  BY DEF PipelineTypes, TypeOK
<1>1. ToSet(queue') \subseteq ToSet(queue)
  BY NothingIn
<1>2. ASSUME NEW rows \in Seq(Ticks), Behind(rows, queue, cursor)
      PROVE  Behind(rows, queue', cursor')
  BY <1>0, <1>1, <1>2, BehindStays
<1>3. QueueInLine'
  <2>1. InOrder(queue') /\ Old(queue', cursor')
    <3>1. Behind(queue, <<>>, cursor)
      BY NothingIn DEF LineInv, QueueInLine, Behind
    <3>2. Behind(queue, <<>>, cursor')
      BY <1>0, <3>1, BehindStays
    <3>3. QED BY <3>2, NothingIn DEF Behind
  <2>2. Behind(buffer', queue', cursor')
    <3>1. CASE buffer' = <<>>
      BY <3>1, NothingIn
    <3>2. CASE buffer' = buffer
      BY <1>0, <1>2, <3>2 DEF LineInv, QueueInLine
    <3>3. QED BY <3>1, <3>2
  <2>3. QED BY <2>1, <2>2 DEF QueueInLine
<1>4. FilesInLine'
  BY <1>0, <1>2 DEF LineInv, FilesInLine
<1>5. BufferInLine'
  <2>1. CASE wpc' = wpc /\ buffer' = buffer
    <3>1. \A d : Group(buffer, d)' = Group(buffer, d)
      BY <2>1 DEF Group
    <3>2. QED BY <2>1, <3>1 DEF LineInv, BufferInLine
  <2>2. CASE buffer' = <<>> /\ wpc' \in {"waiting", "gone"}
    BY <2>2, NothingIn DEF BufferInLine
  <2>3. QED BY <2>1, <2>2
<1>6. ThreadsInLine'
  <2>1. SUFFICES ASSUME NEW t \in threads'
                 PROVE  /\ Behind(t.group, queue', cursor')
                        /\ \A f \in DOMAIN files : f[1] = t.date => Lined(files[f], t.group)
    BY DEF ThreadsInLine
  <2>2. PICK u \in threads : t.group = u.group /\ t.date = u.date
    OBVIOUS
  <2>3. QED BY <1>0, <1>2, <2>2 DEF LineInv, ThreadsInLine
<1>7. QED BY <1>3, <1>4, <1>5, <1>6 DEF LineInv

\* New ticks come after everything.
LEMMA EnqueueInLine ==
  ASSUME PipelineTypes, FeedInv, LineInv, Enqueue
  PROVE  LineInv'
<1>0. /\ TypeOK /\ cursor \in Nat /\ queue \in Seq(Ticks) /\ buffer \in Seq(Ticks)
      /\ \A f \in DOMAIN files : files[f] \in Seq(Ticks)
      /\ \A t \in threads : t.group \in Seq(Ticks)
      /\ UNCHANGED <<wpc, buffer, threads, files>>
  BY DEF PipelineTypes, TypeOK, Enqueue, writer
<1>1. cursor' \in Nat /\ cursor <= cursor'
  BY <1>0, PutsNewer
<1>2. PICK put \in Seq(Ticks) :
        /\ queue' = queue \o put /\ InOrder(put)
        /\ \A x \in ToSet(put) : cursor < Msc[x] /\ Msc[x] <= cursor'
  BY <1>0, PutsNewer
<1>3. ToSet(queue') = ToSet(queue) \cup ToSet(put)
  BY <1>0, <1>2, ToSetOfSeqs
<1>4. ASSUME NEW rows \in Seq(Ticks), Old(rows, cursor)
      PROVE  Below(rows, put) /\ Old(rows, cursor')
  <2>1. /\ \A x \in ToSet(rows) : x \in DOMAIN Msc /\ Msc[x] \in Nat /\ Msc[x] <= cursor
        /\ \A x \in ToSet(put) : x \in DOMAIN Msc /\ Msc[x] \in Nat /\ cursor < Msc[x]
    BY <1>0, <1>2, <1>4, InFeed DEF Old
  <2>2. \A x \in ToSet(rows), y \in ToSet(put) : Msc[x] < Msc[y]
    BY <1>0, <2>1
  <2>3. QED BY <1>0, <1>1, <2>1, <2>2, MscGrows DEF Below, Old
<1>5. ASSUME NEW rows \in Seq(Ticks), Behind(rows, queue, cursor)
      PROVE  Behind(rows, queue', cursor')
  BY <1>3, <1>4, <1>5 DEF Behind, Below
<1>6. QueueInLine'
  <2>1. InOrder(queue')
    <3>1. queue \in Seq(Nat) /\ put \in Seq(Nat)
      BY <1>0, TicksAreInFeed, SeqMonotonic DEF Ticks
    <3>2. QED BY <1>0, <1>2, <1>4, <3>1, OrderedConcat DEF LineInv, QueueInLine
  <2>2. Old(queue', cursor')
    BY <1>0, <1>2, <1>3, <1>4 DEF LineInv, QueueInLine, Old
  <2>3. QED BY <1>0, <1>5, <2>1, <2>2 DEF LineInv, QueueInLine
<1>7. FilesInLine' /\ ThreadsInLine'
  BY <1>0, <1>5 DEF LineInv, FilesInLine, ThreadsInLine
<1>8. BufferInLine'
  BY <1>0 DEF LineInv, BufferInLine, Group
<1>9. QED BY <1>6, <1>7, <1>8 DEF LineInv

\* A group of the buffer keeps the buffer's order and its place in the feed.
LEMMA GroupInLine ==
  ASSUME TypeOK, NEW b \in Seq(Ticks), NEW q, NEW c, Behind(b, q, c), NEW d
  PROVE  /\ Group(b, d) \in Seq(Ticks) /\ Behind(Group(b, d), q, c)
         /\ \A rows : Below(rows, b) => Below(rows, Group(b, d))
<1>1. Group(b, d) \in Seq(Ticks) /\ ToSet(Group(b, d)) \subseteq ToSet(b)
  BY GroupIs DEF ToSet
<1>2. InOrder(Group(b, d))
  <2>1. b \in Seq(Nat)
    BY TicksAreInFeed, SeqMonotonic DEF Ticks
  <2>2. {k \in DOMAIN b : DateOf[b[k]] = d} \in SUBSET DOMAIN b
    OBVIOUS
  <2>3. QED BY <2>1, <2>2, RowsInOrder DEF Behind, Group
<1>3. QED BY <1>1, <1>2 DEF Behind, Old, Below

\* A group is handed to a new thread.
LEMMA HandOverInLine ==
  ASSUME PipelineTypes, FeedInv, LineInv, NEW others, NEW dates, NEW b \in Seq(Ticks),
         HandedOver(b, dates, others), buffer' = b, Behind(b, queue', cursor),
         wpc' \in {"flushing", "final"},
         UNCHANGED <<files, cursor>>, ToSet(queue') \subseteq ToSet(queue), InOrder(queue'),
         \A t \in others : \E u \in threads : t.group = u.group /\ t.date = u.date,
         \A f \in DOMAIN files : files[f] = Group(b, f[1]) \/ Below(files[f], b)
  PROVE  LineInv'
<1>0. /\ TypeOK /\ cursor \in Nat /\ queue \in Seq(Ticks)
      /\ \A f \in DOMAIN files : files[f] \in Seq(Ticks)
      /\ \A t \in threads : t.group \in Seq(Ticks)
  BY DEF PipelineTypes, TypeOK
<1>1. PICK u \in ThreadType : threads' = others \cup {u} /\ u.group = Group(b, u.date)
  BY DEF HandedOver
<1>2. ASSUME NEW rows \in Seq(Ticks), Behind(rows, queue, cursor)
      PROVE  Behind(rows, queue', cursor)
  BY <1>0, <1>2, BehindStays
<1>3. QueueInLine'
  BY <1>0 DEF LineInv, QueueInLine, Old
<1>4. FilesInLine'
  BY <1>0, <1>2 DEF LineInv, FilesInLine
<1>5. BufferInLine'
  BY DEF BufferInLine, Group
<1>6. ThreadsInLine'
  <2>1. SUFFICES ASSUME NEW t \in threads'
                 PROVE  /\ Behind(t.group, queue', cursor)
                        /\ \A f \in DOMAIN files : f[1] = t.date => Lined(files[f], t.group)
    BY DEF ThreadsInLine
  <2>2. CASE t \in others
    <3>1. PICK v \in threads : t.group = v.group /\ t.date = v.date
      BY <2>2
    <3>2. QED BY <1>0, <1>2, <3>1 DEF LineInv, ThreadsInLine
  <2>3. CASE t = u
    <3>1. /\ Behind(Group(b, t.date), queue', cursor) /\ t.group = Group(b, t.date)
          /\ \A rows : Below(rows, b) => Below(rows, Group(b, t.date))
      BY <1>0, <1>1, <2>3, GroupInLine
    <3>2. QED BY <3>1 DEF Lined
  <2>4. QED BY <1>1, <2>2, <2>3
<1>7. QED BY <1>3, <1>4, <1>5, <1>6 DEF LineInv

\* A tick is taken off the queue: it comes after the buffer and before the rest.
LEMMA TakenInLine ==
  ASSUME PipelineTypes, FeedInv, LineInv, queue # <<>>, wpc = "waiting",
         queue' = Tail(queue), buffer' = Append(buffer, Head(queue))
  PROVE  /\ buffer' \in Seq(Ticks) /\ Behind(buffer', queue', cursor)
         /\ ToSet(queue') \subseteq ToSet(queue) /\ InOrder(queue')
         /\ \A f \in DOMAIN files : Below(files[f], buffer')
<1> DEFINE x == Head(queue)
           rest == Tail(queue)
           b == Append(buffer, x)
<1>0. /\ TypeOK /\ cursor \in Nat /\ queue \in Seq(Ticks) /\ buffer \in Seq(Ticks)
      /\ \A f \in DOMAIN files : files[f] \in Seq(Ticks)
  BY DEF PipelineTypes, TypeOK
<1>1. x \in Ticks /\ x \in ToSet(queue) /\ rest \in Seq(Ticks)
      /\ ToSet(queue) = {x} \cup ToSet(rest)
  <2>1. ToSet(queue) = {x} \cup ToSet(rest)
    BY <1>0, ToSetOfSeqs
  <2>2. QED BY <1>0, <2>1, HeadTailProperties
<1>2. b \in Seq(Ticks) /\ ToSet(b) = ToSet(buffer) \cup {x}
  <2>1. ToSet(b) = ToSet(buffer) \cup {x}
    BY <1>0, <1>1, ToSetOfSeqs
  <2>2. QED BY <1>0, <1>1, <2>1, AppendProperties
<1>3. /\ Len(rest) = Len(queue) - 1 /\ Len(queue) \in Nat /\ DOMAIN queue = 1 .. Len(queue)
      /\ DOMAIN rest = 1 .. Len(rest) /\ Len(queue) # 0
      /\ \A k \in 1 .. Len(rest) : rest[k] = queue[k + 1]
      /\ x = queue[1]
  <2>1. Len(queue) \in Nat /\ DOMAIN queue = 1 .. Len(queue) /\ Len(queue) # 0
    BY <1>0, LenProperties, EmptySeq
  <2>2. Len(rest) = Len(queue) - 1 /\ \A k \in 1 .. Len(rest) : rest[k] = queue[k + 1]
    BY <1>0, HeadTailProperties
  <2>3. DOMAIN rest = 1 .. Len(rest)
    BY <1>1, LenProperties
  <2>4. QED BY <2>1, <2>2, <2>3 DEF Head
<1>4. DOMAIN b = 1 .. Len(buffer) + 1 /\ Len(buffer) \in Nat /\ DOMAIN buffer = 1 .. Len(buffer)
      /\ b[Len(buffer) + 1] = x /\ \A k \in 1 .. Len(buffer) : b[k] = buffer[k]
  BY <1>0, <1>1, AppendProperties, LenProperties
<1> HIDE DEF x, rest, b
<1>5. InOrder(rest)
  <2>1. ASSUME NEW i \in DOMAIN rest, NEW j \in DOMAIN rest, i < j PROVE rest[i] < rest[j]
    <3>1. /\ i + 1 \in DOMAIN queue /\ j + 1 \in DOMAIN queue /\ i + 1 < j + 1
          /\ rest[i] = queue[i + 1] /\ rest[j] = queue[j + 1]
      BY <1>3, <2>1
    <3>2. QED BY <3>1 DEF LineInv, QueueInLine, InOrder
  <2>2. QED BY <2>1 DEF InOrder
<1>6. \A y \in ToSet(rest) : x < y
  <2>1. SUFFICES ASSUME NEW k \in DOMAIN rest PROVE x < rest[k]
    BY DEF ToSet
  <2>2. 1 \in DOMAIN queue /\ k + 1 \in DOMAIN queue /\ 1 < k + 1 /\ rest[k] = queue[k + 1]
    BY <1>3
  <2>3. QED BY <1>3, <2>2 DEF LineInv, QueueInLine, InOrder
<1>7. InOrder(b)
  <2>1. ASSUME NEW i \in DOMAIN b, NEW j \in DOMAIN b, i < j PROVE b[i] < b[j]
    <3>1. CASE j = Len(buffer) + 1
      <4>1. b[j] = x /\ i \in DOMAIN buffer /\ b[i] = buffer[i]
        BY <1>4, <2>1, <3>1
      <4>2. buffer[i] \in ToSet(buffer)
        BY <4>1 DEF ToSet
      <4>3. QED BY <1>1, <4>1, <4>2 DEF LineInv, QueueInLine, Behind, Below
    <3>2. CASE j # Len(buffer) + 1
      <4>1. i \in DOMAIN buffer /\ j \in DOMAIN buffer /\ b[i] = buffer[i] /\ b[j] = buffer[j]
        BY <1>4, <2>1, <3>2
      <4>2. QED BY <2>1, <4>1 DEF LineInv, QueueInLine, Behind, InOrder
    <3>3. QED BY <3>1, <3>2
  <2>2. QED BY <2>1 DEF InOrder
<1>8. Behind(b, rest, cursor)
  <2>1. Old(b, cursor)
    BY <1>1, <1>2 DEF LineInv, QueueInLine, Behind, Old
  <2>2. Below(b, rest)
    BY <1>1, <1>2, <1>6 DEF LineInv, QueueInLine, Behind, Below
  <2>3. QED BY <1>7, <2>1, <2>2 DEF Behind
<1>9. ASSUME NEW f \in DOMAIN files PROVE Below(files[f], b)
  BY <1>1, <1>2 DEF LineInv, FilesInLine, BufferInLine, Behind, Below
<1>10. QED BY <1>1, <1>2, <1>5, <1>8, <1>9 DEF x, rest, b

LEMMA TakeTickInLine ==
  ASSUME PipelineTypes, WriterWaits, FeedInv, LineInv, TakeTick
  PROVE  LineInv'
<1>0. /\ TypeOK /\ cursor \in Nat /\ \A f \in DOMAIN files : files[f] \in Seq(Ticks)
      /\ UNCHANGED <<cursor, files>>
  BY DEF PipelineTypes, TypeOK, TakeTick, collector
<1>1. /\ wpc = "waiting" /\ threads = {} /\ queue # <<>>
      /\ queue' = Tail(queue) /\ buffer' = Append(buffer, Head(queue))
      /\ \/ wpc' = "waiting" /\ threads' = {}
         \/ wpc' = "flushing" /\ HandedOver(buffer', DatesOf(buffer'), {})
  BY TakesTick
<1>2. /\ buffer' \in Seq(Ticks) /\ Behind(buffer', queue', cursor)
      /\ ToSet(queue') \subseteq ToSet(queue) /\ InOrder(queue')
      /\ \A f \in DOMAIN files : Below(files[f], buffer')
  BY <1>1, TakenInLine
<1>3. CASE wpc' = "waiting" /\ threads' = {}
  <2>1. QueueInLine'
    BY <1>0, <1>2 DEF LineInv, QueueInLine, Old
  <2>2. FilesInLine'
    BY <1>0, <1>2 DEF LineInv, FilesInLine, Behind, Below
  <2>3. BufferInLine' /\ ThreadsInLine'
    BY <1>0, <1>2, <1>3 DEF BufferInLine, ThreadsInLine
  <2>4. QED BY <2>1, <2>2, <2>3 DEF LineInv
<1>4. CASE wpc' = "flushing" /\ HandedOver(buffer', DatesOf(buffer'), {})
  <2>1. PICK b : b = buffer'
    OBVIOUS
  <2>2. b \in Seq(Ticks) /\ HandedOver(b, DatesOf(b), {}) /\ Behind(b, queue', cursor)
        /\ \A f \in DOMAIN files : Below(files[f], b)
    BY <1>2, <1>4, <2>1
  <2>3. QED BY <1>0, <1>2, <1>4, <2>1, <2>2, HandOverInLine
<1>5. QED BY <1>1, <1>3, <1>4

\* A flush begins, goes on to the next date or ends; the writer is cancelled.
LEMMA FlushInLine ==
  ASSUME PipelineTypes, WriterWaits, FeedInv, LineInv,
         TimeFlush \/ GroupWritten \/ GroupFailed \/ CancelWriter
  PROVE  LineInv'
<1>0. /\ TypeOK /\ cursor \in Nat /\ \A f \in DOMAIN files : files[f] \in Seq(Ticks)
      /\ buffer \in Seq(Ticks) /\ UNCHANGED <<cursor, files, queue>> /\ cursor <= cursor
  BY DEF PipelineTypes, TypeOK, TimeFlush, GroupWritten, GroupFailed, CancelWriter, collector
<1>1. ASSUME NEW others, NEW dates, HandedOver(buffer, dates, others), UNCHANGED buffer,
             wpc # "gone", wpc' \in {"flushing", "final"},
             \A t \in others : \E u \in threads : t.group = u.group /\ t.date = u.date
      PROVE  LineInv'
  <2>1. \A f \in DOMAIN files : files[f] = Group(buffer, f[1]) \/ Below(files[f], buffer)
    BY <1>0, <1>1 DEF LineInv, BufferInLine, TypeOK
  <2>2. Behind(buffer, queue, cursor) /\ InOrder(queue)
    BY DEF LineInv, QueueInLine
  <2>3. QED BY <1>0, <1>1, <2>1, <2>2, HandOverInLine
<1>2. ASSUME buffer' = <<>>, wpc' \in {"waiting", "gone"}, threads' \subseteq threads
      PROVE  LineInv'
  BY <1>0, <1>2, LineStays
<1>3. CASE TimeFlush
  <2>1. wpc = "waiting" /\ wpc' = "flushing" /\ HandedOver(buffer, DatesOf(buffer), {})
        /\ UNCHANGED buffer
    BY <1>3, FlushesInTime
  <2>2. QED BY <1>1, <2>1
<1>4. CASE GroupWritten
  <2>1. wpc \in {"flushing", "final"}
    BY <1>4, WritesGroup
  <2>2. PICK t \in threads :
          \/ UNCHANGED <<wpc, buffer>> /\ HandedOver(buffer, groups, threads \ {t})
          \/ /\ threads' = threads \ {t} /\ buffer' = <<>>
             /\ wpc' = IF wpc = "final" THEN "gone" ELSE "waiting"
    BY <1>4, WritesGroup
  <2>3. CASE UNCHANGED <<wpc, buffer>> /\ HandedOver(buffer, groups, threads \ {t})
    BY <1>1, <2>1, <2>3
  <2>4. CASE /\ threads' = threads \ {t} /\ buffer' = <<>>
             /\ wpc' = IF wpc = "final" THEN "gone" ELSE "waiting"
    BY <1>2, <2>4
  <2>5. QED BY <2>2, <2>3, <2>4
<1>5. CASE GroupFailed
  BY <1>2, <1>5 DEF GroupFailed
<1>6. CASE CancelWriter
  <2>1. UNCHANGED buffer
        /\ \/ wpc' = "gone" /\ (wpc = "gone" \/ buffer = <<>>) /\ UNCHANGED threads
           \/ wpc # "gone" /\ wpc' = "final" /\ HandedOver(buffer, DatesOf(buffer), Left)
    BY <1>6, CancelsWriter
  <2>2. CASE wpc' = "gone" /\ (wpc = "gone" \/ buffer = <<>>) /\ UNCHANGED threads
    BY <1>0, <2>1, <2>2, LineStays
  <2>3. CASE wpc # "gone" /\ wpc' = "final" /\ HandedOver(buffer, DatesOf(buffer), Left)
    <3>1. \A t \in Left : \E u \in threads : t.group = u.group /\ t.date = u.date
      <4>1. SUFFICES ASSUME NEW t \in threads
                     PROVE  LET u == [t EXCEPT !.awaited = FALSE]
                            IN  u.group = t.group /\ u.date = t.date
        BY DEF Left
      <4>2. t \in ThreadType
        BY DEF PipelineTypes
      <4>3. QED BY <4>2 DEF ThreadType
    <3>2. QED BY <1>1, <2>1, <2>3, <3>1
  <2>4. QED BY <2>1, <2>2, <2>3
<1>7. QED BY <1>3, <1>4, <1>5, <1>6

\* A thread writes its group: it is what the date's later files hold, the
\* earlier ones hold it too or what comes before.
LEMMA ThreadInLine ==
  ASSUME PipelineInv, FeedInv, LineInv, NEW t \in threads, Thread(t)
  PROVE  LineInv'
<1>0. /\ WriterTypes /\ TypeOK /\ PartsBounded /\ ThreadsOverwriteOwn /\ SameRows /\ WriterWaits
      /\ PipelineTypes /\ cursor \in Nat /\ cursor <= cursor /\ UNCHANGED cursor
  BY TypesSplit DEF PipelineInv, PipelineTypes, TypeOK, Thread, PickPart, WriteFile, CountPart,
                    collector
<1>1. UNCHANGED <<queue, wpc, buffer>>
  BY <1>0, ThreadSteps
<1>2. PICK u \in ThreadType :
        threads' = (threads \ {t}) \cup {u} /\ u.date = t.date /\ u.group = t.group
  BY <1>0, ThreadSteps
<1>3. \A v \in threads' : \E w \in threads : v.group = w.group /\ v.date = w.date
  BY <1>2
<1>4. CASE files' = files
  BY <1>0, <1>1, <1>3, <1>4, LineStays
<1>5. CASE files' # files
  <2> DEFINE f == <<t.date, t.part>>
             g == t.group
  <2>1. /\ WriteFile(t) /\ t.step = "write"
        /\ files' = [h \in DOMAIN files \cup {f} |-> IF h = f THEN g ELSE files[h]]
    BY <1>5 DEF Thread, PickPart, WriteFile, CountPart
  <2>2. /\ Behind(g, queue, cursor) /\ Holds(t.date, t.part, g)
        /\ \A h \in DOMAIN files : h[1] = t.date => Lined(files[h], g)
    BY <1>0, <2>1 DEF LineInv, ThreadsInLine, ThreadsOverwriteOwn
  <2>3. /\ f[1] = t.date /\ f[2] = t.part /\ t.part \in Nat
        /\ \A h \in DOMAIN files : h[2] \in Nat
    BY <1>0 DEF WriterTypes, ThreadType
  <2>4. /\ DOMAIN files' = DOMAIN files \cup {f} /\ files'[f] = g
        /\ \A h \in DOMAIN files' : h = f \/ (h \in DOMAIN files /\ files'[h] = files[h])
    BY <2>1
  <2> HIDE DEF f, g
  <2>5. QueueInLine'
    BY <1>0, <1>1 DEF LineInv, QueueInLine
  <2>6. FilesInLine'
    <3>1. ASSUME NEW h \in DOMAIN files' PROVE Behind(files'[h], queue, cursor)
      BY <2>2, <2>4 DEF LineInv, FilesInLine
    <3>2. ASSUME NEW h \in DOMAIN files', NEW k \in DOMAIN files', h[1] = k[1], h[2] < k[2]
          PROVE  Lined(files'[h], files'[k])
      <4>1. CASE h # f /\ k # f
        BY <2>4, <3>2, <4>1 DEF LineInv, FilesInLine
      <4>2. CASE k = f
        <5>1. h # f
          BY <2>3, <3>2, <4>2
        <5>2. QED BY <2>2, <2>3, <2>4, <3>2, <4>2, <5>1
      <4>3. CASE h = f /\ k # f
        <5>1. k \in DOMAIN files /\ files'[k] = files[k] /\ k[1] = t.date /\ k[2] >= t.part
          BY <2>3, <2>4, <3>2, <4>3
        <5>2. files[k] = g
          BY <2>2, <5>1 DEF Holds
        <5>3. QED BY <2>4, <4>3, <5>1, <5>2 DEF Lined
      <4>4. QED BY <4>1, <4>2, <4>3
    <3>3. QED BY <1>0, <1>1, <3>1, <3>2 DEF FilesInLine
  <2>7. BufferInLine'
    <3>1. wpc # "waiting" /\ (wpc \in {"flushing", "final"} => g = Group(buffer, f[1]))
      BY <1>0, <2>3 DEF WriterWaits, SameRows, g
    <3>2. \A d : Group(buffer, d)' = Group(buffer, d)
      BY <1>1 DEF Group
    <3>3. ASSUME wpc \in {"flushing", "final"}, NEW h \in DOMAIN files'
          PROVE  files'[h] = Group(buffer, h[1]) \/ Below(files'[h], buffer)
      BY <2>4, <3>1, <3>3 DEF LineInv, BufferInLine
    <3>4. QED BY <1>1, <3>1, <3>2, <3>3 DEF BufferInLine
  <2>8. ThreadsInLine'
    <3>1. SUFFICES ASSUME NEW v \in threads'
                   PROVE  /\ Behind(v.group, queue, cursor)
                          /\ \A h \in DOMAIN files' : h[1] = v.date => Lined(files'[h], v.group)
      BY <1>0, <1>1 DEF ThreadsInLine
    <3>2. PICK w \in threads : v.group = w.group /\ v.date = w.date
      BY <1>3
    <3>3. /\ Behind(w.group, queue, cursor)
          /\ \A h \in DOMAIN files : h[1] = w.date => Lined(files[h], w.group)
      BY DEF LineInv, ThreadsInLine
    <3>4. ASSUME NEW h \in DOMAIN files', h[1] = w.date PROVE Lined(files'[h], w.group)
      <4>1. CASE h = f
        <5>1. w.date = t.date
          BY <2>3, <3>4, <4>1
        <5>2. w.group = g
          BY <1>0, <5>1 DEF SameRows, g
        <5>3. QED BY <2>4, <4>1, <5>2 DEF Lined
      <4>2. CASE h # f
        BY <2>4, <3>3, <3>4, <4>2
      <4>3. QED BY <4>1, <4>2
    <3>5. QED BY <3>2, <3>3, <3>4
  <2>9. QED BY <2>5, <2>6, <2>7, <2>8 DEF LineInv
<1>6. QED BY <1>4, <1>5

LEMMA DieInLine ==
  ASSUME LineInv, Die
  PROVE  LineInv'
<1>1. PICK torn :
        files' = [g \in DOMAIN files \cup torn |-> IF g \in torn THEN Torn ELSE files[g]]
  BY DEF Die
<1>2. /\ queue' = <<>> /\ buffer' = <<>> /\ threads' = {} /\ wpc' = "gone"
      /\ UNCHANGED cursor
  BY DEF Die
<1>3. \A f \in DOMAIN files' : files'[f] = <<>> \/ (f \in DOMAIN files /\ files'[f] = files[f])
  BY <1>1 DEF Torn
<1>4. QueueInLine' /\ BufferInLine' /\ ThreadsInLine'
  BY <1>2, NothingIn DEF QueueInLine, BufferInLine, ThreadsInLine
<1>5. FilesInLine'
  <2>1. ASSUME NEW f \in DOMAIN files' PROVE Behind(files'[f], <<>>, cursor)
    BY <1>3, NothingIn DEF LineInv, FilesInLine, Behind
  <2>2. ASSUME NEW f \in DOMAIN files', NEW g \in DOMAIN files', f[1] = g[1], f[2] < g[2]
        PROVE  Lined(files'[f], files'[g])
    BY <1>3, <2>2, NothingIn DEF LineInv, FilesInLine, Lined
  <2>3. QED BY <1>2, <2>1, <2>2 DEF FilesInLine
<1>6. QED BY <1>4, <1>5 DEF LineInv

LEMMA LineKept ==
  ASSUME PipelineInv, FeedInv, LineInv, [Next]_vars
  PROVE  LineInv'
<1>0. PipelineTypes /\ WriterWaits /\ TypeOK /\ cursor \in Nat /\ cursor <= cursor
  BY DEF PipelineInv, PipelineTypes, TypeOK
<1>1. CASE TickArrives \/ Fetch \/ Stop \/ Exit \/ UNCHANGED vars
  <2>1. UNCHANGED <<cursor, queue, wpc, buffer, files>> /\ threads' \subseteq threads
    BY <1>1 DEF TickArrives, Fetch, Stop, Exit, vars, collector, writer
  <2>2. QED BY <1>0, <2>1, LineStays
<1>2. CASE Enqueue
  BY <1>0, <1>2, EnqueueInLine
<1>3. CASE TakeTick
  BY <1>0, <1>3, TakeTickInLine
<1>4. CASE TimeFlush \/ GroupWritten \/ GroupFailed \/ CancelWriter
  BY <1>0, <1>4, FlushInLine
<1>5. CASE \E t \in threads : Thread(t)
  BY <1>5, ThreadInLine
<1>6. CASE Die
  BY <1>6, DieInLine
<1>7. CASE Restart
  <2>1. /\ cursor' = Msc[arrived] /\ queue' = <<>> /\ buffer' = <<>> /\ wpc' = "waiting"
        /\ UNCHANGED <<threads, files>>
    BY <1>7 DEF Restart, Started
  <2>2. cursor' \in Nat /\ cursor <= cursor'
    BY <1>0, <2>1, MscGrows DEF FeedInv, TypeOK
  <2>3. QED BY <1>0, <2>1, <2>2, LineStays
<1>8. QED BY <1>1, <1>2, <1>3, <1>4, <1>5, <1>6, <1>7 DEF Next, Collector, Writer, Main

\* However a flush is cut, and whoever wrote it: the files of a date are in line.
THEOREM LineAlways == Spec => [](PipelineInv /\ FeedInv /\ LineInv)
<1>1. Init => LineInv
  <2>1. SUFFICES ASSUME Init PROVE LineInv
    OBVIOUS
  <2>2. queue = <<>> /\ buffer = <<>> /\ threads = {} /\ files = Empty
    BY <2>1 DEF Init
  <2>3. DOMAIN files = {}
    BY <2>2 DEF Empty
  <2>4. QED BY <2>2, <2>3, NothingIn DEF LineInv, QueueInLine, FilesInLine, BufferInLine, ThreadsInLine
<1>2. PipelineInv => TypeOK
  BY DEF PipelineInv, PipelineTypes
<1>3. PipelineInv /\ FeedInv /\ LineInv /\ [Next]_vars => LineInv'
  BY LineKept
<1>4. QED BY <1>1, <1>2, <1>3, FeedStarts, FeedKept, PipelineAlways, PTL DEF Spec

-----------------------------------------------------------------------------
(***************************************************************************)
(* Replay is a fold of folds: the files of a date in the order of their    *)
(* numbers, and the rows of each.  After any of them, what was emitted     *)
(* ascends strictly and has the stamp of every row read.                   *)
(***************************************************************************)
Emitting == INSTANCE Folding WITH Op <- Emit
Reading  == INSTANCE Folding WITH Op <- Read

LEMMA ReadIs == \A sent, rows : Read(sent, rows) = Emitting!Fold(sent, rows)
BY DEF Read, FoldLeft, MapThenFoldSet, Max, Emitting!Fold, Emitting!FoldLeft,
       Emitting!MapThenFoldSet, Emitting!Max

LEMMA ReplayedIs == \A date : Replayed(date) = Reading!Fold(<<>>, Stored(date))
BY DEF Replayed, FoldLeft, MapThenFoldSet, Max, Reading!Fold, Reading!FoldLeft,
       Reading!MapThenFoldSet, Reading!Max

Ascends(sent) == \A i, j \in DOMAIN sent : i < j => Msc[sent[i]] < Msc[sent[j]]
\* What is sent after the rows of all: they alone, each stamp once, in order.
SentOf(sent, all) ==
  /\ sent \in Seq(DOMAIN Msc) /\ ToSet(sent) \subseteq all /\ Ascends(sent)
  /\ \A x \in all : \E y \in ToSet(sent) : Msc[y] = Msc[x]

LEMMA StampsArePositive == \A i \in DOMAIN Msc : Msc[i] \in Nat /\ Msc[i] > 0
BY MscGrows, PipelineAssumption

\* The last stamp sent is the newest.
LEMMA LastIsNewest ==
  ASSUME NEW sent \in Seq(DOMAIN Msc), Ascends(sent)
  PROVE  /\ LastMsc(sent) \in Nat
         /\ \A x \in ToSet(sent) : Msc[x] <= LastMsc(sent)
         /\ LastMsc(sent) > 0 => \E x \in ToSet(sent) : Msc[x] = LastMsc(sent)
<1>1. CASE sent = <<>>
  <2>1. ToSet(sent) = {} /\ LastMsc(sent) = 0
    BY <1>1, NothingIn DEF LastMsc
  <2>2. QED BY <2>1
<1>2. CASE sent # <<>>
  <2> DEFINE n == Len(sent)
  <2>1. n \in Nat /\ n \in DOMAIN sent /\ DOMAIN sent = 1 .. n
    BY <1>2, LenProperties, EmptySeq
  <2>2. LastMsc(sent) = Msc[sent[n]] /\ sent[n] \in ToSet(sent) /\ sent[n] \in DOMAIN Msc
    BY <1>2, <2>1, ElementOfSeq DEF LastMsc, Last, ToSet
  <2>3. ASSUME NEW i \in DOMAIN sent PROVE Msc[sent[i]] <= Msc[sent[n]]
    <3>1. sent[i] \in DOMAIN Msc
      BY <2>1, ElementOfSeq
    <3>2. i = n \/ i < n
      BY <2>1
    <3>3. i = n \/ Msc[sent[i]] < Msc[sent[n]]
      BY <2>1, <3>2 DEF Ascends
    <3>4. QED BY <2>2, <3>1, <3>3, MscGrows
  <2>4. QED BY <2>2, <2>3, MscGrows DEF ToSet
<1>3. QED BY <1>1, <1>2

\* One row more, that is no older than all before or has a stamp already sent.
LEMMA EmitMore ==
  ASSUME NEW all \in SUBSET DOMAIN Msc, NEW sent, SentOf(sent, all), NEW e \in DOMAIN Msc,
         \/ \A x \in all : Msc[x] <= Msc[e]
         \/ \E x \in all : Msc[x] = Msc[e]
  PROVE  SentOf(Emit(sent, e), all \cup {e})
<1>1. /\ sent \in Seq(DOMAIN Msc) /\ Ascends(sent) /\ LastMsc(sent) \in Nat
      /\ \A x \in ToSet(sent) : x \in DOMAIN Msc /\ Msc[x] \in Nat /\ Msc[x] <= LastMsc(sent)
      /\ Msc[e] \in Nat /\ Msc[e] > 0
  BY LastIsNewest, StampsArePositive DEF SentOf
<1>2. CASE Skipped(sent, e)
  <2>1. Emit(sent, e) = sent /\ Msc[e] <= LastMsc(sent)
    BY <1>2 DEF Emit, Skipped
  <2>2. \E y \in ToSet(sent) : Msc[y] = Msc[e]
    <3>1. CASE \E x \in all : Msc[x] = Msc[e]
      BY <3>1 DEF SentOf
    <3>2. CASE \A x \in all : Msc[x] <= Msc[e]
      <4>1. LastMsc(sent) > 0
        BY <1>1, <2>1
      <4>2. PICK y \in ToSet(sent) : Msc[y] = LastMsc(sent)
        BY <1>1, <4>1, LastIsNewest
      <4>3. Msc[y] <= Msc[e]
        BY <3>2 DEF SentOf
      <4>4. QED BY <1>1, <2>1, <4>2, <4>3
    <3>3. QED BY <3>1, <3>2
  <2>3. QED BY <2>1, <2>2 DEF SentOf
<1>3. CASE ~ Skipped(sent, e)
  <2> DEFINE r == Append(sent, e)
             n == Len(sent)
  <2>1. Emit(sent, e) = r /\ LastMsc(sent) < Msc[e]
    BY <1>1, <1>3 DEF Emit, Skipped
  <2>2. /\ r \in Seq(DOMAIN Msc) /\ DOMAIN r = 1 .. n + 1 /\ n \in Nat /\ DOMAIN sent = 1 .. n
        /\ r[n + 1] = e /\ \A i \in 1 .. n : r[i] = sent[i]
    BY <1>1, AppendProperties, LenProperties
  <2>3. ToSet(r) = ToSet(sent) \cup {e}
    BY <1>1, ToSetOfSeqs
  <2> HIDE DEF r, n
  <2>4. ASSUME NEW i \in DOMAIN r, NEW j \in DOMAIN r, i < j PROVE Msc[r[i]] < Msc[r[j]]
    <3>1. i \in 1 .. n /\ r[i] = sent[i] /\ sent[i] \in ToSet(sent)
      BY <2>2, <2>4 DEF ToSet
    <3>2. CASE j = n + 1
      BY <1>1, <2>1, <2>2, <3>1, <3>2
    <3>3. CASE j # n + 1
      <4>1. j \in 1 .. n /\ r[j] = sent[j]
        BY <2>2, <3>3
      <4>2. QED BY <1>1, <2>2, <2>4, <3>1, <4>1 DEF Ascends
    <3>4. QED BY <3>2, <3>3
  <2>5. Ascends(r)
    BY <2>4 DEF Ascends
  <2>6. QED BY <2>1, <2>2, <2>3, <2>5 DEF SentOf
<1>4. QED BY <1>2, <1>3

\* The last of ordered rows has the newest stamp.
LEMMA ConcatOrder ==
  ASSUME NEW s \in Seq(DOMAIN Msc), NEW e \in DOMAIN Msc, InOrder(Append(s, e))
  PROVE  InOrder(s) /\ \A x \in ToSet(s) : Msc[x] <= Msc[e]
<1> DEFINE r == Append(s, e)
           n == Len(s)
<1>1. /\ DOMAIN r = 1 .. n + 1 /\ n \in Nat /\ DOMAIN s = 1 .. n
      /\ r[n + 1] = e /\ \A i \in 1 .. n : r[i] = s[i]
  BY AppendProperties, LenProperties
<1>2. InOrder(r)
  OBVIOUS
<1> HIDE DEF r, n
<1>3. ASSUME NEW i \in DOMAIN s, NEW j \in DOMAIN s, i < j PROVE s[i] < s[j]
  <2>1. i \in DOMAIN r /\ j \in DOMAIN r /\ r[i] = s[i] /\ r[j] = s[j]
    BY <1>1
  <2>2. QED BY <1>2, <1>3, <2>1 DEF InOrder
<1>4. ASSUME NEW i \in DOMAIN s PROVE Msc[s[i]] <= Msc[e]
  <2>1. i \in DOMAIN r /\ n + 1 \in DOMAIN r /\ i < n + 1 /\ r[i] = s[i] /\ r[n + 1] = e
    BY <1>1
  <2>2. s[i] < e /\ s[i] \in DOMAIN Msc
    BY <1>1, <1>2, <2>1, ElementOfSeq DEF InOrder
  <2>3. QED BY <2>2, MscGrows
<1>5. QED BY <1>3, <1>4 DEF InOrder, ToSet

\* The rows of a file: all of them were read before, or they come after all
\* that was.
LEMMA ReadMore ==
  ASSUME NEW all \in SUBSET DOMAIN Msc, NEW sent, SentOf(sent, all),
         NEW rows \in Seq(DOMAIN Msc), InOrder(rows),
         \/ ToSet(rows) \subseteq all
         \/ \A x \in all, y \in ToSet(rows) : Msc[x] <= Msc[y]
  PROVE  SentOf(Read(sent, rows), all \cup ToSet(rows))
<1> DEFINE Fits(s) == /\ InOrder(s)
                      /\ \/ ToSet(s) \subseteq all
                         \/ \A x \in all, y \in ToSet(s) : Msc[x] <= Msc[y]
           S == {s \in Seq(DOMAIN Msc) : Fits(s) => SentOf(Read(sent, s), all \cup ToSet(s))}
<1>1. <<>> \in S
  <2>1. Read(sent, <<>>) = sent
    BY ReadIs, Emitting!FoldNone
  <2>2. QED BY <2>1, NothingIn, EmptySeq
<1>2. ASSUME NEW s \in Seq(DOMAIN Msc), NEW e \in DOMAIN Msc, s \in S
      PROVE  Append(s, e) \in S
  <2> DEFINE r == Append(s, e)
  <2>1. Emitting!Fold(sent, r) = Emit(Emitting!Fold(sent, s), e)
    BY Emitting!FoldMore
  <2>2. Read(sent, r) = Emit(Read(sent, s), e)
    BY <2>1, ReadIs
  <2>3. r \in Seq(DOMAIN Msc) /\ ToSet(r) = ToSet(s) \cup {e}
    BY ToSetOfSeqs, AppendProperties
  <2>4. InOrder(r) => InOrder(s) /\ \A x \in ToSet(s) : Msc[x] <= Msc[e]
    BY ConcatOrder
  <2>5. \A x \in ToSet(s) : x \in DOMAIN Msc
    BY ElementOfSeq, LenProperties DEF ToSet
  <2> HIDE DEF r
  <2>6. ASSUME Fits(r) PROVE SentOf(Read(sent, r), all \cup ToSet(r))
    <3>1. SentOf(Read(sent, s), all \cup ToSet(s))
      BY <1>2, <2>3, <2>4, <2>6
    <3>2. \/ \A x \in all \cup ToSet(s) : Msc[x] <= Msc[e]
          \/ \E x \in all \cup ToSet(s) : Msc[x] = Msc[e]
      BY <2>3, <2>4, <2>6
    <3>3. all \cup ToSet(s) \in SUBSET DOMAIN Msc
      BY <2>5
    <3>4. SentOf(Emit(Read(sent, s), e), (all \cup ToSet(s)) \cup {e})
      BY <3>1, <3>2, <3>3, EmitMore
    <3>5. (all \cup ToSet(s)) \cup {e} = all \cup ToSet(r)
      BY <2>3
    <3>6. QED BY <2>2, <3>4, <3>5
  <2>7. QED BY <2>3, <2>6 DEF r
<1> HIDE DEF S
<1>3. Seq(DOMAIN Msc) \subseteq S
  BY <1>1, <1>2, Emitting!AllSequences
<1>4. QED BY <1>3 DEF S

\* The files of a date, each the rows of one before or later rows.
AllLined(ss) ==
  /\ \A k \in DOMAIN ss : InOrder(ss[k])
  /\ \A k, l \in DOMAIN ss : k < l => Lined(ss[k], ss[l])
RowsOf(ss) == UNION {ToSet(ss[k]) : k \in DOMAIN ss}

LEMMA ReadAll ==
  \A ss \in Seq(Seq(DOMAIN Msc)) : AllLined(ss) => SentOf(Reading!Fold(<<>>, ss), RowsOf(ss))
<1> DEFINE All(ss) == Reading!Fold(<<>>, ss)
           S == {ss \in Seq(Seq(DOMAIN Msc)) : AllLined(ss) => SentOf(All(ss), RowsOf(ss))}
<1>1. <<>> \in S
  <2>1. All(<<>>) = <<>>
    BY Reading!FoldNone
  <2>2. SentOf(<<>>, RowsOf(<<>>))
    <3>1. DOMAIN <<>> = {} /\ <<>> \in Seq(DOMAIN Msc)
      OBVIOUS
    <3>2. RowsOf(<<>>) = {} /\ Ascends(<<>>)
      BY <3>1 DEF RowsOf, Ascends
    <3>3. QED BY <3>1, <3>2, NothingIn DEF SentOf
  <2>3. QED BY <2>1, <2>2
<1>2. ASSUME NEW ss \in Seq(Seq(DOMAIN Msc)), NEW e \in Seq(DOMAIN Msc), ss \in S
      PROVE  Append(ss, e) \in S
  <2> DEFINE r == Append(ss, e)
             n == Len(ss)
  <2>1. All(r) = Read(All(ss), e)
    BY Reading!FoldMore
  <2>2. /\ r \in Seq(Seq(DOMAIN Msc)) /\ DOMAIN r = 1 .. n + 1 /\ n \in Nat /\ DOMAIN ss = 1 .. n
        /\ r[n + 1] = e /\ \A i \in 1 .. n : r[i] = ss[i]
    BY AppendProperties, LenProperties
  <2>3. \A k \in 1 .. n : ss[k] \in Seq(DOMAIN Msc)
    BY ElementOfSeq
  <2> HIDE DEF r, n, All
  <2>4. RowsOf(r) = RowsOf(ss) \cup ToSet(e)
    <3>1. \A k \in 1 .. n + 1 : k \in 1 .. n \/ k = n + 1
      BY <2>2
    <3>2. 1 .. n \subseteq 1 .. n + 1 /\ n + 1 \in 1 .. n + 1
      BY <2>2
    <3>3. QED BY <2>2, <3>1, <3>2 DEF RowsOf
  <2>5. RowsOf(ss) \in SUBSET DOMAIN Msc
    <3>1. ASSUME NEW k \in 1 .. n PROVE ToSet(ss[k]) \subseteq DOMAIN Msc
      BY <2>3, ElementOfSeq, LenProperties DEF ToSet
    <3>2. QED BY <2>2, <3>1 DEF RowsOf
  <2>6. ASSUME AllLined(r) PROVE SentOf(All(r), RowsOf(r))
    <3>1. /\ AllLined(ss) /\ InOrder(e) /\ \A k \in 1 .. n : Lined(ss[k], e)
      <4>1. \A k \in 1 .. n : k \in DOMAIN r /\ r[k] = ss[k] /\ k < n + 1
        <5>1. SUFFICES ASSUME NEW k \in 1 .. n
                       PROVE  k \in DOMAIN r /\ r[k] = ss[k] /\ k < n + 1
          OBVIOUS
        <5>2. k \in 1 .. n + 1 /\ k < n + 1
          BY <2>2
        <5>3. QED BY <2>2, <5>2
      <4>2. n + 1 \in DOMAIN r /\ r[n + 1] = e
        BY <2>2
      <4>3. QED BY <2>2, <2>6, <4>1, <4>2 DEF AllLined
    <3>2. SentOf(All(ss), RowsOf(ss))
      BY <1>2, <3>1
    <3>3. \/ ToSet(e) \subseteq RowsOf(ss)
          \/ \A x \in RowsOf(ss), y \in ToSet(e) : Msc[x] <= Msc[y]
      <4>1. CASE \E k \in 1 .. n : ss[k] = e
        BY <2>2, <4>1 DEF RowsOf
      <4>2. CASE \A k \in 1 .. n : Below(ss[k], e)
        <5>1. SUFFICES ASSUME NEW k \in 1 .. n, NEW x \in ToSet(ss[k]), NEW y \in ToSet(e)
                       PROVE  Msc[x] <= Msc[y]
          BY <2>2 DEF RowsOf
        <5>2. x < y
          BY <4>2 DEF Below
        <5>3. x \in DOMAIN Msc /\ y \in DOMAIN Msc
          <6>1. ToSet(ss[k]) \subseteq RowsOf(ss)
            BY <2>2 DEF RowsOf
          <6>2. ToSet(e) \subseteq DOMAIN Msc
            BY ElementOfSeq, LenProperties DEF ToSet
          <6>3. QED BY <2>5, <6>1, <6>2
        <5>4. QED BY <5>2, <5>3, MscGrows
      <4>3. QED BY <3>1, <4>1, <4>2 DEF Lined
    <3>4. QED BY <2>1, <2>4, <2>5, <3>1, <3>2, <3>3, ReadMore
  <2>7. QED BY <2>2, <2>6 DEF r
<1> HIDE DEF S, All
<1>3. Seq(Seq(DOMAIN Msc)) \subseteq S
  BY <1>1, <1>2, Reading!AllSequences
<1>4. QED BY <1>3 DEF S, All

\* What is read are files of the date, each once, in the order of their numbers.
LEMMA StoredIs ==
  ASSUME PipelineTypes, PartsBounded, NEW date
  PROVE  /\ Stored(date) \in Seq(Seq(DOMAIN Msc))
         /\ \A k \in DOMAIN Stored(date) : \E p \in Readable(date) :
              <<date, p>> \in DOMAIN files /\ Stored(date)[k] = files[<<date, p>>]
         /\ \A k, l \in DOMAIN Stored(date) : k < l =>
              \E p, q \in Readable(date) :
                /\ p < q /\ <<date, p>> \in DOMAIN files /\ <<date, q>> \in DOMAIN files
                /\ Stored(date)[k] = files[<<date, p>>] /\ Stored(date)[l] = files[<<date, q>>]
         /\ \A p \in Readable(date) : \E k \in DOMAIN Stored(date) :
              Stored(date)[k] = files[<<date, p>>]
<1> DEFINE R == Readable(date)
           s == Stored(date)
           c == Cardinality(R)
<1>1. \A p \in R : <<date, p>> \in DOMAIN files /\ p \in Nat
  <2>1. SUFFICES ASSUME NEW f \in DOMAIN files, f[1] = date
                 PROVE  <<date, f[2]>> \in DOMAIN files /\ f[2] \in Nat
    BY DEF Readable
  <2>2. f \in Dates \X Nat
    BY DEF PipelineTypes
  <2>3. f = <<f[1], f[2]>> /\ f[2] \in Nat
    BY <2>2
  <2>4. QED BY <2>1, <2>3
<1>2. R \in SUBSET Nat /\ IsFiniteSet(R)
  <2>1. PICK n \in Nat : \A f \in DOMAIN files : f[2] <= n
    BY DEF PartsBounded
  <2>2. \A p \in R : p \in 0 .. n
    <3>1. SUFFICES ASSUME NEW p \in R PROVE p \in Nat /\ p <= n
      OBVIOUS
    <3>2. <<date, p>> \in DOMAIN files
      BY <1>1
    <3>3. <<date, p>>[2] <= n
      BY <2>1, <3>2
    <3>4. QED BY <1>1, <3>3
  <2> HIDE DEF R
  <2>3. IsFiniteSet(0 .. n) /\ R \subseteq 0 .. n
    BY <2>2, FS_Interval
  <2>4. IsFiniteSet(R)
    BY <2>3, FS_Subset
  <2>5. QED BY <1>1, <2>4
<1>3. /\ c \in Nat
      /\ \A k \in 1 .. c : Nth(R, k) \in R
      /\ \A k, l \in 1 .. c : k < l => Nth(R, k) < Nth(R, l)
      /\ \A i \in R : \E k \in 1 .. c : Nth(R, k) = i
  <2> HIDE DEF R
  <2> QED BY <1>2, NthIs
<1>4. s = [k \in 1 .. c |-> files[<<date, Nth(R, k)>>]]
  BY DEF Stored
<1> HIDE DEF R, c, s
<1>5. \A k \in 1 .. c : files[<<date, Nth(R, k)>>] \in Seq(DOMAIN Msc)
  <2>1. \A f \in DOMAIN files : files[f] \in Seq(DOMAIN Msc)
    BY TicksAreInFeed, SeqMonotonic DEF PipelineTypes, TypeOK
  <2>2. QED BY <1>1, <1>3, <2>1
<1>6. s \in Seq(Seq(DOMAIN Msc)) /\ DOMAIN s = 1 .. c
  BY <1>3, <1>4, <1>5
<1>7. \A k \in 1 .. c : s[k] = files[<<date, Nth(R, k)>>] /\ Nth(R, k) \in R
  BY <1>3, <1>4
<1>8. \A k \in DOMAIN s : \E p \in R : <<date, p>> \in DOMAIN files /\ s[k] = files[<<date, p>>]
  BY <1>1, <1>6, <1>7
<1>9. \A k, l \in DOMAIN s : k < l =>
        \E p, q \in R : /\ p < q /\ <<date, p>> \in DOMAIN files /\ <<date, q>> \in DOMAIN files
                        /\ s[k] = files[<<date, p>>] /\ s[l] = files[<<date, q>>]
  BY <1>1, <1>3, <1>6, <1>7
<1>10. \A p \in R : \E k \in DOMAIN s : s[k] = files[<<date, p>>]
  BY <1>3, <1>6, <1>7
<1>11. QED BY <1>6, <1>8, <1>9, <1>10 DEF R, s

\* ReplayIsFeed: ReplayEngine.run emits rows that are in the files of the date,
\* with stamps that strictly ascend and none that was stored left out, for every
\* feed and every size of batch, queue and buffer, whatever was written twice,
\* left torn or written by other processes.
THEOREM ReplayFollowsTheFeed == Spec => []ReplayIsFeed
<1>1. ASSUME PipelineInv, LineInv PROVE ReplayIsFeed
  <2> DEFINE Kept(date) == UNION {ToSet(files[<<date, p>>]) : p \in Readable(date)}
  <2>1. SUFFICES ASSUME NEW date
                 PROVE  SentOf(Replayed(date), Kept(date))
    BY DEF ReplayIsFeed, SentOf, Ascends
  <2> DEFINE s == Stored(date)
  <2>2. PipelineTypes /\ PartsBounded
    BY <1>1 DEF PipelineInv
  <2>3. /\ s \in Seq(Seq(DOMAIN Msc))
        /\ \A k \in DOMAIN s : \E p \in Readable(date) :
             <<date, p>> \in DOMAIN files /\ s[k] = files[<<date, p>>]
        /\ \A k, l \in DOMAIN s : k < l =>
             \E p, q \in Readable(date) :
                /\ p < q /\ <<date, p>> \in DOMAIN files /\ <<date, q>> \in DOMAIN files
                /\ s[k] = files[<<date, p>>] /\ s[l] = files[<<date, q>>]
        /\ \A p \in Readable(date) : \E k \in DOMAIN s : s[k] = files[<<date, p>>]
    BY <2>2, StoredIs
  <2>4. Replayed(date) = Reading!Fold(<<>>, s)
    BY ReplayedIs
  <2> HIDE DEF s
  <2>5. AllLined(s)
    <3>1. ASSUME NEW k \in DOMAIN s PROVE InOrder(s[k])
      BY <1>1, <2>3 DEF LineInv, FilesInLine, Behind
    <3>2. ASSUME NEW k \in DOMAIN s, NEW l \in DOMAIN s, k < l PROVE Lined(s[k], s[l])
      <4>1. PICK p \in Readable(date), q \in Readable(date) :
              /\ p < q /\ <<date, p>> \in DOMAIN files /\ <<date, q>> \in DOMAIN files
              /\ s[k] = files[<<date, p>>] /\ s[l] = files[<<date, q>>]
        BY <2>3, <3>2
      <4>2. <<date, p>>[1] = <<date, q>>[1] /\ <<date, p>>[2] < <<date, q>>[2]
        BY <4>1
      <4>3. QED BY <1>1, <4>1, <4>2 DEF LineInv, FilesInLine
    <3>3. QED BY <3>1, <3>2 DEF AllLined
  <2>6. SentOf(Reading!Fold(<<>>, s), RowsOf(s))
    BY <2>3, <2>5, ReadAll
  <2>7. RowsOf(s) = Kept(date)
    <3>1. ASSUME NEW x \in RowsOf(s) PROVE x \in Kept(date)
      <4>1. PICK k \in DOMAIN s : x \in ToSet(s[k])
        BY DEF RowsOf
      <4>2. QED BY <2>3, <4>1
    <3>2. ASSUME NEW x \in Kept(date) PROVE x \in RowsOf(s)
      <4>1. PICK p \in Readable(date) : x \in ToSet(files[<<date, p>>])
        OBVIOUS
      <4>2. PICK k \in DOMAIN s : s[k] = files[<<date, p>>]
        BY <2>3
      <4>3. QED BY <4>1, <4>2 DEF RowsOf
    <3> HIDE DEF Kept
    <3>3. QED BY <3>1, <3>2
  <2>8. QED BY <2>4, <2>6, <2>7
<1>2. QED BY <1>1, LineAlways, PTL

=============================================================================
