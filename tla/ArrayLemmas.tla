------------------------------- MODULE ArrayLemmas -------------------------------
(***************************************************************************)
(* Facts about sequences that have no set of their own, about the filter   *)
(* of an array, and induction over the natural numbers.                    *)
(***************************************************************************)
EXTENDS Arrays, FiniteSetTheorems, SequenceTheorems, WellFoundedInduction, TLAPS

-----------------------------------------------------------------------------
(* Induction, said of a set of numbers: the theorems of NaturalsInduction are *)
(* about an operator.                                                         *)

Less == {ss \in Nat \X Nat : ss[1] < ss[2]}

LEMMA LessIsWellFounded == IsWellFoundedOn(Less, Nat)
BY NatLessThanWellFounded, Zenon DEF Less, OpToRel

\* A set of numbers that has 0, and with each number the next, has them all.
LEMMA SetInduction ==
    ASSUME NEW T, T \subseteq Nat, 0 \in T, \A n \in T : n + 1 \in T
    PROVE  T = Nat
<1> SUFFICES ASSUME Nat \ T # {} PROVE FALSE
  OBVIOUS
<1>1. Nat \ T \subseteq Nat
  OBVIOUS
<1>2. PICK x \in Nat \ T : \A y \in Nat \ T : ~(<<y, x>> \in Less)
  BY <1>1, LessIsWellFounded, WFMin, Zenon
<1>3. x - 1 \in Nat /\ x = (x - 1) + 1
  OBVIOUS
<1>4. <<x - 1, x>> \in Less
  BY <1>3 DEF Less
<1>5. x - 1 \in T
  BY <1>2, <1>3, <1>4
<1> QED
  BY <1>3, <1>5

-----------------------------------------------------------------------------
(* Sequences whose elements have no set of their own *)

\* A finite sequence: its elements are events or event bases, records of many shapes.
IsSeq(s) == \E S : s \in Seq(S)

\* The domain of a sequence is 1 to its length.
LEMMA SeqDomain ==
    ASSUME NEW s, IsSeq(s)
    PROVE  DOMAIN s = 1..Len(s) /\ Len(s) \in Nat
BY DEF IsSeq

\* The empty sequence: the log before the first event, and the batch before a decision.
LEMMA NilFacts == IsSeq(<<>>) /\ Len(<<>>) = 0 /\ DOMAIN <<>> = 1..0
<1>1. <<>> \in Seq({})
  OBVIOUS
<1>2. Len(<<>>) = 0
  OBVIOUS
<1>3. IsSeq(<<>>)
  BY <1>1 DEF IsSeq
<1> QED
  BY <1>2, <1>3, SeqDomain

\* A sequence of one, what most commands decide.
LEMMA SingletonFacts ==
    ASSUME NEW e
    PROVE  IsSeq(<<e>>) /\ Len(<<e>>) = 1 /\ <<e>>[1] = e
<1>1. <<e>> \in Seq({e})
  OBVIOUS
<1>2. IsSeq(<<e>>)
  BY <1>1 DEF IsSeq
<1> QED
  BY <1>2

\* A sequence of two, what a turn start decides.
LEMMA PairFacts ==
    ASSUME NEW d, NEW e
    PROVE  IsSeq(<<d, e>>) /\ Len(<<d, e>>) = 2 /\ <<d, e>>[1] = d /\ <<d, e>>[2] = e
<1>1. <<d, e>> \in Seq({d, e})
  OBVIOUS
<1>2. IsSeq(<<d, e>>)
  BY <1>1 DEF IsSeq
<1> QED
  BY <1>2

\* Concatenation, which is what a commit does to the log.
LEMMA ConcatFacts ==
    ASSUME NEW s, NEW t, IsSeq(s), IsSeq(t)
    PROVE  /\ IsSeq(s \o t)
           /\ Len(s \o t) = Len(s) + Len(t)
           /\ \A i \in 1..Len(s) : (s \o t)[i] = s[i]
           /\ \A i \in 1..Len(t) : (s \o t)[Len(s) + i] = t[i]
<1>1. PICK S : s \in Seq(S)
  BY DEF IsSeq
<1>2. PICK T : t \in Seq(T)
  BY DEF IsSeq
<1>3. s \in Seq(S \cup T) /\ t \in Seq(S \cup T)
  BY <1>1, <1>2
<1> QED
  BY <1>3 DEF IsSeq

\* Appending an element, which is what storing an event does to the batch.
LEMMA AppendFacts ==
    ASSUME NEW s, NEW e, IsSeq(s)
    PROVE  /\ IsSeq(Append(s, e))
           /\ Len(Append(s, e)) = Len(s) + 1
           /\ \A i \in 1..Len(s) : Append(s, e)[i] = s[i]
           /\ Append(s, e)[Len(s) + 1] = e
<1>1. PICK S : s \in Seq(S)
  BY DEF IsSeq
<1>3. s \in Seq(S \cup {e}) /\ e \in S \cup {e}
  BY <1>1
<1> QED
  BY <1>3 DEF IsSeq

\* The head and the tail of a sequence that has one.
LEMMA TailFacts ==
    ASSUME NEW s, IsSeq(s), s # <<>>
    PROVE  /\ Len(s) > 0
           /\ Head(s) = s[1]
           /\ IsSeq(Tail(s))
           /\ Len(Tail(s)) = Len(s) - 1
           /\ \A i \in 1..Len(Tail(s)) : Tail(s)[i] = s[i + 1]
BY DEF IsSeq

\* What the log holds past position m, which is what a read back after a failure returns.
LEMMA SubSeqFacts ==
    ASSUME NEW s, IsSeq(s), NEW m \in Nat, m <= Len(s)
    PROVE  /\ IsSeq(SubSeq(s, m + 1, Len(s)))
           /\ Len(SubSeq(s, m + 1, Len(s))) = Len(s) - m
           /\ \A i \in 1..(Len(s) - m) : SubSeq(s, m + 1, Len(s))[i] = s[m + i]
<1>1. PICK S : s \in Seq(S)
  BY DEF IsSeq
<1>2. \A i \in (m + 1)..Len(s) : s[i] \in S
  BY <1>1
<1>3. /\ SubSeq(s, m + 1, Len(s)) \in Seq(S)
      /\ Len(SubSeq(s, m + 1, Len(s))) = Len(s) - m
      /\ \A i \in 1..(Len(s) - m) : SubSeq(s, m + 1, Len(s))[i] = s[m + i]
  BY <1>1, SubSeqProperties
<1> QED
  BY <1>3 DEF IsSeq

-----------------------------------------------------------------------------
(* One entry of an array *)

LEMMA AppendSeqFacts ==
    ASSUME NEW S, NEW q \in Seq(S), NEW e \in S
    PROVE  /\ Append(q, e) \in Seq(S) /\ Append(q, e) # <<>>
           /\ Len(q) \in Nat /\ DOMAIN q = 1..Len(q)
           /\ Len(Append(q, e)) = Len(q) + 1 /\ DOMAIN Append(q, e) = 1..(Len(q) + 1)
           /\ Append(q, e)[Len(q) + 1] = e
           /\ \A i \in 1..Len(q) : Append(q, e)[i] = q[i]
OBVIOUS

LEMMA ExceptFacts ==
    ASSUME NEW S, NEW q \in Seq(S), NEW i \in DOMAIN q, NEW e \in S
    PROVE  LET new == [q EXCEPT ![i] = e]
           IN  /\ new \in Seq(S) /\ Len(new) = Len(q) /\ DOMAIN new = DOMAIN q
               /\ new[i] = e /\ \A j \in DOMAIN q : j # i => new[j] = q[j]
<1> DEFINE new == [q EXCEPT ![i] = e]
<1>1. q \in [1..Len(q) -> S] /\ Len(q) \in Nat /\ DOMAIN q = 1..Len(q)
  OBVIOUS
<1>2. new \in [1..Len(q) -> S]
  <2>1. \A j \in 1..Len(q) : new[j] \in S
    BY <1>1
  <2> QED
    BY <1>1, <2>1
<1>3. new \in Seq(S)
  BY <1>1, <1>2
<1> QED
  BY <1>1, <1>2, <1>3

-----------------------------------------------------------------------------
(* The filter of an array *)

Rank(i, K) == Cardinality({j \in K : j <= i})

LEMMA RankType ==
    ASSUME NEW K, K \subseteq Nat, IsFiniteSet(K), NEW i \in K
    PROVE  Rank(i, K) \in 1..Cardinality(K) /\ Rank(i, K) \in Nat
<1> DEFINE L == {j \in K : j <= i}
<1>1. /\ IsFiniteSet(L) /\ Cardinality(L) <= Cardinality(K)
      /\ Cardinality(L) \in Nat /\ Cardinality(K) \in Nat
  <2>1. L \in SUBSET K
    OBVIOUS
  <2>2. IsFiniteSet(L) /\ Cardinality(L) <= Cardinality(K)
    BY <2>1, FS_Subset
  <2> QED
    BY <2>2, FS_CardinalityType
<1>2. Cardinality(L) # 0
  <2>1. i \in L
    OBVIOUS
  <2> QED
    BY <2>1, <1>1, FS_EmptySet
<1> QED
  BY <1>1, <1>2 DEF Rank

LEMMA RankIncreases ==
    ASSUME NEW K, K \subseteq Nat, IsFiniteSet(K), NEW i \in K, NEW j \in K, i < j
    PROVE  Rank(i, K) < Rank(j, K)
<1> DEFINE L == {k \in K : k <= i}
           M == {k \in K : k <= j}
<1>1. L \in SUBSET M /\ L # M /\ M \in SUBSET K
  <2>1. j \in M /\ j \notin L
    OBVIOUS
  <2>2. \A k \in L : k \in M
    OBVIOUS
  <2> HIDE DEF L, M
  <2>3. L \subseteq M /\ L # M
    BY <2>1, <2>2
  <2> QED
    BY <2>3 DEF M
<1>2. IsFiniteSet(M)
  BY <1>1, FS_Subset
<1>3. Cardinality(L) <= Cardinality(M) /\ Cardinality(L) # Cardinality(M)
  BY <1>1, <1>2, FS_Subset
<1>4. Cardinality(L) \in Nat /\ Cardinality(M) \in Nat
  BY <1>1, <1>2, FS_Subset, FS_CardinalityType
<1> QED
  BY <1>3, <1>4 DEF Rank

LEMMA RankIsOnto ==
    ASSUME NEW K, K \subseteq Nat, IsFiniteSet(K), NEW n \in 1..Cardinality(K)
    PROVE  \E i \in K : Rank(i, K) = n
<1> DEFINE f == [i \in K |-> Rank(i, K)]
           N == 1..Cardinality(K)
<1>1. f \in [K -> N]
  BY RankType
<1>2. f \in Injection(K, N)
  <2>1. ASSUME NEW i \in K, NEW j \in K, f[i] = f[j] PROVE i = j
    <3>1. i < j \/ j < i \/ i = j
      OBVIOUS
    <3>2. Rank(i, K) \in Nat /\ Rank(j, K) \in Nat
      BY RankType
    <3>3. (i < j => Rank(i, K) < Rank(j, K)) /\ (j < i => Rank(j, K) < Rank(i, K))
      BY RankIncreases
    <3> QED
      BY <2>1, <3>1, <3>2, <3>3
  <2> QED
    BY <1>1, <2>1 DEF Injection, IsInjective
<1>3. IsFiniteSet(N) /\ Cardinality(N) = Cardinality(K)
  BY FS_CardinalityType, FS_Interval
<1>4. f \in Surjection(K, N)
  BY <1>2, <1>3, FS_Injection
<1> QED
  BY <1>4 DEF Surjection

\* The position among the entries of s that each index of K gets.
LEMMA EntriesFacts ==
    ASSUME NEW s, NEW K, K \subseteq Nat, IsFiniteSet(K)
    PROVE  /\ DOMAIN Entries(s, K) = 1..Cardinality(K)
           /\ Cardinality(K) \in Nat
           /\ \A i \in K : Rank(i, K) \in 1..Cardinality(K) /\ Entries(s, K)[Rank(i, K)] = s[i]
           /\ \A n \in 1..Cardinality(K) :
                 \E i \in K : Rank(i, K) = n /\ Entries(s, K)[n] = s[i]
           /\ \A i, j \in K : i < j <=> Rank(i, K) < Rank(j, K)
<1> DEFINE At(n) == CHOOSE i \in K : Rank(i, K) = n
<1>1. Entries(s, K) = [n \in 1..Cardinality(K) |-> s[At(n)]]
  BY DEF Entries, Rank
<1>2. \A i, j \in K : i < j <=> Rank(i, K) < Rank(j, K)
  <2> TAKE i \in K, j \in K
  <2>1. Rank(i, K) \in Nat /\ Rank(j, K) \in Nat
    BY RankType
  <2>2. i < j \/ j < i \/ i = j
    OBVIOUS
  <2>3. (i < j => Rank(i, K) < Rank(j, K)) /\ (j < i => Rank(j, K) < Rank(i, K))
    BY RankIncreases
  <2> QED
    BY <2>1, <2>2, <2>3
<1>3. ASSUME NEW i \in K PROVE Rank(i, K) \in 1..Cardinality(K) /\ At(Rank(i, K)) = i
  <2>1. Rank(i, K) \in 1..Cardinality(K)
    BY RankType
  <2>2. At(Rank(i, K)) \in K /\ Rank(At(Rank(i, K)), K) = Rank(i, K)
    OBVIOUS
  <2> QED
    BY <2>1, <2>2, <1>2, RankType
<1>4. ASSUME NEW n \in 1..Cardinality(K) PROVE At(n) \in K /\ Rank(At(n), K) = n
  BY RankIsOnto
<1>5. Cardinality(K) \in Nat
  BY FS_CardinalityType
<1> HIDE DEF At
<1> QED
  BY <1>1, <1>2, <1>3, <1>4, <1>5

\* A filter keeps entries of the array, each once if they were different.
LEMMA EntriesAreOld ==
    ASSUME NEW S, NEW s \in Seq(S), NEW K, K \subseteq DOMAIN s
    PROVE  /\ Entries(s, K) \in Seq(S)
           /\ \A i \in DOMAIN Entries(s, K) : \E j \in K : Entries(s, K)[i] = s[j]
           /\ \A j \in K : \E i \in DOMAIN Entries(s, K) : Entries(s, K)[i] = s[j]
           /\ (\A i, j \in DOMAIN s : s[i] = s[j] => i = j)
                 => \A i, j \in DOMAIN Entries(s, K) : Entries(s, K)[i] = Entries(s, K)[j] => i = j
           /\ Len(s) \in K => /\ Len(Entries(s, K)) > 0
                              /\ Entries(s, K)[Len(Entries(s, K))] = s[Len(s)]
<1>1. DOMAIN s = 1..Len(s) /\ Len(s) \in Nat
  OBVIOUS
<1>2. IsFiniteSet(K) /\ K \subseteq Nat
  <2>1. IsFiniteSet(1..Len(s)) /\ K \in SUBSET (1..Len(s))
    BY <1>1, FS_Interval
  <2> QED
    BY <2>1, FS_Subset
<1>8. /\ DOMAIN Entries(s, K) = 1..Cardinality(K) /\ Cardinality(K) \in Nat
      /\ \A n \in 1..Cardinality(K) : \E i \in K : Rank(i, K) = n /\ Entries(s, K)[n] = s[i]
  BY <1>2, EntriesFacts
<1>9. /\ \A i \in K : Rank(i, K) \in 1..Cardinality(K) /\ Entries(s, K)[Rank(i, K)] = s[i]
      /\ \A i, j \in K : i < j <=> Rank(i, K) < Rank(j, K)
  BY <1>2, EntriesFacts
<1> DEFINE E == Entries(s, K)
<1>3. /\ DOMAIN E = 1..Cardinality(K) /\ Cardinality(K) \in Nat
      /\ \A i \in K : Rank(i, K) \in 1..Cardinality(K) /\ E[Rank(i, K)] = s[i]
      /\ \A n \in 1..Cardinality(K) : \E i \in K : Rank(i, K) = n /\ E[n] = s[i]
      /\ \A i, j \in K : i < j <=> Rank(i, K) < Rank(j, K)
  BY <1>8, <1>9
<1>4. E \in Seq(S)
  <2>1. \A n \in 1..Cardinality(K) : E[n] \in S
    BY <1>3
  <2>2. E = [n \in 1..Cardinality(K) |-> E[n]]
    BY DEF Entries
  <2>3. E \in [1..Cardinality(K) -> S]
    BY <2>1, <2>2
  <2> QED
    BY <1>3, <2>3
<1>5. Len(E) = Cardinality(K)
  BY <1>3, <1>4
<1> HIDE DEF E
<1>6. ASSUME \A i, j \in DOMAIN s : s[i] = s[j] => i = j, NEW a \in DOMAIN E, NEW b \in DOMAIN E,
             E[a] = E[b]
      PROVE  a = b
  <2>1. PICK i \in K : Rank(i, K) = a /\ E[a] = s[i]
    BY <1>3
  <2>2. PICK j \in K : Rank(j, K) = b /\ E[b] = s[j]
    BY <1>3
  <2>3. i = j
    BY <1>6, <2>1, <2>2
  <2> QED
    BY <2>1, <2>2, <2>3
<1>7. ASSUME Len(s) \in K PROVE Len(E) > 0 /\ E[Len(E)] = s[Len(s)]
  <2>1. Rank(Len(s), K) = Cardinality(K)
    <3>1. {j \in K : j <= Len(s)} = K
      BY <1>1
    <3> QED
      BY <3>1 DEF Rank
  <2> QED
    BY <1>3, <1>5, <1>7, <2>1
<1> QED
  BY <1>3, <1>4, <1>6, <1>7 DEF E
=============================================================================
