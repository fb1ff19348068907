--------------------------- MODULE SequenceFacts ---------------------------
(***************************************************************************)
(* What the operators that model queues do, index by index, how many times *)
(* they then hold what is counted, and what an order of a finite set is:   *)
(* the facts about sequences that the proofs about WritePipeline.tla,      *)
(* Credentials.tla, LocalView.tla, Publishing.tla, ReadPath.tla and        *)
(* ImageLoading.tla share.                                                 *)
(***************************************************************************)
EXTENDS Naturals, Sequences, FiniteSets, SequencesExt, FiniteSetTheorems, TLAPS

\* What Append does, index by index.
LEMMA AppendFacts ==
  ASSUME NEW S, NEW s \in Seq(S), NEW e \in S
  PROVE  /\ Append(s, e) \in Seq(S)
         /\ Len(s) \in Nat
         /\ DOMAIN s = 1 .. Len(s)
         /\ DOMAIN Append(s, e) = 1 .. Len(s) + 1
         /\ \A i \in DOMAIN s : Append(s, e)[i] = s[i]
         /\ Append(s, e)[Len(s) + 1] = e
OBVIOUS

\* What Head and Tail do, index by index.
LEMMA TailFacts ==
  ASSUME NEW S, NEW s \in Seq(S), s # <<>>
  PROVE  /\ Tail(s) \in Seq(S)
         /\ Len(s) \in Nat
         /\ DOMAIN s = 1 .. Len(s)
         /\ 1 \in DOMAIN s
         /\ Head(s) = s[1]
         /\ Head(s) \in S
         /\ DOMAIN Tail(s) = 1 .. Len(s) - 1
         /\ \A i \in DOMAIN Tail(s) : Tail(s)[i] = s[i + 1] /\ i + 1 \in DOMAIN s
OBVIOUS

\* What concatenation does, index by index.
LEMMA ConcatFacts ==
  ASSUME NEW S, NEW s \in Seq(S), NEW t \in Seq(S)
  PROVE  /\ s \o t \in Seq(S)
         /\ Len(s) \in Nat /\ Len(t) \in Nat
         /\ Len(s \o t) = Len(s) + Len(t)
         /\ DOMAIN s = 1 .. Len(s)
         /\ DOMAIN t = 1 .. Len(t)
         /\ DOMAIN (s \o t) = 1 .. Len(s) + Len(t)
         /\ \A i \in DOMAIN s : (s \o t)[i] = s[i]
         /\ \A i \in DOMAIN t : (s \o t)[Len(s) + i] = t[i]
OBVIOUS

\* Concatenation with a single element puts it at the end.
LEMMA PushFacts ==
  ASSUME NEW S, NEW s \in Seq(S), NEW e \in S
  PROVE  /\ s \o <<e>> \in Seq(S)
         /\ \A i \in DOMAIN s : i \in DOMAIN (s \o <<e>>) /\ (s \o <<e>>)[i] = s[i]
         /\ \A i \in DOMAIN (s \o <<e>>) : i \notin DOMAIN s => (s \o <<e>>)[i] = e
         /\ \A i, j \in DOMAIN (s \o <<e>>) : i \notin DOMAIN s /\ j \notin DOMAIN s => i = j
<1> DEFINE t == <<e>>
<1>1. t \in Seq(S) /\ Len(t) = 1 /\ DOMAIN t = 1 .. 1 /\ t[1] = e
  OBVIOUS
<1> HIDE DEF t
<1>2. /\ s \o t \in Seq(S)
      /\ Len(s) \in Nat /\ DOMAIN s = 1 .. Len(s)
      /\ DOMAIN (s \o t) = 1 .. Len(s) + 1
      /\ \A i \in DOMAIN s : (s \o t)[i] = s[i]
      /\ (s \o t)[Len(s) + 1] = e
  BY <1>1, ConcatFacts
<1>3. \A i \in DOMAIN (s \o t) : i \notin DOMAIN s => i = Len(s) + 1
  BY <1>2
<1>4. \A i \in DOMAIN s : i \in DOMAIN (s \o t)
  BY <1>2
<1>5. /\ s \o t \in Seq(S)
      /\ \A i \in DOMAIN s : i \in DOMAIN (s \o t) /\ (s \o t)[i] = s[i]
      /\ \A i \in DOMAIN (s \o t) : i \notin DOMAIN s => (s \o t)[i] = e
      /\ \A i, j \in DOMAIN (s \o t) : i \notin DOMAIN s /\ j \notin DOMAIN s => i = j
  BY <1>2, <1>3, <1>4
<1> QED
  BY <1>5 DEF t

\* Replacing one element keeps the rest.
LEMMA ExceptFacts ==
  ASSUME NEW S, NEW s \in Seq(S), NEW k \in DOMAIN s, NEW e \in S
  PROVE  /\ [s EXCEPT ![k] = e] \in Seq(S)
         /\ Len([s EXCEPT ![k] = e]) = Len(s)
         /\ DOMAIN [s EXCEPT ![k] = e] = DOMAIN s
         /\ \A i \in DOMAIN s : [s EXCEPT ![k] = e][i] = IF i = k THEN e ELSE s[i]
OBVIOUS

\* An order of a finite set has each of its elements once.
LEMMA OrderFacts ==
  ASSUME NEW S, IsFiniteSet(S), NEW s \in SetToSeqs(S)
  PROVE  /\ s \in Seq(S)
         /\ \A i, j \in DOMAIN s : s[i] = s[j] => i = j
         /\ \A x \in S : \E i \in DOMAIN s : s[i] = x
<1> DEFINE D == 1 .. Cardinality(S)
<1>1. Cardinality(S) \in Nat
  BY FS_CardinalityType
<1>2. s \in [D -> S] /\ \A i, j \in D : i # j => s[i] # s[j]
  BY DEF SetToSeqs
<1>3. IsFiniteSet(D) /\ Cardinality(D) = Cardinality(S)
  BY <1>1, FS_Interval
<1>4. s \in Injection(D, S)
  BY <1>2 DEF Injection, IsInjective
<1>5. s \in Surjection(D, S)
  BY <1>3, <1>4, FS_Injection
<1>6. s \in Seq(S)
  BY <1>1, <1>2
<1> QED
  BY <1>2, <1>5, <1>6 DEF Surjection

\* Order of the values of a function on a finite set.
LEMMA OrderOfImage ==
  ASSUME NEW R, IsFiniteSet(R), NEW T, NEW f \in [R -> T],
         NEW s \in SetToSeqs({f[r] : r \in R})
  PROVE  /\ s \in Seq(T)
         /\ \A i \in DOMAIN s : \E r \in R : s[i] = f[r]
         /\ \A i, j \in DOMAIN s : s[i] = s[j] => i = j
         /\ \A r \in R : \E i \in DOMAIN s : s[i] = f[r]
<1> DEFINE S == {f[r] : r \in R}
<1>1. f \in Surjection(R, S)
  BY DEF Surjection
<1>2. IsFiniteSet(S)
  BY <1>1, FS_Surjection
<1>3. /\ s \in Seq(S)
      /\ \A i, j \in DOMAIN s : s[i] = s[j] => i = j
      /\ \A x \in S : \E i \in DOMAIN s : s[i] = x
  BY <1>2, OrderFacts
<1>4. S \subseteq T
  OBVIOUS
<1>5. \A i \in DOMAIN s : s[i] \in S
  BY <1>3
<1>6. s \in Seq(T)
  BY <1>3, <1>4
<1> QED
  BY <1>3, <1>5, <1>6

\* How many elements of a sequence are in a set.
Occurrences(s, K) == Cardinality({i \in DOMAIN s : s[i] \in K})

\* A count, which is zero where there is nothing.
LEMMA CountFacts ==
  ASSUME NEW S, NEW s \in Seq(S), NEW K
  PROVE  /\ Occurrences(s, K) \in Nat
         /\ Occurrences(s, K) = 0 <=> \A i \in DOMAIN s : s[i] \notin K
         /\ IsFiniteSet({i \in DOMAIN s : s[i] \in K})
<1> DEFINE P == {i \in DOMAIN s : s[i] \in K}
<1>1. IsFiniteSet(DOMAIN s)
  <2>1. DOMAIN s = 1 .. Len(s) /\ Len(s) \in Int
    OBVIOUS
  <2> QED
    BY <2>1, FS_Interval
<1>2. IsFiniteSet(P)
  BY <1>1, FS_Subset
<1>3. Cardinality(P) \in Nat /\ (Cardinality(P) = 0 <=> P = {})
  BY <1>2, FS_CardinalityType, FS_EmptySet
<1> QED
  BY <1>2, <1>3 DEF Occurrences

\* An element more at the end.
LEMMA CountAppend ==
  ASSUME NEW S, NEW s \in Seq(S), NEW e \in S, NEW K
  PROVE  Occurrences(Append(s, e), K) = Occurrences(s, K) + IF e \in K THEN 1 ELSE 0
<1> DEFINE P == {i \in DOMAIN s : s[i] \in K}
           n == Len(s) + 1
<1>1. IsFiniteSet(P) /\ Cardinality(P) \in Nat
  BY CountFacts DEF Occurrences
<1>2. n \notin P
  OBVIOUS
<1> DEFINE Q == {i \in DOMAIN Append(s, e) : Append(s, e)[i] \in K}
<1>3. Q = IF e \in K THEN P \cup {n} ELSE P
  BY AppendFacts
<1> HIDE DEF P, Q, n
<1>4. Cardinality(P \cup {n}) = Cardinality(P) + 1
  BY <1>1, <1>2, FS_AddElement
<1>5. Cardinality(Q) = Cardinality(P) + IF e \in K THEN 1 ELSE 0
  BY <1>1, <1>3, <1>4
<1> QED
  BY <1>5 DEF P, Q, Occurrences

\* Sets of indices that are shifted against each other have the same size.
LEMMA ShiftedSize ==
  ASSUME NEW P \in SUBSET Nat, NEW Q \in SUBSET Nat, NEW k \in Nat, IsFiniteSet(P),
         \A i \in Nat : i \in P <=> i + k \in Q,
         \A j \in Q : j >= k
  PROVE  IsFiniteSet(Q) /\ Cardinality(Q) = Cardinality(P)
<1> DEFINE f == [i \in P |-> i + k]
<1>1. f \in [P -> Q]
  OBVIOUS
<1>2. \A i, j \in P : f[i] = f[j] => i = j
  OBVIOUS
<1>3. ASSUME NEW j \in Q
      PROVE  \E i \in P : f[i] = j
  <2>1. j - k \in P /\ f[j - k] = j
    OBVIOUS
  <2> QED
    BY <2>1
<1>4. f \in Bijection(P, Q)
  BY <1>1, <1>2, <1>3 DEF Bijection, Injection, IsInjective, Surjection
<1>5. ExistsBijection(P, Q)
  BY <1>4 DEF ExistsBijection
<1> QED
  BY <1>5, FS_Bijection

\* An element less at the front.
LEMMA CountTail ==
  ASSUME NEW S, NEW s \in Seq(S), NEW K, s # <<>>
  PROVE  Occurrences(s, K) = Occurrences(Tail(s), K) + IF Head(s) \in K THEN 1 ELSE 0
<1> DEFINE P == {i \in DOMAIN s : s[i] \in K}
           Q == {i \in DOMAIN Tail(s) : Tail(s)[i] \in K}
<1>1. IsFiniteSet(P) /\ Cardinality(P) \in Nat /\ IsFiniteSet(Q) /\ Cardinality(Q) \in Nat
  <2>1. Tail(s) \in Seq(S)
    BY TailFacts
  <2> QED
    BY <2>1, CountFacts DEF Occurrences
<1>2. /\ P \subseteq Nat /\ Q \subseteq Nat
      /\ \A i \in Nat : i \in Q <=> i + 1 \in P \ {1}
      /\ \A j \in P \ {1} : j >= 1
      /\ 1 \in P <=> Head(s) \in K
  BY TailFacts
<1> HIDE DEF P, Q
<1>3. Cardinality(P \ {1}) = Cardinality(Q)
  BY <1>1, <1>2, ShiftedSize
<1>4. Cardinality(P \ {1}) = IF 1 \in P THEN Cardinality(P) - 1 ELSE Cardinality(P)
  BY <1>1, FS_RemoveElement
<1>5. Cardinality(P) = Cardinality(Q) + IF Head(s) \in K THEN 1 ELSE 0
  BY <1>1, <1>2, <1>3, <1>4
<1> QED
  BY <1>5 DEF P, Q, Occurrences

\* Of two sequences one after the other.
LEMMA CountConcat ==
  ASSUME NEW S, NEW s \in Seq(S), NEW t \in Seq(S), NEW K
  PROVE  Occurrences(s \o t, K) = Occurrences(s, K) + Occurrences(t, K)
<1> DEFINE P == {i \in DOMAIN s : s[i] \in K}
           Q == {i \in DOMAIN t : t[i] \in K}
           R == {i \in DOMAIN (s \o t) : (s \o t)[i] \in K}
<1>1. IsFiniteSet(P) /\ Cardinality(P) \in Nat /\ IsFiniteSet(Q) /\ Cardinality(Q) \in Nat
  BY CountFacts DEF Occurrences
<1>2. PICK n \in Nat : n = Len(s)
  OBVIOUS
<1>3. /\ P \subseteq 1 .. n /\ P \subseteq R /\ R \subseteq Nat /\ Q \subseteq Nat
      /\ \A i \in R : i <= n => i \in P
      /\ \A i \in Nat : i \in Q <=> i + n \in R \ P
      /\ \A j \in R \ P : j >= n
  <2>1. /\ DOMAIN s = 1 .. n /\ DOMAIN t = 1 .. Len(t) /\ Len(t) \in Nat
        /\ DOMAIN (s \o t) = 1 .. n + Len(t)
        /\ \A i \in DOMAIN s : (s \o t)[i] = s[i]
        /\ \A i \in DOMAIN t : (s \o t)[n + i] = t[i]
    BY <1>2, ConcatFacts
  <2> HIDE DEF P, Q, R
  <2>2. P \subseteq 1 .. n /\ P \subseteq R /\ R \subseteq Nat /\ Q \subseteq Nat
    BY <2>1 DEF P, Q, R
  <2>3. \A i \in R : i <= n => i \in P
    BY <2>1 DEF P, R
  <2>4. ASSUME NEW i \in Nat
        PROVE  i \in Q <=> i + n \in R \ P
    <3>1. i + n \in DOMAIN s \/ i + n = 0 <=> i = 0
      BY <2>1
    <3>2. i # 0 => (i + n \in DOMAIN (s \o t) <=> i \in DOMAIN t)
      BY <2>1
    <3>3. i \in DOMAIN t => (s \o t)[i + n] = t[i]
      BY <2>1
    <3> QED
      BY <2>1, <3>1, <3>2, <3>3 DEF P, Q, R
  <2>5. \A j \in R \ P : j >= n
    BY <2>2, <2>3
  <2> QED
    BY <2>2, <2>3, <2>4, <2>5
<1> HIDE DEF P, Q, R
<1>4. IsFiniteSet(R \ P) /\ Cardinality(R \ P) = Cardinality(Q)
  BY <1>1, <1>3, ShiftedSize
<1>5. R = P \cup (R \ P) /\ P \cap (R \ P) = {}
  BY <1>3
<1>6. Cardinality(R) = Cardinality(P) + Cardinality(Q)
  <2>1. Cardinality(P \cup (R \ P)) =
          Cardinality(P) + Cardinality(R \ P) - Cardinality(P \cap (R \ P))
    BY <1>1, <1>4, FS_Union
  <2>2. Cardinality(P \cap (R \ P)) = 0
    BY <1>5, FS_EmptySet
  <2>3. Cardinality(P \cup (R \ P)) = Cardinality(P) + Cardinality(Q)
    BY <1>1, <1>4, <2>1, <2>2
  <2>4. Cardinality(R) = Cardinality(P \cup (R \ P))
    BY <1>5, Zenon
  <2> QED
    BY <2>3, <2>4
<1> QED
  BY <1>6 DEF P, Q, R, Occurrences

=============================================================================
