----------------------------- MODULE ListLemmas -----------------------------
(***************************************************************************)
(* Facts about sequences of any length that several proofs need: what       *)
(* FlattenSeq joins and what Selected leaves.  Recursive definitions are    *)
(* reasoned about by their least counterexample.                            *)
(***************************************************************************)
EXTENDS Selections, SequencesExt, FiniteSetTheorems, SequenceTheorems,
        WellFoundedInduction, TLAPS

\* A set of numbers that is not empty has a least one.
LEMMA LeastOne ==
    ASSUME NEW T \in SUBSET Nat, T # {}
    PROVE  \E n \in T : \A m \in T : n <= m
<1>1. \E n \in T : ~ \E m \in T : <<m, n>> \in OpToRel(<, Nat)
    BY WFMin, NatLessThanWellFounded
<1>2. PICK n \in T : \A m \in T : ~(m < n)
    BY <1>1 DEF OpToRel
<1> QED BY <1>2

\* What FlattenSeq is defined by exists: the least length without one would have
\* a predecessor with one, which can be continued.
LEMMA Flattening ==
    ASSUME NEW seqs, NEW n \in Nat
    PROVE  \E f : f = [i \in 1..n |-> IF i = 1 THEN seqs[i] ELSE f[i - 1] \o seqs[i]]
<1> DEFINE Has(k) == \E f : f = [i \in 1..k |-> IF i = 1 THEN seqs[i] ELSE f[i - 1] \o seqs[i]]
           T == {k \in Nat : ~Has(k)}
<1>1. SUFFICES ASSUME T # {}
               PROVE  FALSE
    OBVIOUS
<1>2. PICK k \in T : \A m \in T : k <= m
    BY <1>1, LeastOne
<1>3. Has(0)
    <2>1. [i \in 1..0 |-> seqs[1]] = [i \in 1..0 |-> IF i = 1 THEN seqs[i] ELSE [j \in 1..0 |-> seqs[1]][i - 1] \o seqs[i]]
        OBVIOUS
    <2> QED BY <2>1
<1>4. k \in Nat /\ k # 0 /\ k - 1 \in Nat /\ Has(k - 1) /\ ~Has(k)
    <2> HIDE DEF Has
    <2>1. k \in Nat /\ ~Has(k)
        OBVIOUS
    <2>2. k # 0
        BY <1>3, <2>1
    <2>3. k - 1 \in Nat /\ ~(k <= k - 1)
        BY <2>1, <2>2
    <2>4. k - 1 \notin T
        BY <1>2, <2>3
    <2> QED BY <2>1, <2>2, <2>3, <2>4
<1>5. PICK f : f = [i \in 1..(k - 1) |-> IF i = 1 THEN seqs[i] ELSE f[i - 1] \o seqs[i]]
    BY <1>4
<1> DEFINE g == [i \in 1..k |-> IF i = k THEN (IF i = 1 THEN seqs[i] ELSE f[i - 1] \o seqs[i]) ELSE f[i]]
<1>6. ASSUME NEW i \in 1..k
      PROVE  g[i] = IF i = 1 THEN seqs[i] ELSE g[i - 1] \o seqs[i]
    <2>1. CASE i = k
        BY <1>4, <2>1
    <2>2. CASE i # k
        <3>1. i \in 1..(k - 1) /\ (i # 1 => i - 1 \in 1..k /\ i - 1 # k)
            BY <1>4, <2>2
        <3>2. f[i] = IF i = 1 THEN seqs[i] ELSE f[i - 1] \o seqs[i]
            BY <1>5, <3>1
        <3>3. g[i] = f[i] /\ (i # 1 => g[i - 1] = f[i - 1])
            BY <2>2, <3>1
        <3> QED BY <3>2, <3>3
    <2> QED BY <2>1, <2>2
<1>7. g = [i \in 1..k |-> IF i = 1 THEN seqs[i] ELSE g[i - 1] \o seqs[i]]
    BY <1>6
<1> QED BY <1>4, <1>7

\* FlattenSeq joins a sequence from its first part on.
LEMMA FlattenParts ==
    ASSUME NEW seqs, Len(seqs) \in Nat, Len(seqs) # 0
    PROVE  \E f : /\ f = [i \in 1..Len(seqs) |-> IF i = 1 THEN seqs[i] ELSE f[i - 1] \o seqs[i]]
                  /\ FlattenSeq(seqs) = f[Len(seqs)]
<1> DEFINE flatten == CHOOSE f : f = [i \in 1..Len(seqs) |-> IF i = 1 THEN seqs[i] ELSE f[i - 1] \o seqs[i]]
<1>1. FlattenSeq(seqs) = flatten[Len(seqs)]
    BY DEF FlattenSeq
<1>2. flatten = [i \in 1..Len(seqs) |-> IF i = 1 THEN seqs[i] ELSE flatten[i - 1] \o seqs[i]]
    BY Flattening
<1> HIDE DEF flatten
<1> QED BY <1>1, <1>2

\* What is selected from a list is a list.
LEMMA SelectedList ==
    ASSUME NEW seq, NEW n \in Nat, DOMAIN seq = 1..n, NEW S \in SUBSET (1..n)
    PROVE  \E m \in Nat : DOMAIN Selected(seq, S) = 1..m
<1>1. IsFiniteSet(1..n)
    BY FS_Interval
<1>2. Cardinality(S) \in Nat
    BY <1>1, FS_Subset, FS_CardinalityType
<1> QED BY <1>2 DEF Selected

\* What is selected from a sequence is what it has at the places selected, because
\* the places of a set have all the ranks below its size.
LEMMA SelectedElements ==
    ASSUME NEW seq, NEW n \in Nat, DOMAIN seq = 1..n, NEW S \in SUBSET (1..n)
    PROVE  /\ Selected(seq, S) \in Seq({seq[i] : i \in S})
           /\ {Selected(seq, S)[k] : k \in DOMAIN Selected(seq, S)} = {seq[i] : i \in S}
<1> DEFINE size == Cardinality(S)
           f == [i \in S |-> Rank(S, i) + 1]
<1>1. IsFiniteSet(S) /\ size \in Nat
    <2>1. IsFiniteSet(1..n)
        BY FS_Interval
    <2>2. IsFiniteSet(S)
        BY <2>1, FS_Subset
    <2> QED BY <2>2, FS_CardinalityType
<1>2. ASSUME NEW i \in S
      PROVE  Rank(S, i) \in Nat /\ Rank(S, i) < size
    <2> DEFINE T == {j \in S : j < i}
    <2>1. IsFiniteSet(T) /\ Cardinality(T) \in Nat /\ Cardinality(T) <= size
        BY <1>1, FS_Subset, FS_CardinalityType
    <2>2. Cardinality(T) # size
        BY <1>1, FS_Subset
    <2> HIDE DEF T
    <2>3. Cardinality(T) \in Nat /\ Cardinality(T) < size
        BY <1>1, <2>1, <2>2
    <2> QED BY <2>3 DEF T, Rank
<1>3. ASSUME NEW i \in S, NEW j \in S, i < j
      PROVE  Rank(S, i) < Rank(S, j)
    <2> DEFINE A == {k \in S : k < i}
               B == {k \in S : k < j}
    <2>1. i \in Int /\ j \in Int /\ \A k \in S : k \in Int
        OBVIOUS
    <2>2. A \subseteq B
        <3> SUFFICES ASSUME NEW k \in S, k < i PROVE k < j
            OBVIOUS
        <3> QED BY <1>3, <2>1
    <2>3. i \in B
        BY <1>3
    <2>4. A \subseteq B /\ i \in B /\ i \notin A
        BY <2>1, <2>2, <2>3
    <2>5. IsFiniteSet(A) /\ IsFiniteSet(B)
        BY <1>1, FS_Subset
    <2> HIDE DEF A, B
    <2>6. Cardinality(A) \in Nat /\ Cardinality(B) \in Nat /\ Cardinality(A) <= Cardinality(B)
        BY <2>4, <2>5, FS_Subset, FS_CardinalityType
    <2>7. Cardinality(A) # Cardinality(B)
        BY <2>4, <2>5, FS_Subset
    <2>8. Cardinality(A) < Cardinality(B)
        BY <2>6, <2>7
    <2> QED BY <2>8 DEF A, B, Rank
<1>4. ASSUME NEW i \in S, NEW j \in S, Rank(S, i) = Rank(S, j)
      PROVE  i = j
    BY <1>2, <1>3, <1>4
<1>5. f \in [S -> 1..size] /\ \A i, j \in S : f[i] = f[j] => i = j
    BY <1>1, <1>2, <1>4
<1>6. \A k \in 1..size : \E i \in S : f[i] = k
    <2>1. f \in Injection(S, 1..size)
        BY <1>5 DEF Injection, IsInjective
    <2>2. IsFiniteSet(1..size) /\ Cardinality(1..size) = size
        BY <1>1, FS_Interval
    <2>3. f \in Surjection(S, 1..size)
        BY <2>1, <2>2, FS_Injection
    <2> QED BY <2>3 DEF Surjection
<1> DEFINE place(k) == CHOOSE i \in S : Rank(S, i) = k - 1
<1>7. ASSUME NEW k \in 1..size
      PROVE  place(k) \in S
    <2>1. \E i \in S : Rank(S, i) = k - 1
        BY <1>1, <1>2, <1>6
    <2> QED BY <2>1
<1>8. ASSUME NEW i \in S
      PROVE  Rank(S, i) + 1 \in 1..size /\ place(Rank(S, i) + 1) = i
    <2>1. Rank(S, i) + 1 \in 1..size /\ Rank(S, i) = (Rank(S, i) + 1) - 1
        BY <1>1, <1>2
    <2>2. \A j \in S : Rank(S, j) = (Rank(S, i) + 1) - 1 => j = i
        BY <1>4, <2>1
    <2> QED BY <2>1, <2>2
<1>9. Selected(seq, S) = [k \in 1..size |-> seq[place(k)]]
    BY DEF Selected
<1> HIDE DEF place, f
<1>10. Selected(seq, S) \in Seq({seq[i] : i \in S})
    BY <1>1, <1>7, <1>9
<1>11. DOMAIN Selected(seq, S) = 1..size
    BY <1>9
<1>12. \A k \in 1..size : Selected(seq, S)[k] \in {seq[i] : i \in S}
    BY <1>7, <1>9
<1>13. \A i \in S : \E k \in 1..size : Selected(seq, S)[k] = seq[i]
    BY <1>8, <1>9
<1>14. {Selected(seq, S)[k] : k \in DOMAIN Selected(seq, S)} = {seq[i] : i \in S}
    BY <1>11, <1>12, <1>13
<1> QED BY <1>10, <1>14

\* What sequences of a set's elements join to is one too.
LEMMA FlattenTyped ==
    ASSUME NEW Y, NEW s \in Seq(Seq(Y))
    PROVE  FlattenSeq(s) \in Seq(Y)
<1>1. CASE s = <<>>
    BY <1>1 DEF FlattenSeq
<1>2. CASE s # <<>>
    <2>1. Len(s) \in Nat /\ Len(s) # 0 /\ \A i \in 1..Len(s) : s[i] \in Seq(Y)
        BY <1>2
    <2>2. PICK f : /\ f = [i \in 1..Len(s) |-> IF i = 1 THEN s[i] ELSE f[i - 1] \o s[i]]
                   /\ FlattenSeq(s) = f[Len(s)]
        BY <2>1, FlattenParts
    <2> DEFINE T == {k \in 1..Len(s) : f[k] \notin Seq(Y)}
    <2>3. SUFFICES ASSUME T # {}
                   PROVE  FALSE
        <3>1. Len(s) \in 1..Len(s)
            BY <2>1
        <3> QED BY <2>2, <3>1
    <2>4. PICK k \in T : \A m \in T : k <= m
        <3>1. T \in SUBSET Nat
            BY <2>1
        <3> QED BY <2>3, <3>1, LeastOne
    <2>5. CASE k = 1
        BY <2>1, <2>2, <2>4, <2>5
    <2>6. CASE k # 1
        <3>1. k - 1 \in 1..Len(s) /\ ~(k <= k - 1)
            BY <2>1, <2>4, <2>6
        <3>2. f[k - 1] \in Seq(Y)
            BY <2>4, <3>1
        <3>3. f[k] = f[k - 1] \o s[k] /\ s[k] \in Seq(Y)
            BY <2>1, <2>2, <2>4, <2>6
        <3>4. f[k] \in Seq(Y)
            BY <3>2, <3>3
        <3> QED BY <2>4, <3>4
    <2> QED BY <2>5, <2>6
<1> QED BY <1>1, <1>2

\* One part more is joined at the end.
LEMMA FlattenAppend ==
    ASSUME NEW Y, NEW s \in Seq(Seq(Y)), NEW x \in Seq(Y)
    PROVE  FlattenSeq(Append(s, x)) = FlattenSeq(s) \o x
<1> DEFINE n == Len(s)
           longer == Append(s, x)
<1>1. /\ n \in Nat /\ Len(longer) = n + 1 /\ longer[n + 1] = x
      /\ \A i \in 1..n : longer[i] = s[i]
    OBVIOUS
<1> HIDE DEF longer, n
<1>2. PICK g : /\ g = [i \in 1..Len(longer) |-> IF i = 1 THEN longer[i] ELSE g[i - 1] \o longer[i]]
               /\ FlattenSeq(longer) = g[Len(longer)]
    <2>1. Len(longer) \in Nat /\ Len(longer) # 0
        BY <1>1
    <2> QED BY <2>1, FlattenParts
<1>3. CASE s = <<>>
    <2>1. n = 0 /\ FlattenSeq(s) = <<>>
        BY <1>3 DEF FlattenSeq, n
    <2>2. FlattenSeq(longer) = x
        BY <1>1, <1>2, <2>1
    <2>3. <<>> \o x = x
        BY ConcatEmptySeq
    <2> QED BY <2>1, <2>2, <2>3 DEF longer
<1>4. CASE s # <<>>
    <2>1. n # 0
        BY <1>4 DEF n
    <2>2. PICK f : /\ f = [i \in 1..n |-> IF i = 1 THEN s[i] ELSE f[i - 1] \o s[i]]
                   /\ FlattenSeq(s) = f[n]
        BY <1>1, <2>1, FlattenParts DEF n
    <2> DEFINE T == {k \in 1..n : f[k] # g[k]}
    <2>3. T = {}
        <3>1. SUFFICES ASSUME T # {}
                       PROVE  FALSE
            OBVIOUS
        <3>2. PICK k \in T : \A m \in T : k <= m
            <4>1. T \in SUBSET Nat
                BY <1>1
            <4> QED BY <3>1, <4>1, LeastOne
        <3>3. CASE k = 1
            <4>1. f[1] = s[1]
                BY <2>2, <3>2, <3>3
            <4>2. g[1] = longer[1] /\ longer[1] = s[1]
                BY <1>1, <1>2, <3>2, <3>3
            <4> QED BY <3>2, <3>3, <4>1, <4>2
        <3>4. CASE k # 1
            <4>1. k - 1 \in 1..n /\ ~(k <= k - 1)
                BY <1>1, <3>2, <3>4
            <4>2. f[k - 1] = g[k - 1]
                BY <3>2, <4>1
            <4>3. f[k] = f[k - 1] \o s[k]
                BY <2>2, <3>2, <3>4
            <4>4. g[k] = g[k - 1] \o longer[k] /\ longer[k] = s[k]
                <5>1. k \in 1..n /\ k \in 1..Len(longer)
                    BY <1>1, <3>2
                <5> QED BY <1>1, <1>2, <3>4, <5>1
            <4> QED BY <3>2, <4>2, <4>3, <4>4
        <3> QED BY <3>3, <3>4
    <2>4. f[n] = g[n]
        <3>1. n \in 1..n
            BY <1>1, <2>1
        <3> QED BY <2>3, <3>1
    <2>5. g[n + 1] = g[n] \o x
        <3>1. n + 1 \in 1..Len(longer) /\ n + 1 # 1 /\ (n + 1) - 1 = n
            BY <1>1, <2>1
        <3> QED BY <1>1, <1>2, <3>1
    <2> QED BY <1>1, <1>2, <2>2, <2>4, <2>5 DEF longer
<1> QED BY <1>3, <1>4

\* What two sequences join, joined.
LEMMA FlattenJoin ==
    ASSUME NEW Y, NEW s \in Seq(Seq(Y)), NEW t \in Seq(Seq(Y))
    PROVE  FlattenSeq(s \o t) = FlattenSeq(s) \o FlattenSeq(t)
<1> DEFINE part(k) == SubSeq(t, 1, k)
           Joins(k) == FlattenSeq(s \o part(k)) = FlattenSeq(s) \o FlattenSeq(part(k))
           T == {k \in 0..Len(t) : ~Joins(k)}
<1>1. \A k \in 0..Len(t) : part(k) \in Seq(Seq(Y))
    OBVIOUS
<1>2. part(0) = <<>> /\ part(Len(t)) = t
    <2>1. part(0) = <<>>
        BY SubSeqEmpty
    <2> QED BY <2>1, SubSeqFull
<1>3. \A k \in 0..Len(t) : k # 0 => k - 1 \in 0..Len(t) /\ part(k) = Append(part(k - 1), t[k])
    <2>1. SUFFICES ASSUME NEW k \in 1..Len(t)
                   PROVE  k - 1 \in 0..Len(t) /\ part(k) = Append(part(k - 1), t[k])
        OBVIOUS
    <2>2. 1 \in 1..Len(t) /\ k \in 1..Len(t) /\ t[k] \in Seq(Y) /\ k - 1 \in 0..Len(t)
        OBVIOUS
    <2>3. part(k) = part(k - 1) \o <<t[k]>>
        BY <2>2, SubSeqRecursiveSecond
    <2>4. Append(part(k - 1), t[k]) = part(k - 1) \o <<t[k]>>
        <3>1. part(k - 1) \in Seq(Seq(Y))
            BY <1>1, <2>2
        <3> HIDE DEF part
        <3> QED BY <2>2, <3>1, AppendIsConcat
    <2> QED BY <2>2, <2>3, <2>4
<1> HIDE DEF part
<1>4. SUFFICES ASSUME T # {}
               PROVE  FALSE
    <2>1. Len(t) \in 0..Len(t)
        OBVIOUS
    <2> QED BY <1>2, <2>1
<1>5. PICK k \in T : \A m \in T : k <= m
    <2>1. T \in SUBSET Nat
        OBVIOUS
    <2> HIDE DEF T
    <2> QED BY <1>4, <2>1, LeastOne
<1>6. k # 0
    <2>1. s \o <<>> = s /\ FlattenSeq(s) \o <<>> = FlattenSeq(s)
        BY ConcatEmptySeq, FlattenTyped
    <2>2. FlattenSeq(<<>>) = <<>>
        BY DEF FlattenSeq
    <2>3. Joins(0)
        BY <1>2, <2>1, <2>2
    <2> QED BY <1>5, <2>3
<1>7. k - 1 \in 0..Len(t) /\ ~(k <= k - 1) /\ k \in 1..Len(t)
    BY <1>3, <1>5, <1>6
<1>8. Joins(k - 1)
    BY <1>5, <1>7
<1> DEFINE p == part(k - 1)
           x == t[k]
<1>9. p \in Seq(Seq(Y)) /\ x \in Seq(Y) /\ part(k) = Append(p, x)
    BY <1>1, <1>3, <1>7
<1> HIDE DEF p, x
<1>10. s \o Append(p, x) = Append(s \o p, x) /\ s \o p \in Seq(Seq(Y))
    <2>1. Append(p, x) = p \o <<x>> /\ <<x>> \in Seq(Seq(Y)) /\ s \o p \in Seq(Seq(Y))
        BY <1>9, AppendIsConcat
    <2>2. Append(s \o p, x) = (s \o p) \o <<x>>
        BY <1>9, <2>1, AppendIsConcat
    <2>3. (s \o p) \o <<x>> = s \o (p \o <<x>>)
        <3> DEFINE one == <<x>>
                   S == Seq(Y)
        <3>1. s \in Seq(S) /\ p \in Seq(S) /\ one \in Seq(S)
            BY <1>9, <2>1
        <3> HIDE DEF one, S
        <3>2. (s \o p) \o one = s \o (p \o one)
            BY <3>1, ConcatAssociative
        <3> QED BY <3>2 DEF one
    <2> QED BY <2>1, <2>2, <2>3
<1>11. FlattenSeq(s \o part(k)) = (FlattenSeq(s) \o FlattenSeq(p)) \o x
    <2>1. FlattenSeq(s \o p) = FlattenSeq(s) \o FlattenSeq(p)
        BY <1>8 DEF p
    <2>2. FlattenSeq(Append(s \o p, x)) = FlattenSeq(s \o p) \o x
        BY <1>9, <1>10, FlattenAppend
    <2> QED BY <1>9, <1>10, <2>1, <2>2
<1>12. FlattenSeq(part(k)) = FlattenSeq(p) \o x
    BY <1>9, FlattenAppend
<1>13. (FlattenSeq(s) \o FlattenSeq(p)) \o x = FlattenSeq(s) \o (FlattenSeq(p) \o x)
    BY <1>9, FlattenTyped, ConcatAssociative
<1>14. Joins(k)
    BY <1>11, <1>12, <1>13
<1> QED BY <1>5, <1>14

\* Parts without anything join to nothing.
LEMMA FlattenNothing ==
    ASSUME NEW s, NEW n \in Nat, s = [i \in 1..n |-> <<>>]
    PROVE  FlattenSeq(s) = <<>>
<1>1. Len(s) = n
    OBVIOUS
<1>2. CASE n = 0
    <2>1. s = <<>>
        BY <1>2
    <2> QED BY <2>1 DEF FlattenSeq
<1>3. CASE n # 0
    <2>1. PICK f : /\ f = [i \in 1..Len(s) |-> IF i = 1 THEN s[i] ELSE f[i - 1] \o s[i]]
                   /\ FlattenSeq(s) = f[Len(s)]
        BY <1>1, <1>3, FlattenParts
    <2> DEFINE T == {k \in 1..n : f[k] # <<>>}
    <2>2. SUFFICES ASSUME T # {}
                   PROVE  FALSE
        <3>1. n \in 1..n
            BY <1>3
        <3> QED BY <1>1, <2>1, <3>1
    <2>3. PICK k \in T : \A m \in T : k <= m
        <3>1. T \in SUBSET Nat
            OBVIOUS
        <3> QED BY <2>2, <3>1, LeastOne
    <2>4. CASE k = 1
        BY <1>1, <2>1, <2>3, <2>4
    <2>5. CASE k # 1
        <3>1. k - 1 \in 1..n /\ ~(k <= k - 1) /\ k \in 1..n
            BY <2>3, <2>5
        <3>2. f[k - 1] = <<>>
            BY <2>3, <3>1
        <3>3. f[k] = f[k - 1] \o <<>>
            BY <1>1, <2>1, <2>5, <3>1
        <3>4. <<>> \o <<>> = <<>>
            <4>1. <<>> \in Seq({})
                OBVIOUS
            <4> QED BY <4>1, ConcatEmptySeq
        <3> QED BY <2>3, <3>2, <3>3, <3>4
    <2> QED BY <2>4, <2>5
<1> QED BY <1>2, <1>3

\* Parts joined one by one.
LEMMA FlattenNext ==
    ASSUME NEW Y, NEW k \in Nat, k # 0, NEW x, \A i \in 1..k : x[i] \in Seq(Y)
    PROVE  /\ FlattenSeq([i \in 1..k |-> x[i]]) = FlattenSeq([i \in 1..(k - 1) |-> x[i]]) \o x[k]
           /\ FlattenSeq([i \in 1..(k - 1) |-> x[i]]) \in Seq(Y)
           /\ FlattenSeq([i \in 1..k |-> x[i]]) \in Seq(Y)
<1> DEFINE S == Seq(Y)
           p == [i \in 1..(k - 1) |-> x[i]]
           q == [i \in 1..k |-> x[i]]
           e == x[k]
<1>1. (\A i \in 1..k : x[i] \in S) /\ e \in S
    OBVIOUS
<1>2. p = [i \in 1..(k - 1) |-> x[i]] /\ q = [i \in 1..k |-> x[i]] /\ e = x[k]
    OBVIOUS
<1> HIDE DEF S, p, q, e
<1>3. p \in [1..(k - 1) -> S] /\ q \in [1..k -> S] /\ k - 1 \in Nat
    BY <1>1, <1>2
<1>4. p \in Seq(S) /\ q \in Seq(S) /\ Len(p) = k - 1 /\ Len(q) = k
    BY <1>3
<1>5. /\ Append(p, e) \in Seq(S) /\ Len(Append(p, e)) = k
      /\ \A i \in 1..(k - 1) : Append(p, e)[i] = p[i]
      /\ Append(p, e)[k] = e
    <2>1. (k - 1) + 1 = k
        OBVIOUS
    <2> QED BY <1>1, <1>4, <2>1, AppendProperties
<1>6. \A i \in 1..Len(q) : q[i] = Append(p, e)[i]
    <2>1. \A i \in 1..k : i \in 1..(k - 1) \/ i = k
        OBVIOUS
    <2> QED BY <1>2, <1>4, <1>5, <2>1
<1>7. q = Append(p, e)
    BY <1>4, <1>5, <1>6, SeqEqual
<1>8. FlattenSeq(Append(p, e)) = FlattenSeq(p) \o e
    BY <1>1, <1>4, FlattenAppend DEF S
<1>9. FlattenSeq(p) \in Seq(Y) /\ FlattenSeq(q) \in Seq(Y)
    BY <1>4, FlattenTyped DEF S
<1> QED BY <1>2, <1>7, <1>8, <1>9

\* What is selected from a sequence is one of the same elements.
LEMMA SelectedTyped ==
    ASSUME NEW A, NEW seq \in Seq(A), NEW S \in SUBSET (DOMAIN seq)
    PROVE  Selected(seq, S) \in Seq(A)
<1> DEFINE n == Len(seq)
           from == {seq[i] : i \in S}
<1>1. n \in Nat /\ DOMAIN seq = 1..n /\ S \in SUBSET (1..n) /\ from \subseteq A
    OBVIOUS
<1> HIDE DEF n
<1>2. Selected(seq, S) \in Seq(from)
    BY <1>1, SelectedElements
<1> QED BY <1>1, <1>2, SeqMonotonic

\* The first and the last of a set of places.
LEMMA Extremes ==
    ASSUME NEW n \in Nat, NEW T \in SUBSET (1..n), T # {}
    PROVE  /\ Min(T) \in T /\ \A i \in T : Min(T) <= i
           /\ Max(T) \in T /\ \A i \in T : i <= Max(T)
<1>1. \E m \in T : \A i \in T : m <= i
    BY LeastOne
<1>2. \E m \in T : \A i \in T : m >= i
    <2> DEFINE U == {n - i : i \in T}
    <2>1. U \in SUBSET Nat /\ U # {}
        <3>1. \A i \in T : n - i \in Nat
            OBVIOUS
        <3> QED BY <3>1
    <2>2. PICK u \in U : \A v \in U : u <= v
        <3> HIDE DEF U
        <3> QED BY <2>1, LeastOne
    <2>3. PICK m \in T : u = n - m
        BY <2>2
    <2>4. ASSUME NEW i \in T
          PROVE  m >= i
        <3>1. n - m <= n - i
            BY <2>2, <2>3
        <3>2. m \in Int /\ i \in Int
            OBVIOUS
        <3> QED BY <3>1, <3>2
    <2> QED BY <2>4
<1>3. Min(T) \in T /\ \A i \in T : Min(T) <= i
    BY <1>1 DEF Min
<1>4. Max(T) \in T /\ \A i \in T : Max(T) >= i
    BY <1>2 DEF Max
<1>5. \A i \in T : i \in Int
    OBVIOUS
<1> QED BY <1>3, <1>4, <1>5
=============================================================================
