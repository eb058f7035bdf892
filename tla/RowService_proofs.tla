---------------------------- MODULE RowService_proofs ----------------------------
(***************************************************************************)
(* What is proved of RowService: its invariants, and that what happened    *)
(* stands, for all batches, replacements and keys.                         *)
(***************************************************************************)
EXTENDS RowService, ListLemmas, Closures

---------------------------------------------------------------------------
(* The inductive invariant.                                                *)

IsRow(x) ==
    \E t, n, kind, state, old, new, k :
        x = [table |-> t, name |-> n, kind |-> kind, state |-> state,
             supersedes |-> old, superseder |-> new, key |-> k]

Shape ==
    /\ IsList(rows) /\ Len(rows) <= MaxRows
    /\ \A r \in DOMAIN rows :
        /\ IsRow(rows[r])
        /\ rows[r].name \in Names /\ rows[r].kind \in Kinds
        /\ rows[r].state \in States
        /\ rows[r].key \in Keys \cup {Unkeyed}

\* Lineage reads the same from both ends, and forward in the order of filing; what is
\* marked superseded has what superseded it.
Lineage ==
    \A r \in DOMAIN rows :
        /\ rows[r].supersedes \in 0..(r - 1)
        /\ rows[r].superseder = 0 \/ rows[r].superseder \in (r + 1)..Len(rows)
        /\ rows[r].superseder # 0 => rows[rows[r].superseder].supersedes = r
        /\ rows[r].supersedes # 0 => rows[rows[r].supersedes].superseder = r
        /\ rows[r].state = "superseded" => rows[r].superseder # 0

Refs ==
    /\ \A l \in links : l.source \in DOMAIN rows /\ l.target \in DOMAIN rows
    /\ spikes \subseteq DOMAIN rows /\ dirs \subseteq spikes

\* A receipt's results of spikes are of rows that have them.
OnFile ==
    /\ DOMAIN ledger \subseteq Keys
    /\ ledger = [k \in DOMAIN ledger |-> ledger[k]]
    /\ \A k \in DOMAIN ledger :
        /\ \E r, v : ledger[k] = [results |-> r, verdicts |-> v]
        /\ \A n \in DOMAIN ledger[k].results :
              ledger[k].results[n].kind = "spike" => ledger[k].results[n].of \in spikes

CallStands ==
    \/ call = NoCall
    \/ \E step \in {"directories", "annotate"}, k \in DOMAIN ledger : \E ops, size :
          call = [step |-> step, key |-> k, ops |-> ops, size |-> size]
    \/ \E of \in SUBSET spikes : call = [step |-> "directory", of |-> of]

Inv ==
    /\ Shape /\ Lineage /\ Indexable(rows) /\ Refs /\ OnFile /\ CallStands
    /\ WrittenOnce /\ FiledRowsContained /\ WorldAssumptionsAttacked

---------------------------------------------------------------------------
(* Sequences of places, and of what is made of them.                       *)

\* A set of numbers in order has each of them, at its rank.
LEMMA InOrderRanks ==
    ASSUME NEW S \in SUBSET Nat, IsFiniteSet(S)
    PROVE  /\ Cardinality(S) \in Nat
           /\ DOMAIN InOrder(S) = 1..Cardinality(S) /\ IsList(InOrder(S))
           /\ \A n \in 1..Cardinality(S) :
                InOrder(S)[n] \in S /\ Rank(S, InOrder(S)[n]) = n
           /\ \A i \in S : Rank(S, i) \in 1..Cardinality(S) /\ InOrder(S)[Rank(S, i)] = i
           /\ Range(InOrder(S)) = S
<1> DEFINE N == Cardinality(S)
           nth(n) == CHOOSE i \in S : Rank(S, i) = n
           s == InOrder(S)
<1>1. N \in Nat
  BY FS_CardinalityType
<1>2. s = [n \in 1..N |-> nth(n)]
  BY Zenon DEF InOrder, Rank
<1> HIDE DEF s, N
<1>3. \A n \in 1..N : s[n] \in S /\ Rank(S, s[n]) = n
  <2> TAKE n \in 1..N
  <2>1. \E i \in S : Rank(S, i) = n
    BY Ranking DEF N
  <2>2. nth(n) \in S /\ Rank(S, nth(n)) = n
    BY <2>1
  <2> QED
    BY <1>2, <2>2
<1>4. \A i \in S : Rank(S, i) \in 1..N /\ s[Rank(S, i)] = i
  <2> TAKE i \in S
  <2>1. Rank(S, i) \in 1..N
    BY Ranking DEF N
  <2>2. s[Rank(S, i)] \in S /\ Rank(S, s[Rank(S, i)]) = Rank(S, i)
    BY <1>3, <2>1
  <2>3. \A p, q \in S : Rank(S, p) = Rank(S, q) => p = q
    BY Ranking
  <2> QED
    BY <2>1, <2>2, <2>3
<1>5. DOMAIN s = 1..N /\ s = [n \in 1..N |-> s[n]]
  BY <1>2
<1>6. IsList(s)
  BY <1>1, <1>5, ListOfLength
<1>7. Range(s) = S
  BY <1>3, <1>4, <1>5 DEF Range
<1> QED
  BY <1>1, <1>3, <1>4, <1>5, <1>6, <1>7 DEF s, N

\* The recursive function that FlattenSeq is made of.
IsFlattening(f, s, N) ==
    f = [i \in 1..N |-> IF i = 1 THEN s[i] ELSE f[i - 1] \o s[i]]

\* Sequences of sequences over a set flatten to a sequence over it.
LEMMA Flattened ==
    ASSUME NEW s, IsList(s), NEW T, \A i \in DOMAIN s : s[i] \in Seq(T)
    PROVE  FlattenSeq(s) \in Seq(T)
<1> DEFINE Good(f, n) == IsFlattening(f, s, n) /\ f \in [1..n -> Seq(T)]
           G == {n \in Nat : n <= Len(s) => \E f : Good(f, n)}
<1>1. Len(s) \in Nat /\ DOMAIN s = 1..Len(s)
  BY ListShape
<1>2. 0 \in G
  <2> DEFINE f == [i \in 1..0 |-> 0]
  <2>1. f \in [1..0 -> Seq(T)]
    OBVIOUS
  <2>2. IsFlattening(f, s, 0)
    BY DEF IsFlattening
  <2> QED
    BY <2>1, <2>2
<1>3. ASSUME NEW n \in Nat, n \in G PROVE n + 1 \in G
  <2> SUFFICES ASSUME n + 1 <= Len(s) PROVE \E f : Good(f, n + 1)
    OBVIOUS
  <2>1. PICK g : Good(g, n)
    BY <1>1, <1>3
  <2> DEFINE f == [i \in 1..(n + 1) |->
                      IF i <= n THEN g[i] ELSE IF i = 1 THEN s[i] ELSE g[n] \o s[i]]
  <2>2. \A i \in 1..n : g[i] = IF i = 1 THEN s[i] ELSE g[i - 1] \o s[i]
    BY <2>1 DEF IsFlattening
  <2>3. \A i \in 1..(n + 1) : f[i] = IF i = 1 THEN s[i] ELSE f[i - 1] \o s[i]
    <3> TAKE i \in 1..(n + 1)
    <3>1. CASE i <= n
      <4>1. i \in 1..n /\ (i # 1 => i - 1 \in 1..(n + 1) /\ i - 1 <= n)
        BY <3>1
      <4> QED
        BY <2>2, <4>1
    <3>2. CASE ~(i <= n)
      <4>1. i = n + 1 /\ (i # 1 => i - 1 = n /\ n \in 1..(n + 1))
        BY <3>2
      <4> QED
        BY <4>1
    <3> QED
      BY <3>1, <3>2
  <2>4. \A i \in 1..(n + 1) : f[i] \in Seq(T)
    <3> TAKE i \in 1..(n + 1)
    <3>1. s[i] \in Seq(T)
      BY <1>1
    <3>2. i <= n => g[i] \in Seq(T)
      BY <2>1
    <3>3. (i > n /\ i # 1) => g[n] \in Seq(T)
      BY <2>1
    <3>4. (i > n /\ i # 1) => g[n] \o s[i] \in Seq(T)
      BY <3>1, <3>3
    <3> QED
      BY <3>1, <3>2, <3>4
  <2>5. f = [i \in 1..(n + 1) |-> f[i]]
    OBVIOUS
  <2> HIDE DEF f
  <2>6. f = [i \in 1..(n + 1) |-> IF i = 1 THEN s[i] ELSE f[i - 1] \o s[i]]
    BY <2>3, <2>5, Zenon
  <2>7. f \in [1..(n + 1) -> Seq(T)]
    BY <2>4, <2>5
  <2> QED
    BY <2>6, <2>7 DEF IsFlattening
<1> HIDE DEF G
<1>4. Nat \subseteq G
  BY <1>2, <1>3, Induction
<1>5. \E f : Good(f, Len(s))
  BY <1>1, <1>4 DEF G
<1> DEFINE flatten == CHOOSE f : IsFlattening(f, s, Len(s))
<1>6. CASE Len(s) = 0
  <2>1. FlattenSeq(s) = s
    BY <1>6 DEF FlattenSeq
  <2>2. s = <<>>
    BY <1>6 DEF IsList
  <2> QED
    BY <2>1, <2>2
<1>7. CASE Len(s) # 0
  <2>1. FlattenSeq(s) = flatten[Len(s)]
    BY <1>7, Zenon DEF FlattenSeq, IsFlattening
  <2>2. IsFlattening(flatten, s, Len(s))
    BY <1>5, Zenon
  <2> HIDE DEF flatten
  <2>3. PICK g : Good(g, Len(s))
    BY <1>5
  <2>4. \A i \in 1..Len(s) : g[i] = IF i = 1 THEN s[i] ELSE g[i - 1] \o s[i]
    BY <2>3 DEF IsFlattening
  <2>5. \A i \in 1..Len(s) : flatten[i] = IF i = 1 THEN s[i] ELSE flatten[i - 1] \o s[i]
    BY <2>2 DEF IsFlattening
  <2> DEFINE H == {n \in Nat : n \in 1..Len(s) => flatten[n] = g[n]}
  <2>6. 0 \in H
    OBVIOUS
  <2>7. ASSUME NEW n \in Nat, n \in H PROVE n + 1 \in H
    <3> SUFFICES ASSUME n + 1 \in 1..Len(s) PROVE flatten[n + 1] = g[n + 1]
      OBVIOUS
    <3>1. CASE n = 0
      BY <2>4, <2>5, <3>1
    <3>2. CASE n # 0
      <4>1. n \in 1..Len(s) /\ n + 1 # 1 /\ (n + 1) - 1 = n
        BY <1>1, <3>2
      <4>2. flatten[n] = g[n]
        BY <2>7, <4>1
      <4> QED
        BY <2>4, <2>5, <4>1, <4>2
    <3> QED
      BY <3>1, <3>2
  <2> HIDE DEF H
  <2>8. Nat \subseteq H
    BY <2>6, <2>7, Induction
  <2>9. Len(s) \in 1..Len(s)
    BY <1>1, <1>7
  <2>10. flatten[Len(s)] = g[Len(s)]
    BY <1>1, <2>8, <2>9 DEF H
  <2> QED
    BY <2>1, <2>3, <2>9, <2>10
<1> QED
  BY <1>6, <1>7

---------------------------------------------------------------------------
(* What a batch files.                                                     *)

Kept(b) == DOMAIN b \ Rejected(b)

\* What is rejected has the problems, and with a row those that name it their sibling.
LEMMA RejectedIsClosed ==
    ASSUME NEW b
    PROVE  /\ Problems(b) \subseteq Rejected(b)
           /\ \A i \in DOMAIN b : \A l \in b[i].links :
                (l.to[1] = "sibling" /\ l.to[2] \in Rejected(b)) => i \in Rejected(b)
<1> DEFINE closed(S) == \A i \in DOMAIN b : \A l \in b[i].links :
                           (l.to[1] = "sibling" /\ l.to[2] \in S) => i \in S
           bound(S) == Problems(b) \subseteq S /\ closed(S)
<1>1. Rejected(b) = {i \in DOMAIN b : \A S \in SUBSET DOMAIN b : bound(S) => i \in S}
  BY Zenon DEF Rejected
<1>2. Problems(b) \subseteq DOMAIN b
  BY DEF Problems
<1>3. Problems(b) \subseteq Rejected(b)
  BY <1>1, <1>2
<1>4. ASSUME NEW i \in DOMAIN b, NEW l \in b[i].links,
             l.to[1] = "sibling", l.to[2] \in Rejected(b)
      PROVE  i \in Rejected(b)
  <2>1. ASSUME NEW S \in SUBSET DOMAIN b, bound(S) PROVE i \in S
    <3>1. l.to[2] \in S
      <4> HIDE DEF bound
      <4> QED
        BY <1>1, <1>4, <2>1
    <3> QED
      BY <1>4, <2>1, <3>1
  <2> HIDE DEF bound
  <2> QED
    BY <1>1, <2>1
<1> QED
  BY <1>3, <1>4

\* What is filed has no problem, and has only siblings that are filed.
LEMMA KeptIsSound ==
    ASSUME NEW b \in Batches, NEW i \in Kept(b)
    PROVE  /\ i \in DOMAIN b /\ Submission(b[i])
           /\ ~Orphan(b, i) /\ ~SpikeProblem(b[i])
           /\ \A l \in b[i].links :
                \/ l.to[1] = "row" /\ l.to[2] \in DOMAIN rows
                \/ l.to[1] = "sibling" /\ l.to[2] \in Kept(b)
<1>1. i \in DOMAIN b /\ i \notin Rejected(b) /\ Submission(b[i])
  BY BatchesAreOfSubmissions DEF Kept
<1>2. i \notin Problems(b)
  BY <1>1, RejectedIsClosed
<1>3. ~Malformed(b, i) /\ ~Orphan(b, i) /\ ~SpikeProblem(b[i])
  BY <1>1, <1>2 DEF Problems
<1>4. ASSUME NEW l \in b[i].links
      PROVE  \/ l.to[1] = "row" /\ l.to[2] \in DOMAIN rows
             \/ l.to[1] = "sibling" /\ l.to[2] \in Kept(b)
  <2>1. Reaches(b, i, l.to)
    BY <1>3, <1>4 DEF Malformed
  <2>2. l.to[1] \in {"row", "sibling"}
    BY <1>1, <1>4 DEF Submission
  <2>3. CASE l.to[1] = "row"
    BY <2>1, <2>3 DEF Reaches
  <2>4. CASE l.to[1] = "sibling"
    <3>1. l.to[2] \in DOMAIN b
      BY <2>1, <2>4 DEF Reaches
    <3>2. l.to[2] \notin Rejected(b)
      BY <1>1, <1>4, <2>4, RejectedIsClosed
    <3> QED
      BY <2>4, <3>1, <3>2 DEF Kept
  <2> QED
    BY <2>2, <2>3, <2>4
<1> QED
  BY <1>1, <1>3, <1>4

\* The rows of a batch follow those there are, in the order of their places.
LEMMA Filing ==
    ASSUME NEW b \in Batches, Len(rows) \in Nat
    PROVE  /\ Len(Filed(b)) \in Nat /\ DOMAIN Filed(b) = 1..Len(Filed(b))
           /\ IsList(Filed(b)) /\ Range(Filed(b)) = Kept(b)
           /\ \A n \in DOMAIN Filed(b) :
                Filed(b)[n] \in Kept(b) /\ Assigned(b, Filed(b)[n]) = Len(rows) + n
           /\ \A i \in Kept(b) : \E n \in DOMAIN Filed(b) :
                Filed(b)[n] = i /\ Assigned(b, i) = Len(rows) + n
<1> DEFINE K == Kept(b)
           s == InOrder(K)
<1>1. K \in SUBSET Nat /\ IsFiniteSet(K)
  <2>1. b \in Seq(Range(b))
    BY BatchesAreOfSubmissions
  <2>2. Len(b) \in Nat /\ DOMAIN b = 1..Len(b)
    BY <2>1
  <2>3. K \subseteq 1..Len(b)
    BY <2>2 DEF Kept
  <2>4. IsFiniteSet(1..Len(b))
    BY <2>2, FS_Interval
  <2> QED
    BY <2>3, <2>4, FS_Subset
<1>2. s = Filed(b)
  BY DEF Filed, Kept
<1> HIDE DEF K, s
<1>3. /\ Cardinality(K) \in Nat /\ DOMAIN s = 1..Cardinality(K) /\ IsList(s)
      /\ \A n \in 1..Cardinality(K) : s[n] \in K /\ Rank(K, s[n]) = n
      /\ \A i \in K : Rank(K, i) \in 1..Cardinality(K) /\ s[Rank(K, i)] = i
      /\ Range(s) = K
  BY <1>1, InOrderRanks DEF s
<1>4. Len(s) = Cardinality(K)
  BY <1>3, ListShape
<1>5. \A i : Assigned(b, i) = Len(rows) + Rank(K, i)
  BY <1>2, <1>3 DEF Assigned, Rank
<1> QED
  BY <1>2, <1>3, <1>4, <1>5 DEF K

\* The entries of a batch: its rows first, and of spikes those of rows that are filed.
LEMMA OpsShape ==
    ASSUME NEW b \in Batches, Len(rows) \in Nat
    PROVE  /\ IsList(Ops(b)) /\ DOMAIN Filed(b) \subseteq DOMAIN Ops(b)
           /\ \A n \in DOMAIN Filed(b) : Ops(b)[n] = <<"row", Filed(b)[n]>>
           /\ \A n \in DOMAIN Ops(b) \ DOMAIN Filed(b) : Ops(b)[n][1] # "row"
           /\ \A n \in DOMAIN Ops(b) : Ops(b)[n][1] = "spike" =>
                Ops(b)[n][2] \in Kept(b) /\ b[Ops(b)[n][2]].spike
<1> DEFINE filed == Filed(b)
           linksAt(i) == [n \in 1..Cardinality(b[i].links) |-> <<"link", i>>]
           S == {i \in Range(filed) : b[i].spike}
           spiked == InOrder(S)
           first == [n \in DOMAIN filed |-> <<"row", filed[n]>>]
           listed == [n \in DOMAIN filed |-> linksAt(filed[n])]
           last == [n \in DOMAIN spiked |-> <<"spike", spiked[n]>>]
           L == {<<"link", i>> : i \in Kept(b)}
<1>1. Ops(b) = first \o FlattenSeq(listed) \o last
  BY Zenon DEF Ops
<1>2. /\ Len(filed) \in Nat /\ DOMAIN filed = 1..Len(filed)
      /\ \A n \in DOMAIN filed : filed[n] \in Kept(b)
      /\ Range(filed) = Kept(b)
  BY Filing
<1> HIDE DEF filed
<1>3. /\ first \in Seq({<<"row", i>> : i \in Kept(b)}) /\ Len(first) = Len(filed)
      /\ \A n \in DOMAIN filed : first[n] = <<"row", filed[n]>>
  <2>1. first \in [1..Len(filed) -> {<<"row", i>> : i \in Kept(b)}]
    BY <1>2
  <2> HIDE DEF first
  <2>2. first \in Seq({<<"row", i>> : i \in Kept(b)}) /\ Len(first) = Len(filed)
    BY <1>2, <2>1
  <2> QED
    BY <1>2, <2>2 DEF first
<1>4. FlattenSeq(listed) \in Seq(L)
  <2>1. ASSUME NEW n \in DOMAIN filed PROVE linksAt(filed[n]) \in Seq(L)
    <3>1. b[filed[n]].links = b[filed[n]].links /\ IsFiniteSet(b[filed[n]].links)
      BY <1>2, <2>1, KeptIsSound DEF Submission
    <3>2. Cardinality(b[filed[n]].links) \in Nat
      BY <3>1, FS_CardinalityType
    <3>3. linksAt(filed[n]) \in [1..Cardinality(b[filed[n]].links) -> L]
      BY <1>2, <2>1
    <3> HIDE DEF linksAt
    <3> QED
      BY <3>2, <3>3
  <2> HIDE DEF linksAt, L
  <2>2. listed = [n \in 1..Len(filed) |-> listed[n]] /\ DOMAIN listed = 1..Len(filed)
    BY <1>2
  <2>3. \A n \in DOMAIN listed : listed[n] \in Seq(L)
    BY <2>1
  <2> HIDE DEF listed
  <2>4. IsList(listed)
    BY <1>2, <2>2, ListOfLength
  <2> QED
    BY <2>3, <2>4, Flattened
<1>5. last \in Seq({<<"spike", i>> : i \in S})
  <2>1. S \in SUBSET Nat /\ IsFiniteSet(S)
    <3>1. b \in Seq(Range(b))
      BY BatchesAreOfSubmissions
    <3>2. Len(b) \in Nat /\ DOMAIN b = 1..Len(b)
      BY <3>1
    <3>3. S \subseteq 1..Len(b)
      BY <1>2, <3>2 DEF Kept
    <3>4. IsFiniteSet(1..Len(b))
      BY <3>2, FS_Interval
    <3> HIDE DEF S
    <3>5. S \subseteq Nat
      BY <3>2, <3>3
    <3> QED
      BY <3>3, <3>4, <3>5, FS_Subset
  <2> HIDE DEF S
  <2>2. /\ Cardinality(S) \in Nat /\ DOMAIN spiked = 1..Cardinality(S)
        /\ \A n \in 1..Cardinality(S) : spiked[n] \in S
    BY <2>1, InOrderRanks
  <2> HIDE DEF spiked
  <2>3. last \in [1..Cardinality(S) -> {<<"spike", i>> : i \in S}]
    BY <2>2
  <2> HIDE DEF last
  <2> QED
    BY <2>2, <2>3
<1> DEFINE middle == FlattenSeq(listed)
           R == {<<"row", i>> : i \in Kept(b)}
           P == {<<"spike", i>> : i \in S}
           U == R \cup L \cup P
<1>6. /\ \A e \in R : e[1] = "row"
      /\ \A e \in L : e[1] = "link"
      /\ \A e \in P : e[1] = "spike" /\ e[2] \in Kept(b) /\ b[e[2]].spike
  BY <1>2
<1>7. first \in Seq(R) /\ middle \in Seq(L) /\ last \in Seq(P)
  BY <1>3, <1>4, <1>5
<1>8. Ops(b) = (first \o middle) \o last
  BY <1>1
<1> HIDE DEF first, middle, last, R, L, P, S
<1>9. first \in Seq(U) /\ middle \in Seq(U) /\ last \in Seq(U)
  <2>1. R \subseteq U /\ L \subseteq U /\ P \subseteq U
    OBVIOUS
  <2> HIDE DEF U
  <2> QED
    BY <1>7, <2>1
<1>10. /\ \A n \in 1..Len(first) : first[n][1] = "row"
       /\ \A n \in 1..Len(middle) : middle[n][1] = "link"
       /\ \A n \in 1..Len(last) :
            last[n][1] = "spike" /\ last[n][2] \in Kept(b) /\ b[last[n][2]].spike
  BY <1>6, <1>7
<1> HIDE DEF U
<1>11. PICK A, B, C : A = Len(first) /\ B = Len(middle) /\ C = Len(last)
  OBVIOUS
<1>12. /\ A \in Nat /\ B \in Nat /\ C \in Nat
       /\ Ops(b) \in Seq(U) /\ Len(Ops(b)) = A + B + C
       /\ \A n \in 1..(A + B + C) :
            Ops(b)[n] = IF n <= A THEN first[n]
                        ELSE IF n <= A + B THEN middle[n - A] ELSE last[n - A - B]
  BY <1>8, <1>9, <1>11
<1>13. \A n \in 1..(A + B + C) :
          \/ n <= A /\ n \in 1..A /\ Ops(b)[n] = first[n]
          \/ n > A /\ n - A \in 1..B /\ Ops(b)[n] = middle[n - A]
          \/ n > A /\ n - A - B \in 1..C /\ Ops(b)[n] = last[n - A - B]
  BY <1>12
<1>14. DOMAIN Ops(b) = 1..(A + B + C) /\ A = Len(filed) /\ IsList(Ops(b))
  BY <1>3, <1>11, <1>12 DEF IsList
<1>15. \A n \in DOMAIN filed : Ops(b)[n] = <<"row", filed[n]>> /\ n \in DOMAIN Ops(b)
  <2> TAKE n \in DOMAIN filed
  <2>1. n \in 1..(A + B + C) /\ n <= A
    BY <1>2, <1>12, <1>14
  <2>2. Ops(b)[n] = first[n] /\ first[n] = <<"row", filed[n]>>
    BY <1>3, <1>12, <2>1
  <2> QED
    BY <1>14, <2>1, <2>2
<1>16. \A n \in DOMAIN Ops(b) \ DOMAIN filed : Ops(b)[n][1] # "row"
  BY <1>2, <1>10, <1>11, <1>13, <1>14
<1>17. \A n \in DOMAIN Ops(b) : Ops(b)[n][1] = "spike" =>
                Ops(b)[n][2] \in Kept(b) /\ b[Ops(b)[n][2]].spike
  BY <1>10, <1>11, <1>13, <1>14
<1> QED
  BY <1>14, <1>15, <1>16, <1>17 DEF filed

---------------------------------------------------------------------------
(* Every step preserves the invariant.                                     *)

LEMMA InitInv == Init => Inv
<1> SUFFICES ASSUME Init PROVE Inv
  OBVIOUS
<1>1. /\ rows = <<>> /\ links = {} /\ spikes = {} /\ dirs = {} /\ call = NoCall
      /\ ledger = [k \in {} |-> 0]
  BY DEF Init
<1>2. DOMAIN rows = {} /\ Len(rows) = 0 /\ IsList(rows)
  BY <1>1 DEF IsList
<1>3. DOMAIN ledger = {} /\ ledger = [k \in DOMAIN ledger |-> ledger[k]]
  BY <1>1
<1>4. Shape /\ Lineage /\ Indexable(rows) /\ Refs
  BY <1>1, <1>2, RowsAreBounded DEF Shape, Lineage, Indexable, Refs
<1>5. OnFile /\ CallStands
  BY <1>1, <1>3 DEF OnFile, CallStands
<1>6. WrittenOnce /\ FiledRowsContained /\ WorldAssumptionsAttacked
  BY <1>2, <1>3 DEF WrittenOnce, FiledRowsContained, WorldAssumptionsAttacked
<1> QED
  BY <1>4, <1>5, <1>6 DEF Inv

\* Rows that keep their table and their key, while only rows of no key are added.
LEMMA ContainedStands ==
    ASSUME FiledRowsContained, Refs, links' = links,
           DOMAIN rows \subseteq DOMAIN rows',
           \A s \in DOMAIN rows : rows'[s].table = rows[s].table /\ rows'[s].key = rows[s].key,
           \A s \in DOMAIN rows' \ DOMAIN rows : rows'[s].key = Unkeyed
    PROVE  FiledRowsContained'
<1> SUFFICES ASSUME NEW r \in DOMAIN rows', rows'[r].key # Unkeyed,
                    rows'[r].table \in DOMAIN ParentOf
             PROVE  \E owner \in {l.target : l \in {m \in links' :
                                m.source = r /\ m.type = "belongs_to"}} :
                      /\ rows'[owner].table = ParentOf[rows'[r].table]
                      /\ \A l \in links' : (l.source = r /\ l.type = "belongs_to")
                                               => l.target = owner
  BY DEF FiledRowsContained
<1>1. r \in DOMAIN rows /\ rows'[r].table = rows[r].table /\ rows[r].key # Unkeyed
  OBVIOUS
<1>2. PICK owner \in {l.target : l \in {m \in links :
                                m.source = r /\ m.type = "belongs_to"}} :
         /\ rows[owner].table = ParentOf[rows[r].table]
         /\ \A l \in links : (l.source = r /\ l.type = "belongs_to") => l.target = owner
  BY <1>1 DEF FiledRowsContained
<1>3. owner \in DOMAIN rows
  BY <1>2 DEF Refs
<1> QED
  BY <1>1, <1>2, <1>3

\* A row is given a name, a kind and a state that is not one of an assumption.
SetTo(r, y) ==
    /\ IsRow(y) /\ y.table = rows[r].table /\ y.key = rows[r].key
    /\ y.supersedes = rows[r].supersedes /\ y.superseder = rows[r].superseder
    /\ y.name \in Names /\ y.kind \in Kinds /\ y.state \in {"active", "retired"}
    /\ rows' = [rows EXCEPT ![r] = y]
    /\ UNCHANGED <<links, spikes, dirs, ledger, call>>

LEMMA RowSet ==
    ASSUME Inv, NEW r \in DOMAIN rows, NEW y, SetTo(r, y), Indexable(rows')
    PROVE  Inv'
<1> USE DEF SetTo
<1>1. /\ IsList(rows) /\ Len(rows) <= MaxRows
      /\ Len(rows) \in Nat /\ DOMAIN rows = 1..Len(rows)
  BY ListShape DEF Inv, Shape
<1>2. /\ IsList(rows') /\ Len(rows') = Len(rows) /\ DOMAIN rows' = DOMAIN rows
      /\ \A s \in DOMAIN rows : rows'[s] = IF s = r THEN y ELSE rows[s]
  BY <1>1, ListUpdate
<1>3. \A s \in DOMAIN rows :
        /\ rows'[s].table = rows[s].table /\ rows'[s].key = rows[s].key
        /\ rows'[s].supersedes = rows[s].supersedes
        /\ rows'[s].superseder = rows[s].superseder
  BY <1>2
<1>4. Shape'
  BY <1>1, <1>2 DEF Inv, Shape, States
<1>5. Lineage'
  <2>1. ASSUME NEW s \in DOMAIN rows
        PROVE  /\ rows'[s].supersedes \in 0..(s - 1)
               /\ rows'[s].superseder = 0 \/ rows'[s].superseder \in (s + 1)..Len(rows')
               /\ rows'[s].superseder # 0 => rows'[rows'[s].superseder].supersedes = s
               /\ rows'[s].supersedes # 0 => rows'[rows'[s].supersedes].superseder = s
               /\ rows'[s].state = "superseded" => rows'[s].superseder # 0
    <3>1. /\ rows[s].supersedes \in 0..(s - 1)
          /\ rows[s].superseder = 0 \/ rows[s].superseder \in (s + 1)..Len(rows)
          /\ rows[s].superseder # 0 => rows[rows[s].superseder].supersedes = s
          /\ rows[s].supersedes # 0 => rows[rows[s].supersedes].superseder = s
          /\ rows[s].state = "superseded" => rows[s].superseder # 0
      BY DEF Inv, Lineage
    <3>2. /\ rows[s].superseder # 0 => rows[s].superseder \in DOMAIN rows
          /\ rows[s].supersedes # 0 => rows[s].supersedes \in DOMAIN rows
      BY <1>1, <3>1
    <3>3. rows'[s].state = "superseded" => rows[s].state = "superseded"
      BY <1>2
    <3> QED
      BY <1>2, <1>3, <3>1, <3>2, <3>3
  <2> QED
    BY <1>2, <2>1 DEF Lineage
<1>6. Refs' /\ OnFile' /\ CallStands'
  BY <1>2 DEF Inv, Refs, OnFile, CallStands
<1>7. WrittenOnce'
  <2>1. \A k \in Keys : {s \in DOMAIN rows' : rows'[s].key = k}
                            = {s \in DOMAIN rows : rows[s].key = k}
    BY <1>2, <1>3
  <2> QED
    BY <2>1 DEF Inv, WrittenOnce
<1>8. FiledRowsContained'
  BY <1>2, <1>3, ContainedStands DEF Inv
<1>9. WorldAssumptionsAttacked'
  BY <1>2 DEF Inv, WorldAssumptionsAttacked
<1> QED
  BY <1>4, <1>5, <1>6, <1>7, <1>8, <1>9 DEF Inv

LEMMA Retired ==
    ASSUME Inv, NEW r \in DOMAIN rows, RetireRow(r)
    PROVE  \E y : /\ SetTo(r, y) /\ y.state = "retired"
                  /\ y.name = rows[r].name /\ y.kind = rows[r].kind
<1>1. IsRow(rows[r])
  BY DEF Inv, Shape
<1>2. PICK t, n, kind, state, old, new, k :
         rows[r] = [table |-> t, name |-> n, kind |-> kind, state |-> state,
                    supersedes |-> old, superseder |-> new, key |-> k]
  BY <1>1 DEF IsRow
<1> DEFINE y == [table |-> t, name |-> n, kind |-> kind, state |-> "retired",
                 supersedes |-> old, superseder |-> new, key |-> k]
<1>3. rows' = [rows EXCEPT ![r] = y] /\ UNCHANGED <<links, spikes, dirs, ledger, call>>
  <2>1. /\ rows' = [rows EXCEPT ![r].state = "retired"]
        /\ UNCHANGED <<links, spikes, dirs, ledger, call>>
    BY DEF RetireRow
  <2>2. [rows[r] EXCEPT !.state = "retired"] = y
    BY <1>2
  <2>3. rows' = [rows EXCEPT ![r] = [rows[r] EXCEPT !.state = "retired"]]
    BY <2>1
  <2> QED
    BY <2>1, <2>2, <2>3
<1>4. IsRow(y)
  BY DEF IsRow
<1>5. rows[r].name \in Names /\ rows[r].kind \in Kinds
  BY DEF Inv, Shape
<1>6. /\ y.table = rows[r].table /\ y.key = rows[r].key
      /\ y.supersedes = rows[r].supersedes /\ y.superseder = rows[r].superseder
      /\ y.state = "retired" /\ y.name = rows[r].name /\ y.kind = rows[r].kind
  BY <1>2
<1> HIDE DEF y
<1> QED
  BY <1>3, <1>4, <1>5, <1>6 DEF SetTo

LEMMA RetireInv ==
    ASSUME Inv, NEW r \in DOMAIN rows, RetireRow(r)
    PROVE  Inv'
<1>1. PICK y : SetTo(r, y) /\ y.state = "retired"
  BY Retired
<1>2. /\ DOMAIN rows' = DOMAIN rows
      /\ \A s \in DOMAIN rows : rows'[s] = IF s = r THEN y ELSE rows[s]
  BY <1>1, ListUpdate DEF SetTo, Inv, Shape
<1>3. ~Indexed(y)
  BY <1>1 DEF Indexed
<1>4. \A s \in DOMAIN rows' : Indexed(rows'[s]) => rows'[s] = rows[s]
  BY <1>2, <1>3
<1>5. Indexable(rows')
  BY <1>2, <1>4 DEF Inv, Indexable
<1> QED
  BY <1>1, <1>5, RowSet

LEMMA Resolved ==
    ASSUME Inv, NEW r \in DOMAIN rows, NEW resolution, NEW name \in Names,
           ResolveAssumption(r, resolution, name)
    PROVE  \E y : SetTo(r, y)
<1>1. IsRow(rows[r])
  BY DEF Inv, Shape
<1>2. PICK t, n, kind, state, old, new, k :
         rows[r] = [table |-> t, name |-> n, kind |-> kind, state |-> state,
                    supersedes |-> old, superseder |-> new, key |-> k]
  BY <1>1 DEF IsRow
<1>3. PICK st \in {"active", "retired"} :
         st = IF resolution = "reject" THEN "retired" ELSE "active"
  OBVIOUS
<1> DEFINE y == [table |-> t, name |-> name, kind |-> "decided", state |-> st,
                 supersedes |-> old, superseder |-> new, key |-> k]
<1> DEFINE v == [rows[r] EXCEPT !.name = name, !.kind = "decided", !.state = st]
<1>4. /\ rows' = [rows EXCEPT ![r] = v]
      /\ Indexable(rows') /\ UNCHANGED <<links, spikes, dirs, ledger, call>>
  BY <1>3 DEF ResolveAssumption
<1>5. rows' = [rows EXCEPT ![r] = y]
  <2> DEFINE v1 == [table |-> t, name |-> name, kind |-> kind, state |-> state,
                    supersedes |-> old, superseder |-> new, key |-> k]
             v2 == [table |-> t, name |-> name, kind |-> "decided", state |-> state,
                    supersedes |-> old, superseder |-> new, key |-> k]
  <2>1. [rows[r] EXCEPT !.name = name] = v1
    BY <1>2
  <2>2. [v1 EXCEPT !.kind = "decided"] = v2
    OBVIOUS
  <2>3. [v2 EXCEPT !.state = st] = y
    OBVIOUS
  <2> HIDE DEF v1, v2, y
  <2>4. v = [[[rows[r] EXCEPT !.name = name] EXCEPT !.kind = "decided"] EXCEPT !.state = st]
    OBVIOUS
  <2>5. v = y
    BY <2>1, <2>2, <2>3, <2>4
  <2> QED
    BY <1>4, <2>5
<1>6. IsRow(y)
  BY DEF IsRow
<1>7. y.name \in Names /\ y.kind \in Kinds
  BY DEF Kinds
<1>8. /\ y.table = rows[r].table /\ y.key = rows[r].key
      /\ y.supersedes = rows[r].supersedes /\ y.superseder = rows[r].superseder
      /\ y.state \in {"active", "retired"}
  BY <1>2
<1> HIDE DEF y
<1> QED
  BY <1>4, <1>5, <1>6, <1>7, <1>8 DEF SetTo

LEMMA ResolveInv ==
    ASSUME Inv, NEW r \in DOMAIN rows, NEW resolution, NEW name \in Names,
           ResolveAssumption(r, resolution, name)
    PROVE  Inv'
<1>1. PICK y : SetTo(r, y)
  BY Resolved
<1>2. Indexable(rows')
  BY DEF ResolveAssumption
<1> QED
  BY <1>1, <1>2, RowSet

\* A row and what supersedes it.
LEMMA Superseded ==
    ASSUME Inv, NEW r \in DOMAIN rows, NEW sub \in Replacements, SupersedeRow(r, sub)
    PROVE  /\ Len(rows) \in Nat /\ DOMAIN rows = 1..Len(rows)
           /\ IsList(rows') /\ Len(rows') = Len(rows) + 1
           /\ DOMAIN rows' = DOMAIN rows \cup {Len(rows')} /\ Len(rows') \notin DOMAIN rows
           /\ rows[r].superseder = 0
           /\ \A s \in DOMAIN rows : s # r => rows'[s] = rows[s]
           /\ \E y : /\ rows'[r] = y
                     /\ IsRow(y) /\ y.table = rows[r].table /\ y.key = rows[r].key
                     /\ y.name = rows[r].name /\ y.kind = rows[r].kind
                     /\ y.state = "superseded"
                     /\ y.supersedes = rows[r].supersedes /\ y.superseder = Len(rows')
           /\ \E x : /\ rows'[Len(rows')] = x
                     /\ IsRow(x) /\ x.key = Unkeyed /\ x.name = sub.name /\ x.kind = sub.kind
                     /\ x.state = InitialState(sub.kind)
                     /\ x.supersedes = r /\ x.superseder = 0
<1>1. /\ IsList(rows) /\ Len(rows) <= MaxRows /\ IsRow(rows[r])
      /\ Len(rows) \in Nat /\ DOMAIN rows = 1..Len(rows)
  BY ListShape DEF Inv, Shape
<1>2. PICK t, n, kind, state, old, k :
         rows[r] = [table |-> t, name |-> n, kind |-> kind, state |-> state,
                    supersedes |-> old, superseder |-> 0, key |-> k]
  BY <1>1 DEF IsRow, SupersedeRow, Supersedable
<1> DEFINE N == Len(rows) + 1
           v == [rows[r] EXCEPT !.state = "superseded", !.superseder = N]
           y == [table |-> t, name |-> n, kind |-> kind, state |-> "superseded",
                 supersedes |-> old, superseder |-> N, key |-> k]
           mid == [rows EXCEPT ![r] = y]
           x == NewRow(sub, r, Unkeyed)
<1>3. /\ rows' = Append([rows EXCEPT ![r] = v], x)
      /\ Len(rows) < MaxRows /\ Indexable(rows') /\ ~SpikeProblem(sub)
      /\ spikes' = spikes \cup {m \in {Len(rows')} : sub.spike}
      /\ call' = [step |-> "directory", of |-> {m \in {Len(rows')} : sub.spike}]
      /\ UNCHANGED <<links, dirs, ledger>>
  BY DEF SupersedeRow, Superseding, Supersedable
<1>4. v = y
  <2> DEFINE v1 == [table |-> t, name |-> n, kind |-> kind, state |-> "superseded",
                    supersedes |-> old, superseder |-> 0, key |-> k]
  <2>1. [rows[r] EXCEPT !.state = "superseded"] = v1
    BY <1>2
  <2>2. [v1 EXCEPT !.superseder = N] = y
    OBVIOUS
  <2> HIDE DEF v1, y, N
  <2>3. v = [[rows[r] EXCEPT !.state = "superseded"] EXCEPT !.superseder = N]
    OBVIOUS
  <2> QED
    BY <2>1, <2>2, <2>3
<1>5. /\ IsRow(y) /\ y.table = rows[r].table /\ y.key = rows[r].key
      /\ y.name = rows[r].name /\ y.kind = rows[r].kind /\ y.state = "superseded"
      /\ y.supersedes = rows[r].supersedes /\ y.superseder = N
  <2>1. IsRow(y)
    BY DEF IsRow
  <2> QED
    BY <1>2, <2>1
<1>6. /\ IsRow(x) /\ x.key = Unkeyed /\ x.name = sub.name /\ x.kind = sub.kind
      /\ x.state = InitialState(sub.kind) /\ x.supersedes = r /\ x.superseder = 0
  <2>1. x = [table |-> sub.table, name |-> sub.name, kind |-> sub.kind,
             state |-> InitialState(sub.kind), supersedes |-> r, superseder |-> 0,
             key |-> Unkeyed]
    BY DEF NewRow
  <2> HIDE DEF x
  <2>2. IsRow(x)
    BY <2>1 DEF IsRow
  <2> QED
    BY <2>1, <2>2
<1> HIDE DEF v, x, y
<1>7. /\ IsList(mid) /\ Len(mid) = Len(rows) /\ DOMAIN mid = DOMAIN rows
      /\ \A s \in DOMAIN rows : mid[s] = IF s = r THEN y ELSE rows[s]
  <2>1. IsList(rows) /\ r \in DOMAIN rows
    BY <1>1
  <2> QED
    BY ONLY <2>1, ListUpdate
<1>8. rows' = Append(mid, x)
  BY <1>3, <1>4
<1> HIDE DEF mid
<1>9. /\ IsList(rows') /\ Len(rows') = N /\ DOMAIN rows' = DOMAIN rows \cup {N}
      /\ \A s \in DOMAIN rows : rows'[s] = IF s = r THEN y ELSE rows[s]
      /\ rows'[N] = x /\ N \notin DOMAIN rows
  BY <1>1, <1>7, <1>8, ListAppend
<1>10. rows[r].superseder = 0
  BY <1>2
<1> QED
  BY <1>1, <1>5, <1>6, <1>9, <1>10

LEMMA SupersedeInv ==
    ASSUME Inv, NEW r \in DOMAIN rows, NEW sub \in Replacements, SupersedeRow(r, sub)
    PROVE  Inv'
<1> DEFINE N == Len(rows) + 1
<1>1. /\ Len(rows) \in Nat /\ DOMAIN rows = 1..Len(rows)
      /\ IsList(rows') /\ Len(rows') = N
      /\ DOMAIN rows' = DOMAIN rows \cup {N} /\ N \notin DOMAIN rows
      /\ \A s \in DOMAIN rows : s # r => rows'[s] = rows[s]
  BY Superseded
<1>2. rows[r].superseder = 0
  BY Superseded
<1>3. /\ Len(rows) < MaxRows /\ Indexable(rows') /\ ~SpikeProblem(sub)
      /\ spikes' = spikes \cup {m \in {Len(rows')} : sub.spike}
      /\ call' = [step |-> "directory", of |-> {m \in {Len(rows')} : sub.spike}]
      /\ UNCHANGED <<links, dirs, ledger>>
  BY DEF SupersedeRow, Supersedable
<1>5. PICK y : /\ rows'[r] = y
               /\ IsRow(y) /\ y.table = rows[r].table /\ y.key = rows[r].key
               /\ y.name = rows[r].name /\ y.kind = rows[r].kind /\ y.state = "superseded"
               /\ y.supersedes = rows[r].supersedes /\ y.superseder = N
  BY <1>1, Superseded
<1>6. PICK x : /\ rows'[N] = x
               /\ IsRow(x) /\ x.key = Unkeyed /\ x.name = sub.name /\ x.kind = sub.kind
               /\ x.state = InitialState(sub.kind) /\ x.supersedes = r /\ x.superseder = 0
  BY <1>1, Superseded
<1>9. /\ \A s \in DOMAIN rows : rows'[s] = IF s = r THEN y ELSE rows[s]
      /\ IsList(rows') /\ Len(rows') = N /\ DOMAIN rows' = DOMAIN rows \cup {N}
      /\ rows'[N] = x /\ N \notin DOMAIN rows
  BY <1>1, <1>5, <1>6
<1>10. \A s \in DOMAIN rows :
         /\ rows'[s].table = rows[s].table /\ rows'[s].key = rows[s].key
         /\ rows'[s].supersedes = rows[s].supersedes
         /\ s # r => rows'[s] = rows[s]
  BY <1>5, <1>9
<1>11. sub.name \in Names /\ sub.kind \in Kinds /\ sub.spike \in BOOLEAN
  BY BatchesAreOfSubmissions DEF Submission
<1>12. Shape'
  <2>1. x.state \in States
    BY <1>6 DEF InitialState, States
  <2>2. y.state \in States
    BY <1>5 DEF States
  <2>3. Len(rows') <= MaxRows
    BY <1>1, <1>3, <1>9, RowsAreBounded
  <2>4. ASSUME NEW s \in DOMAIN rows'
        PROVE  /\ IsRow(rows'[s])
               /\ rows'[s].name \in Names /\ rows'[s].kind \in Kinds
               /\ rows'[s].state \in States
               /\ rows'[s].key \in Keys \cup {Unkeyed}
    <3>1. CASE s = N
      BY <1>6, <1>9, <1>11, <2>1, <3>1
    <3>2. CASE s = r
      BY <1>5, <1>9, <2>2, <3>2 DEF Inv, Shape
    <3>3. CASE s # N /\ s # r
      BY <1>9, <3>3 DEF Inv, Shape
    <3> QED
      BY <3>1, <3>2, <3>3
  <2> QED
    BY <1>9, <2>3, <2>4 DEF Shape
<1>13. Lineage'
  <2>1. ASSUME NEW s \in DOMAIN rows'
        PROVE  /\ rows'[s].supersedes \in 0..(s - 1)
               /\ rows'[s].superseder = 0 \/ rows'[s].superseder \in (s + 1)..Len(rows')
               /\ rows'[s].superseder # 0 => rows'[rows'[s].superseder].supersedes = s
               /\ rows'[s].supersedes # 0 => rows'[rows'[s].supersedes].superseder = s
               /\ rows'[s].state = "superseded" => rows'[s].superseder # 0
    <3>1. CASE s = N
      <4>1. rows'[s] = x /\ rows'[r] = y /\ r \in 1..(N - 1) /\ N # 0
        BY <1>1, <1>9, <3>1
      <4>2. x.state # "superseded"
        BY <1>6 DEF InitialState
      <4> QED
        BY <1>1, <1>5, <1>6, <3>1, <4>1, <4>2
    <3>2. CASE s = r
      <4>1. rows'[s] = y /\ rows'[N] = x /\ N \in (s + 1)..Len(rows') /\ N # 0
        BY <1>1, <1>9, <3>2
      <4>2. /\ rows[r].supersedes \in 0..(r - 1)
            /\ rows[r].supersedes # 0 => rows[rows[r].supersedes].superseder = r
        BY DEF Inv, Lineage
      <4>3. rows[r].supersedes # 0 =>
              rows[r].supersedes \in DOMAIN rows /\ rows[r].supersedes # r
        BY <1>1, <4>2
      <4> QED
        BY <1>5, <1>6, <1>10, <3>2, <4>1, <4>2, <4>3
    <3>3. CASE s # N /\ s # r
      <4>1. s \in DOMAIN rows /\ rows'[s] = rows[s]
        BY <1>9, <1>10, <3>3
      <4>2. /\ rows[s].supersedes \in 0..(s - 1)
            /\ rows[s].superseder = 0 \/ rows[s].superseder \in (s + 1)..Len(rows)
            /\ rows[s].superseder # 0 => rows[rows[s].superseder].supersedes = s
            /\ rows[s].supersedes # 0 => rows[rows[s].supersedes].superseder = s
            /\ rows[s].state = "superseded" => rows[s].superseder # 0
        BY <4>1 DEF Inv, Lineage
      <4>3. /\ rows[s].superseder # 0 => rows[s].superseder \in DOMAIN rows
            /\ rows[s].supersedes # 0 => rows[s].supersedes \in DOMAIN rows
            /\ s \in Nat /\ s # 0
        BY <1>1, <4>1, <4>2
      <4>4. rows[s].supersedes # r
        BY <1>2, <1>1, <4>2, <4>3
      <4>5. rows[s].superseder = 0 \/ rows[s].superseder \in (s + 1)..Len(rows')
        BY <1>1, <1>9, <4>2, <4>3
      <4> QED
        BY <1>10, <4>1, <4>2, <4>3, <4>4, <4>5
    <3> QED
      BY <3>1, <3>2, <3>3
  <2> QED
    BY <2>1 DEF Lineage
<1>14. spikes \subseteq spikes' /\ spikes' \subseteq DOMAIN rows'
  BY <1>3, <1>9 DEF Inv, Refs
<1>15. Refs'
  BY <1>3, <1>9, <1>14 DEF Inv, Refs
<1>16. OnFile'
  BY <1>3, <1>14 DEF Inv, OnFile
<1>17. CallStands'
  <2>1. {m \in {Len(rows')} : sub.spike} \in SUBSET spikes'
    BY <1>3
  <2> QED
    BY <1>3, <2>1 DEF CallStands
<1>18. WrittenOnce'
  <2>1. ASSUME NEW j \in Keys PROVE {s \in DOMAIN rows' : rows'[s].key = j}
                                      = {s \in DOMAIN rows : rows[s].key = j}
    <3>1. rows'[N].key # j
      BY <1>6, <1>9, UnkeyedIsNoKey
    <3> QED
      BY <1>9, <1>10, <3>1
  <2> QED
    BY <1>3, <2>1 DEF Inv, WrittenOnce
<1>19. FiledRowsContained'
  BY <1>3, <1>6, <1>9, <1>10, ContainedStands DEF Inv
<1>20. WorldAssumptionsAttacked'
  <2>1. sub.kind = "world" => N \in spikes'
    BY <1>3, <1>9, <1>11 DEF SpikeProblem
  <2>2. ASSUME NEW s \in DOMAIN rows', rows'[s].state = "assumed", rows'[s].kind = "world"
        PROVE  s \in spikes'
    <3>1. CASE s = N
      BY <1>6, <1>9, <2>1, <2>2, <3>1
    <3>2. CASE s = r
      BY <1>5, <1>9, <2>2, <3>2
    <3>3. CASE s # N /\ s # r
      BY <1>9, <1>14, <2>2, <3>3 DEF Inv, WorldAssumptionsAttacked
    <3> QED
      BY <3>1, <3>2, <3>3
  <2> QED
    BY <2>2 DEF WorldAssumptionsAttacked
<1> QED
  BY <1>3, <1>12, <1>13, <1>15, <1>16, <1>17, <1>18, <1>19, <1>20 DEF Inv

\* Steps that leave rows, links, spikes and the results on file alone.
LEMMA RowsStand ==
    ASSUME Inv, UNCHANGED <<rows, links, spikes>>, dirs' \subseteq spikes,
           DOMAIN ledger' = DOMAIN ledger,
           ledger' = [k \in DOMAIN ledger' |-> ledger'[k]],
           \A k \in DOMAIN ledger : \E r, v : /\ ledger'[k] = [results |-> r, verdicts |-> v]
                                              /\ r = ledger[k].results,
           CallStands'
    PROVE  Inv'
<1>1. \A k \in DOMAIN ledger : ledger'[k].results = ledger[k].results
  OBVIOUS
<1>2. OnFile'
  BY <1>1 DEF Inv, OnFile
<1>3. WrittenOnce'
  BY <1>1 DEF Inv, WrittenOnce
<1> QED
  BY <1>2, <1>3 DEF Inv, Shape, Lineage, Refs, FiledRowsContained,
                    WorldAssumptionsAttacked, Indexable

\* Steps of a call that leave the receipts alone too.
LEMMA LedgerStands ==
    ASSUME Inv, UNCHANGED <<rows, links, spikes, ledger>>, dirs' \subseteq spikes, CallStands'
    PROVE  Inv'
<1>1. \A k \in DOMAIN ledger : \E r, v : /\ ledger[k] = [results |-> r, verdicts |-> v]
                                         /\ r = ledger[k].results
  BY DEF Inv, OnFile
<1>2. ledger = [k \in DOMAIN ledger |-> ledger[k]]
  BY DEF Inv, OnFile
<1> QED
  BY <1>1, <1>2, RowsStand

LEMMA CallInv ==
    ASSUME Inv,
           \/ \E k \in Keys, b \in Batches : Resubmit(k, b)
           \/ CreateDirectories \/ FailToAnnotate \/ CreateDirectory \/ Crash
    PROVE  Inv'
<1>1. ASSUME NEW k \in Keys, NEW b \in Batches, Resubmit(k, b) PROVE Inv'
  <2>1. UNCHANGED <<rows, links, spikes, ledger>> /\ dirs' \subseteq spikes
    BY <1>1 DEF Resubmit, Inv, Refs
  <2>2. CallStands'
    BY <1>1 DEF Resubmit, Answering, CallStands
  <2> QED
    BY <2>1, <2>2, LedgerStands
<1>2. CASE CreateDirectories
  <2>1. PICK k, ops, size : k \in DOMAIN ledger /\
           call = [step |-> "directories", key |-> k, ops |-> ops, size |-> size]
    BY <1>2 DEF CreateDirectories, Inv, CallStands, NoCall
  <2>2. UNCHANGED <<rows, links, spikes, ledger>>
    BY <1>2 DEF CreateDirectories
  <2>3. dirs' \subseteq spikes
    BY <1>2, <2>1 DEF CreateDirectories, Stored, Inv, OnFile, Refs
  <2>4. call' = [step |-> "annotate", key |-> k, ops |-> ops, size |-> size]
    BY <1>2, <2>1 DEF CreateDirectories
  <2>5. CallStands'
    BY <2>1, <2>2, <2>4 DEF CallStands
  <2> QED
    BY <2>2, <2>3, <2>5, LedgerStands
<1>3. CASE FailToAnnotate
  BY <1>3, LedgerStands DEF FailToAnnotate, CallStands, Inv, Refs
<1>4. CASE CreateDirectory
  <2>1. call.of \subseteq spikes
    BY <1>4 DEF CreateDirectory, Inv, CallStands, NoCall
  <2> QED
    BY <1>4, <2>1, LedgerStands DEF CreateDirectory, CallStands, Inv, Refs
<1>5. CASE Crash
  BY <1>5, LedgerStands DEF Crash, CallStands, Inv, Refs
<1> QED
  BY <1>1, <1>2, <1>3, <1>4, <1>5

LEMMA AnnotateInv ==
    ASSUME Inv, Annotate
    PROVE  Inv'
<1>1. PICK j, ops, size : j \in DOMAIN ledger /\
         call = [step |-> "annotate", key |-> j, ops |-> ops, size |-> size]
  BY DEF Annotate, Inv, CallStands, NoCall
<1>2. PICK w : /\ ledger' = [ledger EXCEPT ![j].verdicts = w]
               /\ call' = NoCall /\ UNCHANGED <<rows, links, spikes, dirs>>
  BY <1>1 DEF Annotate
<1>3. PICK q, u : ledger[j] = [results |-> q, verdicts |-> u]
  BY <1>1 DEF Inv, OnFile
<1>4. ledger' = [ledger EXCEPT ![j] = [results |-> q, verdicts |-> w]]
  <2>1. [ledger[j] EXCEPT !.verdicts = w] = [results |-> q, verdicts |-> w]
    BY <1>3
  <2>2. ledger' = [ledger EXCEPT ![j] = [ledger[j] EXCEPT !.verdicts = w]]
    BY <1>2
  <2> QED
    BY <2>1, <2>2
<1>5. /\ DOMAIN ledger' = DOMAIN ledger
      /\ ledger' = [k \in DOMAIN ledger' |-> ledger'[k]]
      /\ \A k \in DOMAIN ledger : ledger'[k] = IF k = j THEN [results |-> q, verdicts |-> w]
                                               ELSE ledger[k]
  BY <1>4 DEF Inv, OnFile
<1>6. \A k \in DOMAIN ledger : \E r, v : /\ ledger'[k] = [results |-> r, verdicts |-> v]
                                         /\ r = ledger[k].results
  BY <1>3, <1>5 DEF Inv, OnFile
<1>7. CallStands' /\ dirs' \subseteq spikes
  BY <1>2 DEF CallStands, Inv, Refs
<1> QED
  BY <1>2, <1>5, <1>6, <1>7, RowsStand

\* What Submit leaves: the rows there were, and after them those of the batch.
LEMMA Submitted ==
    ASSUME Inv, NEW k \in Keys, NEW b \in Batches, Submit(k, b)
    PROVE  /\ Len(rows) \in Nat /\ DOMAIN rows = 1..Len(rows) /\ Len(Filed(b)) \in Nat
           /\ IsList(rows') /\ Len(rows') = Len(rows) + Len(Filed(b))
           /\ DOMAIN rows' = 1..Len(rows')
           /\ \A s \in DOMAIN rows : rows'[s] = rows[s]
           /\ \A i \in Kept(b) : /\ Assigned(b, i) \in DOMAIN rows' \ DOMAIN rows
                                 /\ rows'[Assigned(b, i)] = NewRow(b[i], 0, k)
           /\ \A s \in DOMAIN rows' \ DOMAIN rows : \E i \in Kept(b) : s = Assigned(b, i)
           /\ \A i, j \in Kept(b) : Assigned(b, i) = Assigned(b, j) => i = j
<1> DEFINE w == Written(b, k)
<1>1. IsList(rows) /\ Len(rows) \in Nat /\ DOMAIN rows = 1..Len(rows)
  BY ListShape DEF Inv, Shape
<1>2. /\ Len(Filed(b)) \in Nat /\ DOMAIN Filed(b) = 1..Len(Filed(b))
      /\ \A n \in DOMAIN Filed(b) :
           Filed(b)[n] \in Kept(b) /\ Assigned(b, Filed(b)[n]) = Len(rows) + n
      /\ \A i \in Kept(b) : \E n \in DOMAIN Filed(b) :
           Filed(b)[n] = i /\ Assigned(b, i) = Len(rows) + n
  BY <1>1, Filing
<1>3. w = [n \in 1..Len(Filed(b)) |-> NewRow(b[Filed(b)[n]], 0, k)]
  BY <1>2 DEF Written
<1>4. /\ DOMAIN w = 1..Len(Filed(b)) /\ w = [n \in 1..Len(Filed(b)) |-> w[n]]
      /\ \A n \in 1..Len(Filed(b)) : w[n] = NewRow(b[Filed(b)[n]], 0, k)
  BY <1>3
<1> HIDE DEF w
<1>5. IsList(w)
  BY <1>2, <1>4, ListOfLength
<1>6. Len(w) = Len(Filed(b))
  BY <1>2, <1>4, <1>5, ListShape
<1>7. PICK S, T : rows \in Seq(S) /\ w \in Seq(T)
  BY <1>1, <1>5 DEF IsList
<1> DEFINE U == S \cup T
<1>8. rows \in Seq(U) /\ w \in Seq(U)
  BY <1>7
<1> HIDE DEF U
<1>9. rows' = rows \o w
  BY DEF Submit, w
<1>10. /\ rows' \in Seq(U) /\ Len(rows') = Len(rows) + Len(w)
       /\ \A s \in 1..(Len(rows) + Len(w)) :
            rows'[s] = IF s <= Len(rows) THEN rows[s] ELSE w[s - Len(rows)]
  BY <1>8, <1>9
<1>11. IsList(rows') /\ DOMAIN rows' = 1..Len(rows')
  BY <1>10 DEF IsList
<1>12. \A s \in DOMAIN rows : rows'[s] = rows[s]
  BY <1>1, <1>2, <1>6, <1>10
<1>13. \A n \in DOMAIN Filed(b) : /\ Len(rows) + n \in DOMAIN rows' \ DOMAIN rows
                                  /\ rows'[Len(rows) + n] = w[n]
  <2> TAKE n \in DOMAIN Filed(b)
  <2>1. /\ Len(rows) + n \in 1..(Len(rows) + Len(w)) /\ ~(Len(rows) + n <= Len(rows))
        /\ (Len(rows) + n) - Len(rows) = n
    BY <1>1, <1>2, <1>6
  <2> QED
    BY <1>1, <1>10, <1>11, <2>1
<1>14. ASSUME NEW i \in Kept(b)
       PROVE  /\ Assigned(b, i) \in DOMAIN rows' \ DOMAIN rows
              /\ rows'[Assigned(b, i)] = NewRow(b[i], 0, k)
  <2>1. PICK n \in DOMAIN Filed(b) : Filed(b)[n] = i /\ Assigned(b, i) = Len(rows) + n
    BY <1>2
  <2> QED
    BY <1>2, <1>4, <1>13, <2>1
<1>15. ASSUME NEW s \in DOMAIN rows' \ DOMAIN rows
       PROVE  \E i \in Kept(b) : s = Assigned(b, i)
  <2>1. s - Len(rows) \in DOMAIN Filed(b) /\ s = Len(rows) + (s - Len(rows))
    BY <1>1, <1>2, <1>6, <1>10, <1>11
  <2> QED
    BY <1>2, <2>1
<1>16. ASSUME NEW i \in Kept(b), NEW j \in Kept(b), Assigned(b, i) = Assigned(b, j)
       PROVE  i = j
  <2>1. PICK n \in DOMAIN Filed(b) : Filed(b)[n] = i /\ Assigned(b, i) = Len(rows) + n
    BY <1>2
  <2>2. PICK m \in DOMAIN Filed(b) : Filed(b)[m] = j /\ Assigned(b, j) = Len(rows) + m
    BY <1>2
  <2>3. n \in Nat /\ m \in Nat
    BY <1>2
  <2>4. Len(rows) + n = Len(rows) + m
    BY <1>16, <2>1, <2>2
  <2>5. n = m
    BY <1>1, <2>3, <2>4
  <2> QED
    BY <2>1, <2>2, <2>5
<1> QED
  BY <1>1, <1>2, <1>6, <1>10, <1>11, <1>12, <1>14, <1>15, <1>16

\* A filed row has its one owner, which is a row there was or one filed with it.
LEMMA SubmitContains ==
    ASSUME Inv, NEW k \in Keys, NEW b \in Batches, Submit(k, b)
    PROVE  Refs' /\ FiledRowsContained'
<1>1. /\ \A s \in DOMAIN rows : rows'[s] = rows[s]
      /\ DOMAIN rows \subseteq DOMAIN rows'
      /\ \A i \in Kept(b) : /\ Assigned(b, i) \in DOMAIN rows' \ DOMAIN rows
                            /\ rows'[Assigned(b, i)] = NewRow(b[i], 0, k)
      /\ \A s \in DOMAIN rows' \ DOMAIN rows : \E i \in Kept(b) : s = Assigned(b, i)
      /\ \A i, j \in Kept(b) : Assigned(b, i) = Assigned(b, j) => i = j
  BY Submitted
<1>2. Range(Filed(b)) = Kept(b)
  BY Submitted, Filing
<1>3. /\ links' = links \cup NewLinks(b) /\ dirs' = dirs
      /\ spikes' = spikes \cup {Assigned(b, i) : i \in {j \in Kept(b) : b[j].spike}}
  BY <1>2 DEF Submit
<1> DEFINE Target(l) == IF l.to[1] = "row" THEN l.to[2] ELSE Assigned(b, l.to[2])
           Made(i, l) == [source |-> Assigned(b, i), type |-> l.type, target |-> Target(l)]
<1>4. NewLinks(b) = UNION {{Made(i, l) : l \in b[i].links} : i \in Kept(b)}
  BY <1>2 DEF NewLinks
<1>5. ASSUME NEW i \in Kept(b), NEW l \in b[i].links
      PROVE  /\ Target(l) \in DOMAIN rows'
             /\ Made(i, l) \in links' /\ Made(i, l).source = Assigned(b, i)
             /\ Made(i, l).target = Target(l) /\ Made(i, l).type = l.type
             /\ l.to[1] = "row" => rows'[Target(l)].table = rows[l.to[2]].table
             /\ l.to[1] # "row" => rows'[Target(l)].table = b[l.to[2]].table
  <2>1. \/ l.to[1] = "row" /\ l.to[2] \in DOMAIN rows
        \/ l.to[1] = "sibling" /\ l.to[2] \in Kept(b)
    BY <1>5, KeptIsSound
  <2>2. \A j : NewRow(b[j], 0, k).table = b[j].table
    BY DEF NewRow
  <2>3. Made(i, l) \in NewLinks(b)
    <3> HIDE DEF Made
    <3> QED
      BY <1>4, <1>5
  <2>4. Made(i, l) \in links'
    BY <1>3, <2>3
  <2> QED
    BY <1>1, <2>1, <2>2, <2>4
<1>6. \A m \in NewLinks(b) : \E i \in Kept(b) : \E l \in b[i].links : m = Made(i, l)
  <2> HIDE DEF Made
  <2> QED
    BY <1>4
<1> HIDE DEF Target
<1>7. Refs'
  <2>1. \A m \in NewLinks(b) : m.source \in DOMAIN rows' /\ m.target \in DOMAIN rows'
    BY <1>1, <1>5, <1>6
  <2> QED
    BY <1>1, <1>3, <2>1 DEF Inv, Refs
<1>8. ASSUME NEW r \in DOMAIN rows', rows'[r].key # Unkeyed,
             rows'[r].table \in DOMAIN ParentOf
      PROVE  \E owner \in {l.target : l \in {m \in links' :
                                m.source = r /\ m.type = "belongs_to"}} :
               /\ rows'[owner].table = ParentOf[rows'[r].table]
               /\ \A l \in links' : (l.source = r /\ l.type = "belongs_to")
                                        => l.target = owner
  <2>1. CASE r \in DOMAIN rows
    <3>1. PICK owner \in {l.target : l \in {m \in links :
                                m.source = r /\ m.type = "belongs_to"}} :
             /\ rows[owner].table = ParentOf[rows[r].table]
             /\ \A l \in links : (l.source = r /\ l.type = "belongs_to") => l.target = owner
      BY <1>1, <1>8, <2>1 DEF Inv, FiledRowsContained
    <3>2. owner \in DOMAIN rows
      BY <3>1 DEF Inv, Refs
    <3>3. \A m \in NewLinks(b) : m.source # r
      BY <1>1, <1>6, <2>1
    <3> QED
      BY <1>1, <1>3, <2>1, <3>1, <3>2, <3>3
  <2>2. CASE r \notin DOMAIN rows
    <3>1. PICK i \in Kept(b) : r = Assigned(b, i)
      BY <1>1, <2>2
    <3>2. rows'[r].table = b[i].table
      <4>1. rows'[r] = NewRow(b[i], 0, k)
        BY <1>1, <3>1
      <4>2. NewRow(b[i], 0, k).table = b[i].table
        BY DEF NewRow
      <4> QED
        BY <4>1, <4>2
    <3>3. ~Orphan(b, i) /\ Submission(b[i])
      BY KeptIsSound
    <3>4. /\ Cardinality(Owners(b[i])) = 1
          /\ \A l \in Owners(b[i]) : TableOf(b, l.to) = ParentOf[b[i].table]
      BY <1>8, <3>2, <3>3 DEF Orphan
    <3>5. PICK l : Owners(b[i]) = {l}
      <4>1. IsFiniteSet(Owners(b[i]))
        BY <3>3, FS_Subset DEF Owners, Submission
      <4> QED
        BY <3>4, <4>1, FS_Singleton
    <3>6. /\ l \in b[i].links /\ l.type = "belongs_to"
          /\ \A q \in b[i].links : q.type = "belongs_to" => q = l
          /\ TableOf(b, l.to) = ParentOf[b[i].table]
      BY <3>4, <3>5 DEF Owners
    <3>7. rows'[Target(l)].table = ParentOf[rows'[r].table]
      BY <1>5, <3>2, <3>6 DEF TableOf
    <3>8. /\ Made(i, l) \in links' /\ Made(i, l).source = r /\ Made(i, l).type = "belongs_to"
          /\ Made(i, l).target = Target(l)
      BY <1>5, <3>1, <3>6
    <3>9. ASSUME NEW m \in links', m.source = r, m.type = "belongs_to"
          PROVE  m.target = Target(l)
      <4>1. m \in NewLinks(b)
        BY <1>3, <2>2, <3>9 DEF Inv, Refs
      <4>2. PICK j \in Kept(b) : \E q \in b[j].links : m = Made(j, q)
        BY <1>6, <4>1
      <4>3. PICK q \in b[j].links : m = Made(j, q)
        BY <4>2
      <4>4. m.source = Assigned(b, j) /\ m.type = q.type /\ m.target = Target(q)
        BY <4>3
      <4>5. j = i
        BY <1>1, <3>1, <3>9, <4>4
      <4>6. q = l
        BY <3>6, <3>9, <4>3, <4>4, <4>5
      <4> QED
        BY <4>4, <4>6
    <3> HIDE DEF Made
    <3> QED
      BY <3>7, <3>8, <3>9
  <2> QED
    BY <2>1, <2>2
<1>9. FiledRowsContained'
  BY <1>8 DEF FiledRowsContained
<1> QED
  BY <1>7, <1>9

\* The receipt of a submission names the rows of its key, and rows that have spikes.
LEMMA SubmitReceipt ==
    ASSUME Inv, NEW k \in Keys, NEW b \in Batches, Submit(k, b)
    PROVE  OnFile' /\ WrittenOnce' /\ CallStands'
<1> DEFINE res == Results(b)
<1>1. /\ Len(rows) \in Nat /\ DOMAIN rows = 1..Len(rows)
      /\ DOMAIN rows \subseteq DOMAIN rows'
      /\ \A s \in DOMAIN rows : rows'[s] = rows[s]
      /\ \A i \in Kept(b) : /\ Assigned(b, i) \in DOMAIN rows' \ DOMAIN rows
                            /\ rows'[Assigned(b, i)] = NewRow(b[i], 0, k)
      /\ \A s \in DOMAIN rows' \ DOMAIN rows : \E i \in Kept(b) : s = Assigned(b, i)
  BY Submitted
<1>2. /\ Range(Filed(b)) = Kept(b)
      /\ \A n \in DOMAIN Filed(b) : Filed(b)[n] \in Kept(b)
      /\ \A i \in Kept(b) : \E n \in DOMAIN Filed(b) : Filed(b)[n] = i
  BY <1>1, Filing
<1>3. /\ DOMAIN Filed(b) \subseteq DOMAIN Ops(b)
      /\ \A n \in DOMAIN Filed(b) : Ops(b)[n] = <<"row", Filed(b)[n]>>
      /\ \A n \in DOMAIN Ops(b) \ DOMAIN Filed(b) : Ops(b)[n][1] # "row"
      /\ \A n \in DOMAIN Ops(b) : Ops(b)[n][1] = "spike" =>
           Ops(b)[n][2] \in Kept(b) /\ b[Ops(b)[n][2]].spike
  BY <1>1, OpsShape
<1>4. /\ DOMAIN res = DOMAIN Ops(b)
      /\ \A n \in DOMAIN res : /\ res[n].kind = Ops(b)[n][1]
                               /\ res[n].of = Assigned(b, Ops(b)[n][2])
  BY DEF Results
<1> HIDE DEF res
<1>5. /\ k \notin DOMAIN ledger
      /\ spikes' = spikes \cup {Assigned(b, i) : i \in {j \in Kept(b) : b[j].spike}}
      /\ ledger' = [j \in DOMAIN ledger \cup {k} |->
                      IF j = k THEN [results |-> res, verdicts |-> <<>>] ELSE ledger[j]]
      /\ call' = Answering(k, b)
  BY <1>2 DEF Submit, New, res
<1>6. /\ DOMAIN ledger' = DOMAIN ledger \cup {k}
      /\ ledger' = [j \in DOMAIN ledger' |-> ledger'[j]]
      /\ ledger'[k] = [results |-> res, verdicts |-> <<>>]
      /\ \A j \in DOMAIN ledger : ledger'[j] = ledger[j]
  BY <1>5
<1>7. \A n \in DOMAIN res : res[n].kind = "spike" => res[n].of \in spikes'
  BY <1>3, <1>4, <1>5
<1>8. OnFile'
  <2>1. ASSUME NEW j \in DOMAIN ledger'
        PROVE  /\ \E r, v : ledger'[j] = [results |-> r, verdicts |-> v]
               /\ \A n \in DOMAIN ledger'[j].results :
                    ledger'[j].results[n].kind = "spike" => ledger'[j].results[n].of \in spikes'
    <3>1. CASE j = k
      BY <1>6, <1>7, <3>1
    <3>2. CASE j # k
      <4>1. j \in DOMAIN ledger /\ ledger'[j] = ledger[j] /\ spikes \subseteq spikes'
        BY <1>5, <1>6, <3>2
      <4>2. /\ \E r, v : ledger[j] = [results |-> r, verdicts |-> v]
            /\ \A n \in DOMAIN ledger[j].results :
                 ledger[j].results[n].kind = "spike" => ledger[j].results[n].of \in spikes
        BY <4>1 DEF Inv, OnFile
      <4> QED
        BY <4>1, <4>2
    <3> QED
      BY <3>1, <3>2
  <2> QED
    BY <1>6, <2>1 DEF Inv, OnFile
<1>9. CallStands'
  BY <1>5, <1>6 DEF Answering, CallStands
<1>10. WrittenOnce'
  <2> SUFFICES ASSUME NEW j \in Keys
               PROVE  {r \in DOMAIN rows' : rows'[r].key = j} =
                        IF j \in DOMAIN ledger'
                        THEN {ledger'[j].results[n].of : n \in {m \in DOMAIN ledger'[j].results :
                                                    ledger'[j].results[m].kind = "row"}}
                        ELSE {}
    BY DEF WrittenOnce
  <2>1. {r \in DOMAIN rows : rows[r].key = j} =
            IF j \in DOMAIN ledger
            THEN {ledger[j].results[n].of : n \in {m \in DOMAIN ledger[j].results :
                                                    ledger[j].results[m].kind = "row"}}
            ELSE {}
    BY DEF Inv, WrittenOnce
  <2>2. \A s \in DOMAIN rows' \ DOMAIN rows : rows'[s].key = k
    <3>1. \A i : NewRow(b[i], 0, k).key = k
      BY DEF NewRow
    <3> QED
      BY <1>1, <3>1
  <2>3. CASE j # k
    <3>1. {r \in DOMAIN rows' : rows'[r].key = j} = {r \in DOMAIN rows : rows[r].key = j}
      BY <1>1, <2>2, <2>3
    <3> QED
      BY <1>6, <2>1, <2>3, <3>1
  <2>4. CASE j = k
    <3>1. {r \in DOMAIN rows' : rows'[r].key = k} = DOMAIN rows' \ DOMAIN rows
      BY <1>1, <1>5, <2>1, <2>2, <2>4
    <3>2. DOMAIN rows' \ DOMAIN rows = {Assigned(b, i) : i \in Kept(b)}
      BY <1>1
    <3>3. {m \in DOMAIN res : res[m].kind = "row"} = DOMAIN Filed(b)
      BY <1>3, <1>4
    <3>4. \A n \in DOMAIN Filed(b) : res[n].of = Assigned(b, Filed(b)[n])
      BY <1>3, <1>4
    <3>5. {res[n].of : n \in DOMAIN Filed(b)} = {Assigned(b, i) : i \in Kept(b)}
      BY <1>2, <3>4
    <3>6. ledger'[j].results = res /\ j \in DOMAIN ledger'
      BY <1>6, <2>4
    <3>7. {ledger'[j].results[n].of : n \in {m \in DOMAIN ledger'[j].results :
                                                 ledger'[j].results[m].kind = "row"}}
            = {res[n].of : n \in DOMAIN Filed(b)}
      BY <3>3, <3>6
    <3>8. {r \in DOMAIN rows' : rows'[r].key = j}
            = {ledger'[j].results[n].of : n \in {m \in DOMAIN ledger'[j].results :
                                                 ledger'[j].results[m].kind = "row"}}
      BY <2>4, <3>1, <3>2, <3>5, <3>7
    <3> QED
      BY <3>6, <3>8
  <2> QED
    BY <2>3, <2>4
<1> QED
  BY <1>8, <1>9, <1>10

LEMMA SubmitInv ==
    ASSUME Inv, NEW k \in Keys, NEW b \in Batches, Submit(k, b)
    PROVE  Inv'
<1>1. /\ Len(rows) \in Nat /\ DOMAIN rows = 1..Len(rows) /\ Len(Filed(b)) \in Nat
      /\ IsList(rows') /\ Len(rows') = Len(rows) + Len(Filed(b))
      /\ DOMAIN rows' = 1..Len(rows')
      /\ \A s \in DOMAIN rows : rows'[s] = rows[s]
      /\ \A i \in Kept(b) : /\ Assigned(b, i) \in DOMAIN rows' \ DOMAIN rows
                            /\ rows'[Assigned(b, i)] = NewRow(b[i], 0, k)
      /\ \A s \in DOMAIN rows' \ DOMAIN rows : \E i \in Kept(b) : s = Assigned(b, i)
  BY Submitted
<1>2. /\ Len(rows') <= MaxRows /\ Indexable(rows')
      /\ spikes' = spikes \cup {Assigned(b, i) : i \in {j \in Kept(b) : b[j].spike}}
  <2>1. Range(Filed(b)) = Kept(b)
    BY <1>1, Filing
  <2> QED
    BY <1>1, <2>1 DEF Submit
<1>3. ASSUME NEW s \in DOMAIN rows' \ DOMAIN rows
      PROVE  /\ IsRow(rows'[s]) /\ rows'[s].name \in Names /\ rows'[s].kind \in Kinds
             /\ rows'[s].state \in {"active", "assumed"} /\ rows'[s].key = k
             /\ rows'[s].supersedes = 0 /\ rows'[s].superseder = 0
             /\ rows'[s].kind = "world" => s \in spikes'
  <2>1. PICK i \in Kept(b) : s = Assigned(b, i)
    BY <1>1, <1>3
  <2> DEFINE x == NewRow(b[i], 0, k)
  <2>2. rows'[s] = x
    BY <1>1, <2>1
  <2>3. Submission(b[i]) /\ ~SpikeProblem(b[i])
    BY KeptIsSound
  <2>4. x = [table |-> b[i].table, name |-> b[i].name, kind |-> b[i].kind,
             state |-> InitialState(b[i].kind), supersedes |-> 0, superseder |-> 0, key |-> k]
    BY DEF NewRow
  <2> HIDE DEF x
  <2>5. IsRow(x)
    BY <2>4 DEF IsRow
  <2>6. /\ x.name = b[i].name /\ x.kind = b[i].kind /\ x.state = InitialState(b[i].kind)
        /\ x.supersedes = 0 /\ x.superseder = 0 /\ x.key = k
    BY <2>4
  <2>7. InitialState(b[i].kind) \in {"active", "assumed"}
    BY DEF InitialState
  <2>8. b[i].kind = "world" => Assigned(b, i) \in spikes'
    BY <1>2, <2>3 DEF Submission, SpikeProblem
  <2> QED
    BY <2>1, <2>2, <2>3, <2>5, <2>6, <2>7, <2>8 DEF Submission
<1>4. Shape'
  BY <1>1, <1>2, <1>3 DEF Inv, Shape, States
<1>5. Lineage'
  <2>1. ASSUME NEW s \in DOMAIN rows'
        PROVE  /\ rows'[s].supersedes \in 0..(s - 1)
               /\ rows'[s].superseder = 0 \/ rows'[s].superseder \in (s + 1)..Len(rows')
               /\ rows'[s].superseder # 0 => rows'[rows'[s].superseder].supersedes = s
               /\ rows'[s].supersedes # 0 => rows'[rows'[s].supersedes].superseder = s
               /\ rows'[s].state = "superseded" => rows'[s].superseder # 0
    <3>1. CASE s \in DOMAIN rows
      <4>1. /\ rows[s].supersedes \in 0..(s - 1)
            /\ rows[s].superseder = 0 \/ rows[s].superseder \in (s + 1)..Len(rows)
            /\ rows[s].superseder # 0 => rows[rows[s].superseder].supersedes = s
            /\ rows[s].supersedes # 0 => rows[rows[s].supersedes].superseder = s
            /\ rows[s].state = "superseded" => rows[s].superseder # 0
        BY <3>1 DEF Inv, Lineage
      <4>2. /\ rows[s].superseder # 0 => rows[s].superseder \in DOMAIN rows
            /\ rows[s].supersedes # 0 => rows[s].supersedes \in DOMAIN rows
        BY <1>1, <3>1, <4>1
      <4>3. rows[s].superseder = 0 \/ rows[s].superseder \in (s + 1)..Len(rows')
        BY <1>1, <3>1, <4>1, <4>2
      <4> QED
        BY <1>1, <3>1, <4>1, <4>2, <4>3
    <3>2. CASE s \notin DOMAIN rows
      <4>1. s \in Nat /\ s # 0
        BY <1>1
      <4>2. rows'[s].state # "superseded"
        BY <1>3, <3>2
      <4> QED
        BY <1>3, <3>2, <4>1, <4>2
    <3> QED
      BY <3>1, <3>2
  <2> QED
    BY <2>1 DEF Lineage
<1>6. WorldAssumptionsAttacked'
  BY <1>1, <1>2, <1>3 DEF Inv, WorldAssumptionsAttacked
<1> QED
  BY <1>2, <1>4, <1>5, <1>6, SubmitContains, SubmitReceipt DEF Inv

LEMMA NextInv == Inv /\ [Next]_vars => Inv'
<1> SUFFICES ASSUME Inv, [Next]_vars PROVE Inv'
  OBVIOUS
<1>1. ASSUME NEW k \in Keys, NEW b \in Batches, Submit(k, b) PROVE Inv'
  BY <1>1, SubmitInv
<1>2. ASSUME NEW k \in Keys, NEW b \in Batches, Resubmit(k, b) PROVE Inv'
  BY <1>2, CallInv
<1>3. CASE CreateDirectories \/ FailToAnnotate \/ CreateDirectory \/ Crash
  BY <1>3, CallInv
<1>4. CASE Annotate
  BY <1>4, AnnotateInv
<1>5. ASSUME NEW r \in DOMAIN rows, NEW sub \in Replacements, SupersedeRow(r, sub) PROVE Inv'
  BY <1>5, SupersedeInv
<1>6. ASSUME NEW r \in DOMAIN rows, RetireRow(r) PROVE Inv'
  BY <1>6, RetireInv
<1>7. ASSUME NEW r \in DOMAIN rows, NEW resolution \in {"confirm", "revise", "reject"},
             NEW name \in Names, ResolveAssumption(r, resolution, name)
      PROVE  Inv'
  BY <1>7, ResolveInv
<1>8. CASE UNCHANGED vars
  BY <1>8 DEF vars, Inv, Shape, Lineage, Indexable, Refs, OnFile, CallStands, WrittenOnce,
              FiledRowsContained, WorldAssumptionsAttacked
<1> QED
  BY <1>1, <1>2, <1>3, <1>4, <1>5, <1>6, <1>7, <1>8 DEF Next

---------------------------------------------------------------------------
(* The theorems.                                                           *)

\* The inductive invariant holds always.
THEOREM Invariance == Spec => []Inv
<1> QED
  BY InitInv, NextInv, PTL DEF Spec

\* Rows are of their types and point back and forward in the order of filing, links
\* join rows there are, and only rows with a spike have its directory (engine/rows.py).
THEOREM TypeCorrect == Spec => []TypeOK
<1>1. Inv => TypeOK
  BY ListShape DEF Inv, Shape, Lineage, Refs, OnFile, TypeOK
<1> QED
  BY <1>1, Invariance, PTL

\* No two live rows of a table share a name, through every door by which a row gets
\* one: the readers' liveness and the index's are one (M6_PLAN.md 6.5).
THEOREM NamesAreUnique == Spec => []OneLiveName
<1>1. Inv => OneLiveName
  BY DEF Inv, Lineage, Shape, OneLiveName, Indexable, Indexed, LiveRow
<1> QED
  BY <1>1, Invariance, PTL

\* A replayed batch never creates duplicate rows: the rows of a key are those its
\* receipt assigns, crash or none (decisions:43).
THEOREM ReplaysWriteNothing == Spec => []WrittenOnce
<1>1. Inv => WrittenOnce
  BY DEF Inv
<1> QED
  BY <1>1, Invariance, PTL

\* No filed row is an orphan, whatever was rejected with it (F28).
THEOREM NoOrphans == Spec => []FiledRowsContained
<1>1. Inv => FiledRowsContained
  BY DEF Inv
<1> QED
  BY <1>1, Invariance, PTL

\* An open assumption about the world has the spike that attacks it (D16).
THEOREM AssumptionsAreAttacked == Spec => []WorldAssumptionsAttacked
<1>1. Inv => WorldAssumptionsAttacked
  BY DEF Inv
<1> QED
  BY <1>1, Invariance, PTL

---------------------------------------------------------------------------
(* Lineage, as the readers walk it.                                        *)

\* The functions of the three walks, and what they are made by.
Backward(f) == f = [s \in DOMAIN rows |->
                      IF rows[s].supersedes = 0 THEN s ELSE f[rows[s].supersedes]]
Forward(f) == f = [s \in DOMAIN rows |->
                      IF rows[s].superseder = 0 THEN s ELSE f[rows[s].superseder]]
Onward(f) == f = [s \in DOMAIN rows |->
                      {s} \cup IF rows[s].superseder = 0 THEN {} ELSE f[rows[s].superseder]]

\* Both pointers make chains: back to what was filed before, on to what was after.
LEMMA LineageIsChained ==
    ASSUME Inv
    PROVE  /\ IsChained(DOMAIN rows, [s \in DOMAIN rows |-> rows[s].supersedes],
                        [s \in DOMAIN rows |-> s])
           /\ IsChained(DOMAIN rows, [s \in DOMAIN rows |-> rows[s].superseder],
                        [s \in DOMAIN rows |-> Len(rows) - s])
           /\ Len(rows) \in Nat /\ DOMAIN rows = 1..Len(rows)
<1>1. Len(rows) \in Nat /\ DOMAIN rows = 1..Len(rows)
  BY ListShape DEF Inv, Shape
<1>2. ASSUME NEW s \in DOMAIN rows
      PROVE  /\ rows[s].supersedes # 0 =>
                  rows[s].supersedes \in DOMAIN rows /\ rows[s].supersedes < s
             /\ rows[s].superseder # 0 =>
                  /\ rows[s].superseder \in DOMAIN rows
                  /\ Len(rows) - rows[s].superseder < Len(rows) - s
             /\ s \in Nat /\ Len(rows) - s \in Nat
  <2>1. /\ rows[s].supersedes \in 0..(s - 1)
        /\ rows[s].superseder = 0 \/ rows[s].superseder \in (s + 1)..Len(rows)
    BY DEF Inv, Lineage
  <2> QED
    BY <1>1, <2>1
<1> QED
  BY <1>1, <1>2 DEF IsChained

LEMMA WalksExist ==
    ASSUME Inv
    PROVE  (\E f : Backward(f)) /\ (\E f : Forward(f)) /\ (\E f : Onward(f))
<1> DEFINE D == DOMAIN rows
           N == Len(rows) + 1
           old == [s \in D |-> rows[s].supersedes]
           new == [s \in D |-> rows[s].superseder]
           up == [s \in D |-> s]
           down == [s \in D |-> Len(rows) - s]
           itself == [s \in D |-> s]
           alone == [s \in D |-> {s}]
           on == [x \in D \X D |-> x[2]]
           and == [x \in D \X SUBSET D |-> {x[1]} \cup x[2]]
<1>1. /\ IsChained(D, old, up) /\ IsChained(D, new, down)
      /\ Len(rows) \in Nat /\ DOMAIN rows = 1..Len(rows)
  BY LineageIsChained
<1>2. N \in Nat /\ (\A s \in D : up[s] < N) /\ (\A s \in D : down[s] < N)
  BY <1>1
<1>3. /\ itself \in [D -> D] /\ on \in [D \X D -> D]
      /\ alone \in [D -> SUBSET D] /\ and \in [D \X SUBSET D -> SUBSET D]
  <2>1. and \in [D \X SUBSET D -> SUBSET D]
    <3>1. \A x \in D \X SUBSET D : {x[1]} \cup x[2] \in SUBSET D
      OBVIOUS
    <3> QED
      BY <3>1
  <2> QED
    BY <2>1
<1>4. \A s \in D : old[s] = rows[s].supersedes /\ new[s] = rows[s].superseder
  OBVIOUS
<1>5. /\ \A s \in D : itself[s] = s /\ alone[s] = {s}
      /\ \A s \in D, t \in D : on[<<s, t>>] = t
      /\ \A s \in D, S \in SUBSET D : and[<<s, S>>] = {s} \cup S
  OBVIOUS
<1>6. /\ \A s \in D : old[s] # 0 => old[s] \in D
      /\ \A s \in D : new[s] # 0 => new[s] \in D
  BY <1>1 DEF IsChained
<1> HIDE DEF D, N, old, new, up, down, itself, alone, on, and
<1>7. \E f : Backward(f)
  <2>1. PICK f : IsAlong(f, D, D, old, itself, on)
    BY <1>1, <1>2, <1>3, ChainFunction
  <2>2. \A s \in D : f[s] = IF rows[s].supersedes = 0 THEN s ELSE f[rows[s].supersedes]
    <3> TAKE s \in D
    <3>1. f[s] = IF old[s] = 0 THEN itself[s] ELSE on[<<s, f[old[s]]>>]
      BY <2>1 DEF IsAlong
    <3>2. old[s] # 0 => old[s] \in D /\ f[old[s]] \in D
      BY <1>6, <2>1 DEF IsAlong
    <3>3. old[s] # 0 => on[<<s, f[old[s]]>>] = f[old[s]]
      BY <1>5, <3>2
    <3> QED
      BY <1>4, <1>5, <3>1, <3>3
  <2>3. f = [s \in D |-> IF rows[s].supersedes = 0 THEN s ELSE f[rows[s].supersedes]]
    BY <2>1, <2>2 DEF IsAlong
  <2> QED
    BY <2>3 DEF Backward, D
<1>8. \E f : Forward(f)
  <2>1. PICK f : IsAlong(f, D, D, new, itself, on)
    BY <1>1, <1>2, <1>3, ChainFunction
  <2>2. \A s \in D : f[s] = IF rows[s].superseder = 0 THEN s ELSE f[rows[s].superseder]
    <3> TAKE s \in D
    <3>1. f[s] = IF new[s] = 0 THEN itself[s] ELSE on[<<s, f[new[s]]>>]
      BY <2>1 DEF IsAlong
    <3>2. new[s] # 0 => new[s] \in D /\ f[new[s]] \in D
      BY <1>6, <2>1 DEF IsAlong
    <3>3. new[s] # 0 => on[<<s, f[new[s]]>>] = f[new[s]]
      BY <1>5, <3>2
    <3> QED
      BY <1>4, <1>5, <3>1, <3>3
  <2>3. f = [s \in D |-> IF rows[s].superseder = 0 THEN s ELSE f[rows[s].superseder]]
    BY <2>1, <2>2 DEF IsAlong
  <2> QED
    BY <2>3 DEF Forward, D
<1>9. \E f : Onward(f)
  <2>1. PICK f : IsAlong(f, D, SUBSET D, new, alone, and)
    BY <1>1, <1>2, <1>3, ChainFunction
  <2>2. \A s \in D : f[s] = {s} \cup IF rows[s].superseder = 0 THEN {}
                                     ELSE f[rows[s].superseder]
    <3> TAKE s \in D
    <3>0. f[s] = IF new[s] = 0 THEN alone[s] ELSE and[<<s, f[new[s]]>>]
      BY <2>1 DEF IsAlong
    <3>1. CASE new[s] = 0
      BY <1>4, <1>5, <3>0, <3>1
    <3>2. CASE new[s] # 0
      <4>1. new[s] \in D /\ f[new[s]] \in SUBSET D
        BY <1>6, <2>1, <3>2 DEF IsAlong
      <4>2. f[s] = {s} \cup f[new[s]]
        BY <1>5, <3>0, <3>2, <4>1
      <4> QED
        BY <1>4, <3>2, <4>2
    <3> QED
      BY <3>1, <3>2
  <2>3. f = [s \in D |-> {s} \cup IF rows[s].superseder = 0 THEN {}
                                  ELSE f[rows[s].superseder]]
    BY <2>1, <2>2 DEF IsAlong
  <2> QED
    BY <2>3 DEF Onward, D
<1> QED
  BY <1>7, <1>8, <1>9

\* The walks, one link at a time.
LEMMA Walks ==
    ASSUME Inv
    PROVE  \E on : \A s \in DOMAIN rows :
              /\ LineageRoot(s) = IF rows[s].supersedes = 0 THEN s
                                  ELSE LineageRoot(rows[s].supersedes)
              /\ LineageHead(s) = IF rows[s].superseder = 0 THEN s
                                  ELSE LineageHead(rows[s].superseder)
              /\ on[s] = {s} \cup IF rows[s].superseder = 0 THEN {}
                                  ELSE on[rows[s].superseder]
              /\ History(s) = on[LineageRoot(s)]
<1> DEFINE back == CHOOSE f : Backward(f)
           head == CHOOSE f : Forward(f)
           on == CHOOSE f : Onward(f)
<1>1. Backward(back) /\ Forward(head) /\ Onward(on)
  BY WalksExist
<1>2. \A s : /\ LineageRoot(s) = back[s] /\ LineageHead(s) = head[s]
             /\ History(s) = on[LineageRoot(s)]
  <2>1. \A s : LineageRoot(s) = back[s]
    BY Zenon DEF LineageRoot, Backward
  <2>2. \A s : LineageHead(s) = head[s]
    BY Zenon DEF LineageHead, Forward
  <2>3. \A s : History(s) = on[LineageRoot(s)]
    BY Zenon DEF History, Onward
  <2> QED
    BY <2>1, <2>2, <2>3
<1> HIDE DEF back, head, on
<1>3. \A s \in DOMAIN rows :
        /\ back[s] = IF rows[s].supersedes = 0 THEN s ELSE back[rows[s].supersedes]
        /\ head[s] = IF rows[s].superseder = 0 THEN s ELSE head[rows[s].superseder]
        /\ on[s] = {s} \cup IF rows[s].superseder = 0 THEN {} ELSE on[rows[s].superseder]
  <2>1. \A s \in DOMAIN rows :
          back[s] = IF rows[s].supersedes = 0 THEN s ELSE back[rows[s].supersedes]
    BY <1>1 DEF Backward
  <2>2. \A s \in DOMAIN rows :
          head[s] = IF rows[s].superseder = 0 THEN s ELSE head[rows[s].superseder]
    BY <1>1 DEF Forward
  <2>3. \A s \in DOMAIN rows :
          on[s] = {s} \cup IF rows[s].superseder = 0 THEN {} ELSE on[rows[s].superseder]
    BY <1>1 DEF Onward
  <2> QED
    BY <2>1, <2>2, <2>3
<1>4. \A s \in DOMAIN rows :
              /\ LineageRoot(s) = IF rows[s].supersedes = 0 THEN s
                                  ELSE LineageRoot(rows[s].supersedes)
              /\ LineageHead(s) = IF rows[s].superseder = 0 THEN s
                                  ELSE LineageHead(rows[s].superseder)
  BY <1>2, <1>3
<1> QED
  BY <1>2, <1>3, <1>4

\* The walk on from where a row came from leads to the row and to where it stands now,
\* and everything on it came from the same.
LEMMA WalksAgree ==
    ASSUME Inv
    PROVE  \A r \in DOMAIN rows :
              /\ {r, LineageHead(r)} \subseteq History(r)
              /\ \A s \in History(r) : LineageRoot(s) = LineageRoot(r)
<1> DEFINE D == DOMAIN rows
           old == [s \in D |-> rows[s].supersedes]
           new == [s \in D |-> rows[s].superseder]
           up == [s \in D |-> s]
           down == [s \in D |-> Len(rows) - s]
<1>1. PICK on : \A s \in DOMAIN rows :
              /\ LineageRoot(s) = IF rows[s].supersedes = 0 THEN s
                                  ELSE LineageRoot(rows[s].supersedes)
              /\ LineageHead(s) = IF rows[s].superseder = 0 THEN s
                                  ELSE LineageHead(rows[s].superseder)
              /\ on[s] = {s} \cup IF rows[s].superseder = 0 THEN {}
                                  ELSE on[rows[s].superseder]
              /\ History(s) = on[LineageRoot(s)]
  BY Walks
<1>2. IsChained(D, old, up) /\ IsChained(D, new, down)
  BY LineageIsChained
<1>3. \A s \in D : old[s] = rows[s].supersedes /\ new[s] = rows[s].superseder
  OBVIOUS
<1>4. \A s \in D :
        /\ old[s] # 0 => old[s] \in D /\ new[old[s]] = s
        /\ new[s] # 0 => new[s] \in D /\ old[new[s]] = s
  <2>1. \A s \in D : /\ old[s] # 0 => old[s] \in D
                     /\ new[s] # 0 => new[s] \in D
    BY <1>2 DEF IsChained
  <2>2. \A s \in D : /\ rows[s].superseder # 0 => rows[rows[s].superseder].supersedes = s
                     /\ rows[s].supersedes # 0 => rows[rows[s].supersedes].superseder = s
    BY DEF Inv, Lineage
  <2> HIDE DEF old, new, D
  <2> QED
    BY <1>3, <2>1, <2>2
<1> HIDE DEF old, new, up, down
<1>5. \A s \in D :
        /\ LineageRoot(s) = IF old[s] = 0 THEN s ELSE LineageRoot(old[s])
        /\ LineageHead(s) = IF new[s] = 0 THEN s ELSE LineageHead(new[s])
        /\ on[s] = {s} \cup IF new[s] = 0 THEN {} ELSE on[new[s]]
        /\ History(s) = on[LineageRoot(s)]
  BY <1>1, <1>3
<1> HIDE DEF D
<1> DEFINE T1 == {s \in D : LineageRoot(s) \in D /\ on[s] \subseteq on[LineageRoot(s)]}
           T2 == {s \in D : LineageHead(s) \in on[s]}
           T3 == {s \in D : \A q \in on[s] : LineageRoot(q) = LineageRoot(s)}
<1>6. D \subseteq T1
  <2>1. ASSUME NEW s \in D, old[s] # 0 => old[s] \in T1 PROVE s \in T1
    <3>1. CASE old[s] = 0
      BY <1>5, <3>1
    <3>2. CASE old[s] # 0
      <4>1. old[s] \in D /\ new[old[s]] = s /\ LineageRoot(old[s]) \in D
            /\ on[old[s]] \subseteq on[LineageRoot(old[s])]
        BY <1>4, <2>1, <3>2
      <4>2. LineageRoot(s) = LineageRoot(old[s])
        BY <1>5, <3>2
      <4>3. on[s] \subseteq on[old[s]]
        <5>1. s # 0
          BY <1>2, LineageIsChained DEF D
        <5>2. on[old[s]] = {old[s]} \cup IF new[old[s]] = 0 THEN {} ELSE on[new[old[s]]]
          BY <1>5, <4>1
        <5> QED
          BY <4>1, <5>1, <5>2
      <4> QED
        BY <4>1, <4>2, <4>3
    <3> QED
      BY <3>1, <3>2
  <2> HIDE DEF T1
  <2> QED
    BY <1>2, <2>1, ChainInduction
<1>7. D \subseteq T2
  <2>1. ASSUME NEW s \in D, new[s] # 0 => new[s] \in T2 PROVE s \in T2
    BY <1>5, <2>1
  <2> HIDE DEF T2
  <2> QED
    BY <1>2, <2>1, ChainInduction
<1>8. D \subseteq T3
  <2>1. ASSUME NEW s \in D, new[s] # 0 => new[s] \in T3 PROVE s \in T3
    <3>1. CASE new[s] = 0
      <4>1. on[s] = {s}
        BY <1>5, <3>1
      <4> QED
        BY <4>1
    <3>2. CASE new[s] # 0
      <4>1. new[s] \in D /\ old[new[s]] = s
            /\ \A q \in on[new[s]] : LineageRoot(q) = LineageRoot(new[s])
        BY <1>4, <2>1, <3>2
      <4>2. s # 0
        BY LineageIsChained DEF D
      <4>3. LineageRoot(new[s]) = LineageRoot(s)
        BY <1>5, <4>1, <4>2
      <4>4. on[s] = {s} \cup on[new[s]]
        BY <1>5, <3>2
      <4> QED
        BY <4>1, <4>3, <4>4
    <3> QED
      BY <3>1, <3>2
  <2> HIDE DEF T3
  <2> QED
    BY <1>2, <2>1, ChainInduction
<1>9. ASSUME NEW r \in D
      PROVE  /\ {r, LineageHead(r)} \subseteq History(r)
             /\ \A s \in History(r) : LineageRoot(s) = LineageRoot(r)
  <2>1. LineageRoot(r) \in D /\ on[r] \subseteq History(r) /\ History(r) = on[LineageRoot(r)]
    BY <1>5, <1>6
  <2>2. r \in on[r] /\ LineageHead(r) \in on[r]
    BY <1>5, <1>7
  <2>3. LineageRoot(LineageRoot(r)) = LineageRoot(r)
    BY <1>8, <1>5, <2>1, <2>2
  <2> QED
    BY <1>8, <2>1, <2>2, <2>3
<1> QED
  BY <1>9 DEF D

\* Lineage reads the same from both ends, and readers and the index agree on what is
\* live (requirements:61, decisions:42).
THEOREM LineageReadsBothWays == Spec => []LineageSound
<1>1. ASSUME Inv PROVE LineageSound
  <2>1. ASSUME NEW r \in DOMAIN rows
        PROVE  /\ rows[r].superseder # 0 => rows[rows[r].superseder].supersedes = r
               /\ rows[r].supersedes # 0 => rows[rows[r].supersedes].superseder = r
               /\ LiveRow(rows[r]) <=> Indexed(rows[r])
    BY <1>1 DEF Inv, Lineage, LiveRow, Indexed
  <2> QED
    BY <1>1, <2>1, WalksAgree DEF LineageSound
<1> QED
  BY <1>1, Invariance, PTL

\* A row's name and provenance change only by the resolution of an open assumption,
\* lineage is stamped once, and what has left the live plan does not come back
\* (requirements:61).
THEOREM HistoryIsKept == Spec => HistoryStands
<1> DEFINE Stands == \A r \in DOMAIN rows :
              /\ rows[r].state # "assumed" =>
                    rows'[r].name = rows[r].name /\ rows'[r].kind = rows[r].kind
              /\ rows[r].superseder # 0 => rows'[r].superseder = rows[r].superseder
              /\ ~LiveRow(rows[r]) => ~LiveRow(rows'[r])
<1>1. ASSUME Inv, [Next]_vars PROVE [Stands]_vars
  <2>1. ASSUME NEW k \in Keys, NEW b \in Batches, Submit(k, b) PROVE Stands
    BY <1>1, <2>1, Submitted
  <2>2. ASSUME NEW r \in DOMAIN rows, NEW sub \in Replacements, SupersedeRow(r, sub)
        PROVE  Stands
    <3>1. /\ \A s \in DOMAIN rows : s # r => rows'[s] = rows[s]
          /\ rows[r].superseder = 0 /\ Len(rows) \in Nat /\ Len(rows') = Len(rows) + 1
      BY <1>1, <2>2, Superseded
    <3>2. PICK y : /\ rows'[r] = y /\ y.name = rows[r].name /\ y.kind = rows[r].kind
                   /\ y.superseder = Len(rows')
      BY <1>1, <2>2, Superseded
    <3>3. ~LiveRow(rows'[r])
      BY <3>1, <3>2 DEF LiveRow
    <3> QED
      BY <3>1, <3>2, <3>3
  <2>3. ASSUME NEW r \in DOMAIN rows, RetireRow(r) PROVE Stands
    <3>1. PICK y : /\ SetTo(r, y) /\ y.state = "retired"
                   /\ y.name = rows[r].name /\ y.kind = rows[r].kind
      BY <1>1, <2>3, Retired
    <3>2. \A s \in DOMAIN rows : rows'[s] = IF s = r THEN y ELSE rows[s]
      BY <1>1, <3>1, ListUpdate DEF SetTo, Inv, Shape
    <3>3. ~LiveRow(y) /\ y.superseder = rows[r].superseder
      BY <3>1 DEF LiveRow, SetTo
    <3> QED
      BY <3>1, <3>2, <3>3
  <2>4. ASSUME NEW r \in DOMAIN rows, NEW resolution \in {"confirm", "revise", "reject"},
               NEW name \in Names, ResolveAssumption(r, resolution, name)
        PROVE  Stands
    <3>1. PICK y : SetTo(r, y)
      BY <1>1, <2>4, Resolved
    <3>2. \A s \in DOMAIN rows : rows'[s] = IF s = r THEN y ELSE rows[s]
      BY <1>1, <3>1, ListUpdate DEF SetTo, Inv, Shape
    <3>3. rows[r].state = "assumed" /\ y.superseder = rows[r].superseder
      BY <2>4, <3>1 DEF ResolveAssumption, Open, SetTo
    <3>4. ~LiveRow(rows[r]) => ~LiveRow(y)
      BY <3>3 DEF LiveRow
    <3> QED
      BY <3>2, <3>3, <3>4
  <2>5. ASSUME rows' = rows PROVE Stands
    BY <2>5
  <2>6. ASSUME NEW k \in Keys, NEW b \in Batches, Resubmit(k, b) PROVE rows' = rows
    BY <2>6 DEF Resubmit
  <2>7. (CreateDirectories \/ Annotate \/ FailToAnnotate \/ CreateDirectory \/ Crash)
            => rows' = rows
    BY DEF CreateDirectories, Annotate, FailToAnnotate, CreateDirectory, Crash
  <2> HIDE DEF Stands
  <2> QED
    BY <1>1, <2>1, <2>2, <2>3, <2>4, <2>5, <2>6, <2>7 DEF Next
<1> QED
  BY <1>1, Invariance, PTL DEF Spec, HistoryStands
===============================================================================
