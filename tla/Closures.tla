-------------------------------- MODULE Closures --------------------------------
(***************************************************************************)
(* Induction over numbers, in the form of sets closed under successor;     *)
(* what is reached from some rows by following links backwards, a step at  *)
(* a time, the closure that engine/graph.py computes for an impact; and    *)
(* the ranks that put the rows of a set in order.                          *)
(***************************************************************************)
EXTENDS Integers, FiniteSets, FiniteSetTheorems, WellFoundedInduction, TLAPS

---------------------------------------------------------------------------
(* Induction.                                                              *)

\* The order of the numbers is a relation without descending chains.
LEMMA DescentEnds ==
    \E R : IsWellFoundedOn(R, Nat) /\ \A m, n \in Nat : m < n => <<m, n>> \in R
<1>1. \A m, n \in Nat : m < n => <<m, n>> \in OpToRel(<, Nat)
  BY DEF OpToRel
<1> QED
  BY <1>1, NatLessThanWellFounded, Zenon

\* Any set of numbers has a least one.
LEMMA LeastNumber ==
    ASSUME NEW T, T \subseteq Nat, T # {}
    PROVE  \E n \in T : \A m \in T : n <= m
<1>1. PICK R : IsWellFoundedOn(R, Nat) /\ \A m, n \in Nat : m < n => <<m, n>> \in R
  BY DescentEnds
<1>2. PICK n \in T : \A m \in T : ~(<<m, n>> \in R)
  <2>1. IsWellFoundedOn(R, Nat) /\ T \subseteq Nat /\ T # {}
    BY <1>1
  <2> QED
    BY ONLY <2>1, WFMin, Zenon
<1>3. ASSUME NEW m \in T PROVE n <= m
  <2>1. m \in Nat /\ n \in Nat
    OBVIOUS
  <2>2. ~(m < n)
    BY <1>1, <1>2, <2>1
  <2> QED
    BY <2>1, <2>2
<1> QED
  BY <1>3

\* A set that has 0, and with a number the next, has all numbers.
LEMMA Induction ==
    ASSUME NEW S, 0 \in S, \A n \in Nat : n \in S => n + 1 \in S
    PROVE  Nat \subseteq S
<1> SUFFICES ASSUME Nat \ S # {} PROVE FALSE
  OBVIOUS
<1>1. PICK n \in Nat \ S : \A m \in Nat \ S : n <= m
  BY LeastNumber
<1>2. n # 0 /\ n - 1 \in Nat
  BY <1>1
<1>3. n - 1 \in S
  BY <1>1, <1>2
<1> QED
  BY <1>1, <1>2, <1>3

---------------------------------------------------------------------------
(* Following links.                                                        *)

\* The sources of the links into S.
Inbound(links, S) == {l[1] : l \in {m \in links : m[2] \in S}}

Closed(links, S) == \A l \in links : l[2] \in S => l[1] \in S

\* f[n] is what is reached from the roots in n steps.
Walk(f, roots, links, N) ==
    f = [n \in 0..N |-> IF n = 0 THEN roots ELSE f[n - 1] \cup Inbound(links, f[n - 1])]

\* There is such a walk of any length, so that its definition by recursion means it.
LEMMA WalkExists ==
    ASSUME NEW roots, NEW links, NEW N \in Nat
    PROVE  \E f : Walk(f, roots, links, N)
<1> DEFINE S == {n \in Nat : \E f : Walk(f, roots, links, n)}
<1>1. 0 \in S
  <2> DEFINE f == [n \in 0..0 |-> roots]
  <2>1. f = [n \in 0..0 |-> IF n = 0 THEN roots ELSE f[n - 1] \cup Inbound(links, f[n - 1])]
    OBVIOUS
  <2> QED
    BY <2>1 DEF Walk
<1>2. ASSUME NEW k \in Nat, k \in S PROVE k + 1 \in S
  <2>1. PICK f : Walk(f, roots, links, k)
    BY <1>2
  <2> DEFINE g == [n \in 0..(k + 1) |-> IF n = k + 1 THEN f[k] \cup Inbound(links, f[k]) ELSE f[n]]
  <2>2. \A n \in 0..k : f[n] = IF n = 0 THEN roots ELSE f[n - 1] \cup Inbound(links, f[n - 1])
    BY <2>1 DEF Walk
  <2>3. \A n \in 0..(k + 1) : n # 0 => n - 1 \in 0..k /\ g[n - 1] = f[n - 1]
    OBVIOUS
  <2>4. \A n \in 0..(k + 1) :
            g[n] = IF n = 0 THEN roots ELSE g[n - 1] \cup Inbound(links, g[n - 1])
    <3> TAKE n \in 0..(k + 1)
    <3>1. CASE n = k + 1
      BY <3>1, <2>3
    <3>2. CASE n # k + 1
      <4>1. n \in 0..k /\ g[n] = f[n]
        BY <3>2
      <4> QED
        BY <4>1, <2>2, <2>3
    <3> QED
      BY <3>1, <3>2
  <2>5. g = [n \in 0..(k + 1) |-> g[n]]
    OBVIOUS
  <2> HIDE DEF g
  <2>6. Walk(g, roots, links, k + 1)
    BY <2>4, <2>5, Zenon DEF Walk
  <2> QED
    BY <2>6
<1> HIDE DEF S
<1>3. Nat \subseteq S
  BY <1>1, <1>2, Induction
<1> QED
  BY <1>3 DEF S

\* The clause of a walk at n.
LEMMA WalkStep ==
    ASSUME NEW f, NEW roots, NEW links, NEW N \in Nat, Walk(f, roots, links, N)
    PROVE  /\ f[0] = roots
           /\ \A n \in 0..(N - 1) : f[n + 1] = f[n] \cup Inbound(links, f[n])
<1>1. \A n \in 0..N : f[n] = IF n = 0 THEN roots ELSE f[n - 1] \cup Inbound(links, f[n - 1])
  BY DEF Walk
<1>2. f[0] = roots
  <2>1. 0 \in 0..N
    OBVIOUS
  <2> QED
    BY <1>1, <2>1
<1>3. ASSUME NEW n \in 0..(N - 1) PROVE f[n + 1] = f[n] \cup Inbound(links, f[n])
  <2>1. n + 1 \in 0..N /\ n + 1 # 0 /\ (n + 1) - 1 = n
    OBVIOUS
  <2> QED
    BY <1>1, <2>1
<1> QED
  BY <1>2, <1>3

\* A closed set with the roots in it is not left.
LEMMA WalkStaysInside ==
    ASSUME NEW f, NEW roots, NEW links, NEW N \in Nat, Walk(f, roots, links, N),
           NEW S, roots \subseteq S, Closed(links, S), NEW n \in 0..N
    PROVE  f[n] \subseteq S
<1> DEFINE T == {k \in Nat : k <= N => f[k] \subseteq S}
<1>1. 0 \in T
  BY WalkStep
<1>2. ASSUME NEW k \in Nat, k \in T PROVE k + 1 \in T
  <2> SUFFICES ASSUME k + 1 <= N PROVE f[k + 1] \subseteq S
    OBVIOUS
  <2>1. f[k] \subseteq S /\ f[k + 1] = f[k] \cup Inbound(links, f[k])
    BY <1>2, WalkStep
  <2>2. Inbound(links, f[k]) \subseteq S
    BY <2>1 DEF Inbound, Closed
  <2> QED
    BY <2>1, <2>2
<1> HIDE DEF T
<1>3. Nat \subseteq T
  BY <1>1, <1>2, Induction
<1> QED
  BY <1>3 DEF T

\* What is reached stays reached.
LEMMA WalkGrows ==
    ASSUME NEW f, NEW roots, NEW links, NEW N \in Nat, Walk(f, roots, links, N),
           NEW k \in 0..N, NEW n \in k..N
    PROVE  f[k] \subseteq f[n]
<1> DEFINE T == {m \in Nat : k + m <= N => f[k] \subseteq f[k + m]}
<1>1. 0 \in T
  OBVIOUS
<1>2. ASSUME NEW m \in Nat, m \in T PROVE m + 1 \in T
  <2> SUFFICES ASSUME k + (m + 1) <= N PROVE f[k] \subseteq f[k + (m + 1)]
    OBVIOUS
  <2>1. k + m \in 0..(N - 1) /\ k + (m + 1) = (k + m) + 1
    OBVIOUS
  <2>2. f[k] \subseteq f[k + m]
    BY <1>2, <2>1
  <2>3. f[(k + m) + 1] = f[k + m] \cup Inbound(links, f[k + m])
    BY <2>1, WalkStep
  <2> QED
    BY <2>1, <2>2, <2>3
<1> HIDE DEF T
<1>3. n - k \in T
  BY <1>1, <1>2, Induction
<1> QED
  BY <1>3 DEF T

\* Among finitely many rows a walk of as many steps as there are rows has come to its
\* end: each step before brings a row that was not there.
LEMMA WalkEnds ==
    ASSUME NEW U, IsFiniteSet(U), NEW roots, roots \subseteq U,
           NEW links, Closed(links, U),
           NEW N \in Nat, Cardinality(U) <= N, NEW f, Walk(f, roots, links, N)
    PROVE  Closed(links, f[N])
<1> DEFINE T == {n \in Nat : n <= N => \/ \E k \in 0..n : Closed(links, f[k])
                                       \/ Cardinality(f[n]) >= n + 1}
<1>1. \A n \in 0..N : /\ f[n] \subseteq U /\ IsFiniteSet(f[n])
                      /\ Cardinality(f[n]) \in Nat /\ Cardinality(f[n]) <= Cardinality(U)
  <2> TAKE n \in 0..N
  <2>1. f[n] \subseteq U
    BY WalkStaysInside
  <2> QED
    BY <2>1, FS_Subset, FS_CardinalityType
<1>2. 0 \in T
  <2>1. CASE roots = {}
    <3>1. Closed(links, f[0])
      BY <2>1, WalkStep DEF Closed
    <3> QED
      BY <3>1
  <2>2. CASE roots # {}
    <3>1. f[0] # {} /\ IsFiniteSet(f[0]) /\ Cardinality(f[0]) \in Nat
      BY <2>2, <1>1, WalkStep
    <3>2. Cardinality(f[0]) # 0
      BY <3>1, FS_EmptySet
    <3> QED
      BY <3>1, <3>2
  <2> QED
    BY <2>1, <2>2
<1>3. ASSUME NEW n \in Nat, n \in T PROVE n + 1 \in T
  <2> SUFFICES ASSUME n + 1 <= N, \A k \in 0..(n + 1) : ~Closed(links, f[k])
               PROVE  Cardinality(f[n + 1]) >= (n + 1) + 1
    OBVIOUS
  <2>1. n \in 0..(N - 1) /\ n \in 0..N /\ n + 1 \in 0..N
    OBVIOUS
  <2>2. Cardinality(f[n]) >= n + 1
    BY <1>3
  <2>3. f[n + 1] = f[n] \cup Inbound(links, f[n])
    BY <2>1, WalkStep
  <2>4. f[n] # f[n + 1]
    <3>1. ~Closed(links, f[n])
      OBVIOUS
    <3>2. PICK l \in links : l[2] \in f[n] /\ l[1] \notin f[n]
      BY <3>1 DEF Closed
    <3>3. l[1] \in Inbound(links, f[n])
      BY <3>2 DEF Inbound
    <3> QED
      BY <2>3, <3>2, <3>3
  <2>5. Cardinality(f[n]) <= Cardinality(f[n + 1]) /\ Cardinality(f[n]) # Cardinality(f[n + 1])
    BY <1>1, <2>1, <2>3, <2>4, FS_Subset
  <2>6. Cardinality(f[n]) \in Nat /\ Cardinality(f[n + 1]) \in Nat
    BY <1>1, <2>1
  <2> QED
    BY <2>2, <2>5, <2>6
<1> HIDE DEF T
<1>4. N \in T
  BY <1>2, <1>3, Induction
<1>5. PICK k \in 0..N : Closed(links, f[k])
  <2>1. Cardinality(U) \in Nat
    BY FS_CardinalityType
  <2>2. ~(Cardinality(f[N]) >= N + 1)
    BY <1>1, <2>1
  <2> QED
    BY <1>4, <2>2 DEF T
<1>6. f[k] \subseteq f[N]
  BY WalkGrows
<1>7. roots \subseteq f[k]
  BY WalkGrows, WalkStep
<1>8. f[N] \subseteq f[k]
  BY <1>5, <1>7, WalkStaysInside
<1>9. f[N] = f[k]
  BY <1>6, <1>8
<1> QED
  BY <1>5, <1>9

\* So that such a walk ends in the smallest closed set that has the roots.
LEMMA WalkIsClosure ==
    ASSUME NEW U, IsFiniteSet(U), NEW roots, roots \subseteq U,
           NEW links, Closed(links, U),
           NEW N \in Nat, Cardinality(U) <= N, NEW f, Walk(f, roots, links, N)
    PROVE  /\ roots \subseteq f[N] /\ f[N] \subseteq U
           /\ Closed(links, f[N])
           /\ \A S : (roots \subseteq S /\ Closed(links, S)) => f[N] \subseteq S
<1>1. roots \subseteq f[N]
  BY WalkGrows, WalkStep
<1>2. f[N] \subseteq U
  BY WalkStaysInside
<1> QED
  BY <1>1, <1>2, WalkEnds, WalkStaysInside
---------------------------------------------------------------------------
(* Ranks.                                                                  *)

Rank(S, r) == Cardinality({s \in S : s <= r})

\* The members of a finite set of numbers have the ranks from 1 to its size, each one.
LEMMA Ranking ==
    ASSUME NEW S \in SUBSET Nat, IsFiniteSet(S)
    PROVE  /\ \A r \in S : Rank(S, r) \in 1..Cardinality(S)
           /\ \A r, q \in S : Rank(S, r) = Rank(S, q) => r = q
           /\ \A n \in 1..Cardinality(S) : \E r \in S : Rank(S, r) = n
<1> DEFINE upTo(r) == {s \in S : s <= r}
           rank == [r \in S |-> Rank(S, r)]
<1>1. \A r \in S : /\ IsFiniteSet(upTo(r)) /\ Cardinality(upTo(r)) \in Nat
                   /\ Cardinality(upTo(r)) <= Cardinality(S)
  BY FS_Subset, FS_CardinalityType
<1>2. \A r \in S : Rank(S, r) \in 1..Cardinality(S)
  <2> TAKE r \in S
  <2>1. r \in upTo(r)
    OBVIOUS
  <2>2. Cardinality(upTo(r)) # 0
    BY <1>1, <2>1, FS_EmptySet
  <2>3. Cardinality(S) \in Nat
    BY FS_CardinalityType
  <2> QED
    BY <1>1, <2>2, <2>3 DEF Rank
<1>3. ASSUME NEW r \in S, NEW q \in S, r < q PROVE Rank(S, r) # Rank(S, q)
  <2>1. upTo(r) \subseteq upTo(q) /\ q \in upTo(q) /\ q \notin upTo(r)
    <3>1. r \in Nat /\ q \in Nat /\ ~(q <= r)
      BY <1>3
    <3>2. \A s \in S : s \in Nat /\ (s <= r => s <= q)
      BY <1>3, <3>1
    <3>3. upTo(r) \subseteq upTo(q)
      BY <3>2
    <3>4. q \in upTo(q) /\ q \notin upTo(r)
      BY <3>1
    <3> QED
      BY <3>3, <3>4
  <2>2. Cardinality(upTo(q)) = Cardinality(upTo(r)) => upTo(q) = upTo(r)
    <3> HIDE DEF upTo
    <3> QED
      BY <1>1, <2>1, FS_Subset
  <2> QED
    BY <2>1, <2>2 DEF Rank
<1>4. \A r, q \in S : Rank(S, r) = Rank(S, q) => r = q
  <2> SUFFICES ASSUME NEW r \in S, NEW q \in S, Rank(S, r) = Rank(S, q), r # q PROVE FALSE
    OBVIOUS
  <2>1. r < q \/ q < r
    OBVIOUS
  <2> QED
    BY <1>3, <2>1
<1>5. rank \in Injection(S, 1..Cardinality(S))
  BY <1>2, <1>4 DEF Injection, IsInjective
<1>6. Cardinality(1..Cardinality(S)) = Cardinality(S) /\ IsFiniteSet(1..Cardinality(S))
  <2>1. Cardinality(S) \in Nat
    BY FS_CardinalityType
  <2> QED
    BY <2>1, FS_Interval
<1>7. rank \in Surjection(S, 1..Cardinality(S))
  <2> HIDE DEF rank
  <2> QED
    BY <1>5, <1>6, FS_Injection
<1>8. \A n \in 1..Cardinality(S) : \E r \in S : Rank(S, r) = n
  BY <1>7 DEF Surjection
<1> QED
  BY <1>2, <1>4, <1>8

\* What puts the numbers of one finite set in the place of another's, in their order,
\* puts each in the place of the one of its own rank.
LEMMA SameOrder ==
    ASSUME NEW M \in SUBSET Nat, IsFiniteSet(M), NEW K \in SUBSET Nat, IsFiniteSet(K),
           NEW f \in [M -> K], \A k \in K : \E m \in M : f[m] = k,
           \A m, n \in M : m < n => f[m] < f[n]
    PROVE  /\ Cardinality(K) = Cardinality(M)
           /\ \A m \in M : Rank(K, f[m]) = Rank(M, m)
<1>0. \A m \in M : m \in Nat /\ f[m] \in K /\ f[m] \in Nat
  OBVIOUS
<1>1. \A m, n \in M : /\ m \in Nat /\ n \in Nat /\ f[m] \in Nat /\ f[n] \in Nat
                      /\ (m = n \/ m < n \/ n < m)
  BY <1>0
<1>2. \A m, n \in M : (f[m] = f[n] => m = n) /\ (f[m] <= f[n] <=> m <= n)
  BY <1>1
<1>3. ASSUME NEW N \in SUBSET M, NEW L \in SUBSET K, \A k \in K : k \in L <=> \E m \in N : f[m] = k
      PROVE  Cardinality(L) = Cardinality(N)
  <2> DEFINE g == [m \in N |-> f[m]]
  <2>1. IsFiniteSet(N)
    BY FS_Subset
  <2>2. \A m \in N : f[m] \in L
    BY <1>3
  <2>3. g \in [N -> L]
    BY <2>2
  <2>4. g \in Injection(N, L)
    BY <1>2, <2>3 DEF Injection, IsInjective
  <2>5. g \in Surjection(N, L)
    BY <1>3, <2>3 DEF Surjection
  <2>6. ExistsBijection(N, L)
    BY <2>4, <2>5 DEF ExistsBijection, Bijection
  <2> QED
    BY <2>1, <2>6, FS_Bijection
<1>4. Cardinality(K) = Cardinality(M)
  BY <1>3
<1>5. ASSUME NEW m \in M PROVE Rank(K, f[m]) = Rank(M, m)
  <2> DEFINE N == {n \in M : n <= m}
             L == {k \in K : k <= f[m]}
  <2>1. ASSUME NEW k \in K PROVE k \in L <=> \E n \in N : f[n] = k
    <3>1. PICK n \in M : f[n] = k
      OBVIOUS
    <3>2. ASSUME k \in L PROVE \E p \in N : f[p] = k
      <4>1. n \in N
        BY <1>2, <3>1, <3>2
      <4> QED
        BY <3>1, <4>1
    <3>3. ASSUME NEW p \in N, f[p] = k PROVE k \in L
      BY <1>2, <3>3
    <3> QED
      BY <3>2, <3>3
  <2>2. Cardinality(L) = Cardinality(N)
    <3> HIDE DEF N, L
    <3>1. N \in SUBSET M /\ L \in SUBSET K
      BY DEF N, L
    <3> QED
      BY <1>3, <2>1, <3>1
  <2> QED
    BY <2>2 DEF Rank
<1> QED
  BY <1>4, <1>5

---------------------------------------------------------------------------
(* Chains: each link names the next one, which is of lower rank, or none.  *)

IsChained(D, p, rank) ==
    \A s \in D : /\ rank[s] \in Nat
                 /\ p[s] # 0 => p[s] \in D /\ rank[p[s]] < rank[s]

\* What holds of a link whenever it holds of the next holds of all.
LEMMA ChainInduction ==
    ASSUME NEW D, NEW p, NEW rank, IsChained(D, p, rank),
           NEW T, \A s \in D : (p[s] # 0 => p[s] \in T) => s \in T
    PROVE  D \subseteq T
<1> SUFFICES ASSUME NEW d \in D, d \notin T PROVE FALSE
  OBVIOUS
<1> DEFINE R == {rank[s] : s \in D \ T}
<1>1. R \subseteq Nat /\ R # {}
  BY DEF IsChained
<1>2. PICK n \in R : \A m \in R : n <= m
  BY <1>1, LeastNumber
<1>3. PICK s \in D \ T : rank[s] = n
  BY <1>2
<1>4. p[s] # 0 /\ p[s] \in D /\ p[s] \notin T /\ rank[p[s]] < rank[s]
  BY <1>3 DEF IsChained
<1>5. rank[p[s]] \in R
  BY <1>4
<1>6. rank[p[s]] \in Nat /\ rank[s] \in Nat /\ n <= rank[p[s]]
  BY <1>1, <1>2, <1>3, <1>5
<1> QED
  BY <1>3, <1>4, <1>6

\* A function that is computed along a chain from its end.
IsAlong(f, D, V, p, base, join) ==
    /\ f \in [D -> V]
    /\ \A s \in D : f[s] = IF p[s] = 0 THEN base[s] ELSE join[<<s, f[p[s]]>>]

LEMMA ChainFunction ==
    ASSUME NEW D, NEW p, NEW rank, IsChained(D, p, rank),
           NEW N \in Nat, \A s \in D : rank[s] < N,
           NEW V, NEW base \in [D -> V], NEW join \in [D \X V -> V]
    PROVE  \E f : IsAlong(f, D, V, p, base, join)
<1> DEFINE Below(n) == {s \in D : rank[s] < n}
           Good(f, n) == IsAlong(f, Below(n), V, p, base, join)
           G == {n \in Nat : \E f : Good(f, n)}
<1>1. 0 \in G
  <2>1. Below(0) = {}
    BY DEF IsChained
  <2>2. Good([s \in {} |-> 0], 0)
    BY <2>1 DEF IsAlong
  <2> HIDE DEF Good
  <2> QED
    BY <2>2
<1>2. ASSUME NEW n \in Nat, n \in G PROVE n + 1 \in G
  <2>1. PICK g : Good(g, n)
    BY <1>2
  <2> DEFINE f == [s \in Below(n + 1) |->
                      IF p[s] = 0 THEN base[s] ELSE join[<<s, g[p[s]]>>]]
  <2>2. ASSUME NEW s \in Below(n + 1), p[s] # 0
        PROVE  p[s] \in Below(n) /\ p[s] \in Below(n + 1)
    <3>1. /\ rank[s] \in Nat /\ rank[s] < n + 1 /\ rank[p[s]] \in Nat
          /\ p[s] \in D /\ rank[p[s]] < rank[s]
      BY <2>2 DEF IsChained
    <3>2. rank[p[s]] < n /\ rank[p[s]] < n + 1
      BY <3>1
    <3> QED
      BY <3>1, <3>2
  <2>3. \A s \in Below(n + 1) : f[s] \in V
    <3> TAKE s \in Below(n + 1)
    <3>1. CASE p[s] = 0
      BY <3>1
    <3>2. CASE p[s] # 0
      <4>1. g[p[s]] \in V
        BY <2>1, <2>2, <3>2 DEF IsAlong
      <4>2. <<s, g[p[s]]>> \in D \X V
        BY <4>1
      <4>3. join[<<s, g[p[s]]>>] \in V
        BY <4>2
      <4> QED
        BY <3>2, <4>3
    <3> QED
      BY <3>1, <3>2
  <2>4. \A s \in Below(n) : s \in Below(n + 1) /\ f[s] = g[s]
    <3> TAKE s \in Below(n)
    <3>1. s \in Below(n + 1)
      <4>1. rank[s] \in Nat /\ rank[s] < n
        BY DEF IsChained
      <4>2. rank[s] < n + 1
        BY <4>1
      <4> QED
        BY <4>2
    <3>2. g[s] = IF p[s] = 0 THEN base[s] ELSE join[<<s, g[p[s]]>>]
      BY <2>1 DEF IsAlong
    <3> QED
      BY <3>1, <3>2
  <2>5. \A s \in Below(n + 1) :
           f[s] = IF p[s] = 0 THEN base[s] ELSE join[<<s, f[p[s]]>>]
    <3> TAKE s \in Below(n + 1)
    <3>1. f[s] = IF p[s] = 0 THEN base[s] ELSE join[<<s, g[p[s]]>>]
      OBVIOUS
    <3>2. p[s] # 0 => f[p[s]] = g[p[s]]
      BY <2>2, <2>4
    <3> HIDE DEF f
    <3> QED
      BY <3>1, <3>2
  <2>6. f \in [Below(n + 1) -> V]
    BY <2>3
  <2> HIDE DEF f
  <2>7. Good(f, n + 1)
    BY <2>5, <2>6 DEF IsAlong
  <2> HIDE DEF Good
  <2> QED
    BY <2>7
<1>3. Nat \subseteq G
  <2> HIDE DEF G
  <2> QED
    BY <1>1, <1>2, Induction
<1>4. PICK f : Good(f, N)
  <2> HIDE DEF Good
  <2> QED
    BY <1>3
<1>5. Below(N) = D
  OBVIOUS
<1> QED
  BY <1>4, <1>5
===============================================================================
