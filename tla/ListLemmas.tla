------------------------------- MODULE ListLemmas -------------------------------
(***************************************************************************)
(* Sequences of whatever elements: tables in order of filing, of which     *)
(* nothing is asked but how they grow and what an update leaves alone.     *)
(***************************************************************************)
EXTENDS Sequences, Integers, SequencesExt, SequenceTheorems, FiniteSetTheorems, TLAPS

IsList(s) == \E S : s \in Seq(S)

\* A list is a function on 1..Len.
LEMMA ListShape ==
    ASSUME NEW s, IsList(s)
    PROVE  Len(s) \in Nat /\ DOMAIN s = 1..Len(s)
BY DEF IsList

\* A function on 1..n is a list.
LEMMA ListOfLength ==
    ASSUME NEW n \in Nat, NEW s, DOMAIN s = 1..n, s = [i \in 1..n |-> s[i]]
    PROVE  IsList(s)
<1> DEFINE S == {s[i] : i \in 1..n}
<1>1. \A i \in 1..n : s[i] \in S
  OBVIOUS
<1> HIDE DEF S
<1>2. s \in [1..n -> S]
  BY <1>1
<1>3. s \in Seq(S)
  BY <1>2
<1> QED
  BY <1>3 DEF IsList

\* Filing makes a list longer by one and leaves what was filed before.
LEMMA ListAppend ==
    ASSUME NEW s, IsList(s), NEW e
    PROVE  /\ IsList(Append(s, e))
           /\ Len(Append(s, e)) = Len(s) + 1
           /\ DOMAIN Append(s, e) = DOMAIN s \cup {Len(s) + 1}
           /\ \A i \in DOMAIN s : Append(s, e)[i] = s[i]
           /\ Append(s, e)[Len(s) + 1] = e
<1>1. PICK S : s \in Seq(S)
  BY DEF IsList
<1> DEFINE T == S \cup {e}
<1>2. s \in Seq(T) /\ e \in T
  BY <1>1
<1>3. Append(s, e) \in Seq(T)
  BY <1>2
<1> QED
  BY <1>2, <1>3 DEF IsList

\* An update leaves the length and the other elements.
LEMMA ListUpdate ==
    ASSUME NEW s, IsList(s), NEW i \in DOMAIN s, NEW e
    PROVE  /\ IsList([s EXCEPT ![i] = e])
           /\ Len([s EXCEPT ![i] = e]) = Len(s)
           /\ DOMAIN [s EXCEPT ![i] = e] = DOMAIN s
           /\ \A j \in DOMAIN s : [s EXCEPT ![i] = e][j] = IF j = i THEN e ELSE s[j]
<1>1. PICK S : s \in Seq(S)
  BY DEF IsList
<1> DEFINE T == S \cup {e}
<1>2. s \in Seq(T) /\ e \in T /\ i \in 1..Len(s)
  BY <1>1
<1>3. /\ [s EXCEPT ![i] = e] \in Seq(T)
      /\ Len([s EXCEPT ![i] = e]) = Len(s)
      /\ \A j \in 1..Len(s) : [s EXCEPT ![i] = e][j] = IF j = i THEN e ELSE s[j]
  BY <1>2, ExceptSeq
<1> QED
  BY <1>2, <1>3 DEF IsList

\* Taking the first off a list leaves the others.
LEMMA ListTail ==
    ASSUME NEW s, IsList(s), s # <<>>
    PROVE  /\ IsList(Tail(s))
           /\ \A r : r \in {s[i] : i \in DOMAIN s} <=>
                         r = Head(s) \/ r \in {Tail(s)[i] : i \in DOMAIN Tail(s)}
<1>1. PICK S : s \in Seq(S)
  BY DEF IsList
<1>2. /\ Tail(s) \in Seq(S) /\ Len(Tail(s)) = Len(s) - 1 /\ Len(s) \in Nat /\ Len(s) # 0
      /\ \A i \in 1..(Len(s) - 1) : Tail(s)[i] = s[i + 1]
      /\ Head(s) = s[1] /\ DOMAIN s = 1..Len(s) /\ DOMAIN Tail(s) = 1..(Len(s) - 1)
  BY <1>1, HeadTailProperties
<1>3. \A i \in 1..Len(s) : i # 1 => i - 1 \in 1..(Len(s) - 1) /\ s[i] = Tail(s)[i - 1]
  BY <1>2
<1>4. \A i \in 1..(Len(s) - 1) : i + 1 \in 1..Len(s) /\ Tail(s)[i] = s[i + 1]
  BY <1>2
<1>5. 1 \in 1..Len(s)
  BY <1>2
<1>6. IsList(Tail(s))
  BY <1>2 DEF IsList
<1>7. ASSUME NEW r, r \in {s[i] : i \in DOMAIN s}
      PROVE  r = Head(s) \/ r \in {Tail(s)[i] : i \in DOMAIN Tail(s)}
  <2>1. PICK i \in 1..Len(s) : r = s[i]
    BY <1>2, <1>7
  <2> QED
    BY <1>2, <1>3, <2>1
<1>8. ASSUME NEW r, r = Head(s) \/ r \in {Tail(s)[i] : i \in DOMAIN Tail(s)}
      PROVE  r \in {s[i] : i \in DOMAIN s}
  BY <1>2, <1>4, <1>5, <1>8
<1> QED
  BY <1>6, <1>7, <1>8

\* A finite set can be put in order.
LEMMA ListOfSet ==
    ASSUME NEW S, IsFiniteSet(S)
    PROVE  /\ IsList(SetToSeq(S))
           /\ SetToSeq(S) \in [1..Cardinality(S) -> S]
           /\ Range(SetToSeq(S)) = S
<1> DEFINE n == Cardinality(S)
           s == SetToSeq(S)
<1>1. n \in Nat /\ ExistsBijection(1..n, S)
  BY FS_CardinalityType
<1>2. \E f \in [1..n -> S] : IsInjective(f)
  BY <1>1 DEF ExistsBijection, Bijection, Injection
<1>3. s \in [1..n -> S] /\ IsInjective(s)
  BY <1>2 DEF SetToSeq
<1>4. s \in Injection(1..n, S)
  BY <1>3 DEF Injection
<1>5. IsFiniteSet(1..n) /\ Cardinality(1..n) = n
  BY <1>1, FS_Interval
<1> HIDE DEF s
<1>6. s \in Surjection(1..n, S)
  BY <1>1, <1>4, <1>5, FS_Injection
<1>7. Range(s) = S
  BY <1>3, <1>6 DEF Range, Surjection
<1>8. IsList(s)
  <2>1. DOMAIN s = 1..n /\ s = [i \in 1..n |-> s[i]]
    BY <1>3
  <2> HIDE DEF n
  <2> QED
    BY <1>1, <2>1, ListOfLength
<1> QED
  BY <1>3, <1>7, <1>8 DEF s
===============================================================================
