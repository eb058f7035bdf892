---------------------------- MODULE Revision_proofs ----------------------------
(***************************************************************************)
(* Theorems of Revision, for any wordings, disputes, counts and bounds.    *)
(* They rest on one inductive invariant, Inv: what a snapshot is, where    *)
(* each call stands between its two transactions, and which receipts of    *)
(* modifies there can be.                                                  *)
(***************************************************************************)
EXTENDS Revision, ListLemmas, Closures

States == {"draft", "finalized", "revising"}

Plans == [state : States, version : Nat, heir : Seq(Nat), links : SUBSET (Nat \X Nat),
          conflicts : SUBSET [id : Nat, row : Nat, open : BOOLEAN]]

ItemsOf == [kind : {"target", "affected", "resurfaced"}, row : Nat,
            disposition : {"none", "keep", "modify"}, applied : Nat]

Revisions == [snapshot : Nat, from : Nat, to : Nat,
              state : {"walkthrough", "applied", "abandoned"}, cursor : Nat,
              items : Seq(ItemsOf)]

Calls == {NoCall} \cup [step : {"open"}, targets : SUBSET Nat]
         \cup [step : {"record"}, of : Nat, new : Nat] \cup [step : {"abandon"}, of : Nat]

Shapes ==
    /\ plan \in Plans
    /\ snaps \in Seq(Plans)
    /\ revisions \in Seq(Revisions)
    /\ nextConflict \in Nat
    /\ \A k \in DOMAIN receipts : receipts[k] \in Nat
    /\ call \in Calls

\* What a plan names is in it, and a row is superseded by a later one.
Whole(p) ==
    /\ \A r \in DOMAIN p.heir : p.heir[r] = 0 \/ p.heir[r] \in (r + 1)..Len(p.heir)
    /\ p.links \subseteq (DOMAIN p.heir) \X (DOMAIN p.heir)
    /\ \A c \in p.conflicts : c.row \in DOMAIN p.heir

\* Only a finalized plan is ever snapshotted.
SnapshotsAreFinal == \A n \in DOMAIN snaps : Whole(snaps[n]) /\ snaps[n].state = "finalized"

\* A revision has its snapshot, and a cursor inside its list.
RevisionsStand ==
    \A i \in DOMAIN revisions :
        /\ revisions[i].snapshot \in DOMAIN snaps
        /\ revisions[i].cursor <= Len(revisions[i].items)

OneWalk == \A i, j \in DOMAIN revisions : Walking(i) /\ Walking(j) => i = j

\* Opening: the snapshot is taken and is the plan, and there is no other revision.
OpenUnderWay ==
    call.step = "open" =>
        /\ \A i \in DOMAIN revisions : ~Walking(i)
        /\ plan.state = "finalized"
        /\ snaps # <<>> /\ snaps[Len(snaps)] = plan
        /\ call.targets # {} /\ call.targets \subseteq Live

\* Modifying: the item is still the current one, and its row is replaced unless the
\* plan has been rewound since.
ModifyUnderWay ==
    call.step = "record" =>
        /\ call.of \in DOMAIN revisions /\ Presenting(call.of)
        /\ plan.state = "revising" =>
              /\ Current(call.of).row \in Rows
              /\ plan.heir[Current(call.of).row] = call.new

\* Abandoning: the plan is back where the revision found it.
AbandonUnderWay ==
    call.step = "abandon" =>
        /\ call.of \in DOMAIN revisions /\ Walking(call.of)
        /\ plan = snaps[revisions[call.of].snapshot]

\* A modify has a receipt only for an item that was reached.
ReceiptsBehindCursor ==
    \A k \in DOMAIN receipts : k[1] = "modify" =>
        k[2] \in DOMAIN revisions /\ k[3] \in Nat /\ k[3] <= revisions[k[2]].cursor

\* While the plan is under revision, a modify that has a receipt and no record yet has
\* replaced its row: it is not live, and the call is not answered from the receipt.
ReceiptMeansReplaced ==
    plan.state = "revising" =>
        \A k \in DOMAIN receipts :
            (k[1] = "modify" /\ Presenting(k[2]) /\ k[3] = revisions[k[2]].cursor) =>
                /\ Current(k[2]).row \in Rows
                /\ plan.heir[Current(k[2]).row] # 0

\* AppliedIsReal, of rows there are.
AppliedStands ==
    plan.state = "revising" =>
        \A i \in DOMAIN revisions : Walking(i) =>
            \A n \in DOMAIN revisions[i].items :
                revisions[i].items[n].applied # 0 =>
                    /\ revisions[i].items[n].row \in Rows
                    /\ plan.heir[revisions[i].items[n].row] = revisions[i].items[n].applied

\* What the plan and its records say of each other.
Settled ==
    /\ Whole(plan) /\ SnapshotsAreFinal
    /\ RevisionsStand /\ OneWalk
    /\ WalkedInOrder /\ RevisingHasItsRevision /\ AppliedStands

UnderWay ==
    /\ OpenUnderWay /\ ModifyUnderWay /\ AbandonUnderWay
    /\ ReceiptsBehindCursor /\ ReceiptMeansReplaced

Inv == Shapes /\ Settled /\ UnderWay

---------------------------------------------------------------------------
(* What the operators of the model do.                                     *)

\* A decision is recorded on the current item and on no other, and the cursor goes on.
Advanced(after, i, disposition, new) ==
    /\ after \in Seq(Revisions) /\ DOMAIN after = DOMAIN revisions
    /\ \A j \in DOMAIN revisions : j # i => after[j] = revisions[j]
    /\ after[i].snapshot = revisions[i].snapshot
    /\ after[i].to = revisions[i].to /\ after[i].state = revisions[i].state
    /\ after[i].cursor = revisions[i].cursor + 1
    /\ after[i].items \in Seq(ItemsOf)
    /\ Len(after[i].items) = Len(revisions[i].items)
    /\ \A n \in DOMAIN revisions[i].items :
          /\ after[i].items[n].kind = revisions[i].items[n].kind
          /\ after[i].items[n].row = revisions[i].items[n].row
          /\ n # revisions[i].cursor + 1 => after[i].items[n] = revisions[i].items[n]
    /\ after[i].items[revisions[i].cursor + 1].disposition = disposition
    /\ after[i].items[revisions[i].cursor + 1].applied = new

LEMMA DecidedShape ==
    ASSUME revisions \in Seq(Revisions), NEW i \in DOMAIN revisions,
           revisions[i].cursor < Len(revisions[i].items),
           NEW disposition \in {"keep", "modify"}, NEW new \in Nat
    PROVE  Advanced(Decided(i, disposition, new), i, disposition, new)
<1> DEFINE r == revisions[i]
           at == r.cursor + 1
           it == [r.items[at] EXCEPT !.disposition = disposition, !.applied = new]
           its == [r.items EXCEPT ![at] = it]
           q == [r EXCEPT !.items = its, !.cursor = at]
           after == Decided(i, disposition, new)
<1>1. r \in Revisions /\ r.items \in Seq(ItemsOf) /\ r.cursor \in Nat
  <2>1. revisions[i] \in Revisions
    OBVIOUS
  <2> QED
    BY <2>1 DEF Revisions
<1>2. at \in Nat /\ at \in 1..Len(r.items) /\ at \in DOMAIN r.items /\ r.items[at] \in ItemsOf
  BY <1>1
<1>3. /\ it \in ItemsOf /\ it.disposition = disposition /\ it.applied = new
      /\ it.kind = r.items[at].kind /\ it.row = r.items[at].row
  BY <1>2 DEF ItemsOf
<1>4. /\ its \in Seq(ItemsOf) /\ Len(its) = Len(r.items)
      /\ \A n \in DOMAIN r.items : its[n] = IF n = at THEN it ELSE r.items[n]
  <2> HIDE DEF it
  <2> QED
    BY <1>1, <1>2, <1>3, ExceptSeq
<1>5. /\ q \in Revisions /\ q.items = its /\ q.cursor = at
      /\ q.snapshot = r.snapshot /\ q.to = r.to /\ q.state = r.state
  <2> HIDE DEF its
  <2> QED
    BY <1>1, <1>2, <1>4 DEF Revisions
<1>6. after = [revisions EXCEPT ![i] = q]
  BY DEF Decided
<1>7. /\ after \in Seq(Revisions) /\ DOMAIN after = DOMAIN revisions
      /\ \A j \in DOMAIN revisions : after[j] = IF j = i THEN q ELSE revisions[j]
  <2> HIDE DEF q
  <2> QED
    BY <1>5, <1>6, ExceptSeq
<1>8. after[i] = q /\ \A j \in DOMAIN revisions : j # i => after[j] = revisions[j]
  BY <1>7
<1>9. its[at] = it /\ \A n \in DOMAIN r.items : n # at => its[n] = r.items[n]
  BY <1>2, <1>4
<1> HIDE DEF q, its, it, after
<1>10. \A n \in DOMAIN r.items :
        /\ its[n].kind = r.items[n].kind /\ its[n].row = r.items[n].row
        /\ n # at => its[n] = r.items[n]
  BY <1>3, <1>9
<1>11. Advanced(after, i, disposition, new)
  BY <1>3, <1>4, <1>5, <1>7, <1>8, <1>9, <1>10 DEF Advanced
<1> QED
  BY <1>11 DEF after

\* The parts of what is on record.
LEMMA PartsTyped ==
    ASSUME Shapes
    PROVE  /\ IsList(plan.heir) /\ IsList(snaps) /\ IsList(revisions)
           /\ \A n \in DOMAIN snaps : snaps[n] \in Plans
           /\ \A i \in DOMAIN revisions :
                /\ revisions[i] \in Revisions
                /\ IsList(revisions[i].items)
                /\ revisions[i].cursor \in Nat /\ Len(revisions[i].items) \in Nat
                /\ \A n \in DOMAIN revisions[i].items : revisions[i].items[n] \in ItemsOf
<1>1. plan.heir \in Seq(Nat)
  BY DEF Shapes, Plans
<1>2. ASSUME NEW i \in DOMAIN revisions
      PROVE  revisions[i] \in Revisions /\ revisions[i].items \in Seq(ItemsOf)
  <2>1. revisions[i] \in Revisions
    BY DEF Shapes
  <2> QED
    BY <2>1 DEF Revisions
<1>3. ASSUME NEW i \in DOMAIN revisions
      PROVE  /\ IsList(revisions[i].items)
             /\ revisions[i].cursor \in Nat /\ Len(revisions[i].items) \in Nat
             /\ \A n \in DOMAIN revisions[i].items : revisions[i].items[n] \in ItemsOf
  BY <1>2 DEF IsList, Revisions
<1>4. IsList(plan.heir) /\ IsList(snaps) /\ IsList(revisions)
  BY <1>1 DEF Shapes, IsList
<1> QED
  BY <1>2, <1>3, <1>4 DEF Shapes

\* Superseding a live row: the plan is still whole, and no row loses its successor.
LEMMA SupersededShape ==
    ASSUME plan \in Plans, Whole(plan), NEW r \in Live,
           plan' = [plan EXCEPT !.heir = Superseded(r)]
    PROVE  /\ plan' \in Plans /\ Whole(plan')
           /\ plan'.state = plan.state /\ plan'.version = plan.version
           /\ \A q \in Rows : q \in Rows' /\ (plan.heir[q] # 0 => plan'.heir[q] = plan.heir[q])
           /\ plan'.heir[r] = Len(plan.heir) + 1
<1> DEFINE h == plan.heir
           g == [h EXCEPT ![r] = Len(h) + 1]
<1>1. /\ h \in Seq(Nat) /\ Len(h) \in Nat /\ DOMAIN h = 1..Len(h)
      /\ r \in DOMAIN h /\ h[r] = 0
  BY DEF Plans, Live, Rows
<1>2. /\ g \in Seq(Nat) /\ Len(g) = Len(h) /\ DOMAIN g = DOMAIN h
      /\ \A q \in DOMAIN h : g[q] = IF q = r THEN Len(h) + 1 ELSE h[q]
  <2> HIDE DEF h
  <2> QED
    BY <1>1, ExceptSeq
<1>3. plan'.heir = Append(g, 0)
  BY DEF Superseded, Plans
<1>4. /\ plan'.heir \in Seq(Nat) /\ Len(plan'.heir) = Len(h) + 1
      /\ DOMAIN plan'.heir = 1..(Len(h) + 1)
      /\ \A q \in DOMAIN h : plan'.heir[q] = IF q = r THEN Len(h) + 1 ELSE h[q]
      /\ plan'.heir[Len(h) + 1] = 0
  <2> HIDE DEF g, h
  <2>1. IsList(g)
    BY <1>2 DEF IsList
  <2>2. Append(g, 0) \in Seq(Nat)
    BY <1>2
  <2>3. 1..(Len(h) + 1) = DOMAIN g \cup {Len(g) + 1}
    BY <1>1, <1>2
  <2>4. /\ Len(Append(g, 0)) = Len(g) + 1 /\ DOMAIN Append(g, 0) = DOMAIN g \cup {Len(g) + 1}
        /\ \A q \in DOMAIN g : Append(g, 0)[q] = g[q]
        /\ Append(g, 0)[Len(g) + 1] = 0
    BY <2>1, ListAppend
  <2>5. \A q \in DOMAIN h : Append(g, 0)[q] = IF q = r THEN Len(h) + 1 ELSE h[q]
    BY <1>2, <2>4
  <2> QED
    BY <1>2, <1>3, <2>2, <2>3, <2>4, <2>5
<1>5. /\ plan'.state = plan.state /\ plan'.version = plan.version
      /\ plan'.links = plan.links /\ plan'.conflicts = plan.conflicts
  BY DEF Plans
<1>6. plan' \in Plans
  BY <1>4, <1>5 DEF Plans
<1>7. DOMAIN h \subseteq DOMAIN plan'.heir
  BY <1>1, <1>4
<1>8. \A q \in DOMAIN plan'.heir :
        plan'.heir[q] = 0 \/ plan'.heir[q] \in (q + 1)..Len(plan'.heir)
  <2> TAKE q \in DOMAIN plan'.heir
  <2>1. CASE q = Len(h) + 1
    BY <2>1, <1>4
  <2>2. CASE q # Len(h) + 1
    <3>1. q \in DOMAIN h /\ q \in Nat /\ q <= Len(h)
      BY <2>2, <1>1, <1>4
    <3>2. h[q] = 0 \/ h[q] \in (q + 1)..Len(h)
      BY <3>1 DEF Whole
    <3> HIDE DEF h
    <3> QED
      BY <3>1, <3>2, <1>1, <1>4
  <2> QED
    BY <2>1, <2>2
<1>9. Whole(plan')
  BY <1>5, <1>7, <1>8 DEF Whole
<1> QED
  BY <1>1, <1>4, <1>5, <1>6, <1>7, <1>9 DEF Rows

\* The impact of a change, by its definition: what a walk along inbound links comes to.
LEMMA AffectedIsWalked ==
    ASSUME NEW targets, Len(plan.heir) \in Nat
    PROVE  \E f : /\ Walk(f, targets, plan.links, Len(plan.heir))
                  /\ Affected(targets) = f[Len(plan.heir)] \ targets
<1> DEFINE N == Len(plan.heir)
           W == CHOOSE f : Walk(f, targets, plan.links, N)
<1>1. Walk(W, targets, plan.links, N)
  BY WalkExists
<1>2. Affected(targets) = W[N] \ targets
  BY Zenon DEF Affected, Walk, Inbound
<1> QED
  BY <1>1, <1>2

\* It is made of rows, and is the smallest that will do.
LEMMA AffectedIsClosure ==
    ASSUME plan \in Plans, Whole(plan), NEW targets \in SUBSET Rows
    PROVE  /\ Affected(targets) \subseteq Rows
           /\ Closed(plan.links, targets \cup Affected(targets))
           /\ \A S : (targets \subseteq S /\ Closed(plan.links, S)) => Affected(targets) \subseteq S
<1> DEFINE N == Len(plan.heir)
<1>1. plan.heir \in Seq(Nat) /\ N \in Nat /\ Rows = 1..N
  BY DEF Plans, Rows
<1>2. IsFiniteSet(Rows) /\ Cardinality(Rows) <= N
  <2>1. Cardinality(1..N) = IF 1 > N THEN 0 ELSE N - 1 + 1
    BY <1>1, 1 \in Int, N \in Int, FS_Interval, Zenon
  <2>2. IsFiniteSet(1..N)
    BY <1>1, FS_Interval
  <2> QED
    BY <1>1, <2>1, <2>2
<1>3. Closed(plan.links, Rows)
  BY DEF Closed, Whole, Rows
<1>4. PICK f : Walk(f, targets, plan.links, N) /\ Affected(targets) = f[N] \ targets
  BY <1>1, AffectedIsWalked
<1>5. /\ targets \subseteq f[N] /\ f[N] \subseteq Rows
      /\ Closed(plan.links, f[N])
      /\ \A S : (targets \subseteq S /\ Closed(plan.links, S)) => f[N] \subseteq S
  <2>1. N \in Nat /\ targets \subseteq Rows /\ Walk(f, targets, plan.links, N)
    BY <1>1, <1>4
  <2> HIDE DEF N
  <2>2. targets \subseteq f[N] /\ f[N] \subseteq Rows /\ Closed(plan.links, f[N])
    <3> DEFINE U == Rows
               L == plan.links
    <3>1. /\ IsFiniteSet(U) /\ Cardinality(U) <= N /\ Closed(L, U)
          /\ targets \subseteq U /\ Walk(f, targets, L, N)
      BY <1>2, <1>3, <2>1
    <3> HIDE DEF U, L
    <3>2. targets \subseteq f[N] /\ f[N] \subseteq U /\ Closed(L, f[N])
      BY <2>1, <3>1, WalkIsClosure
    <3> QED
      BY <3>2 DEF U, L
  <2>3. ASSUME NEW S, targets \subseteq S, Closed(plan.links, S) PROVE f[N] \subseteq S
    <3>1. N \in 0..N
      BY <2>1
    <3> QED
      BY <2>1, <2>3, <3>1, WalkStaysInside
  <2> QED
    BY <2>2, <2>3
<1>6. targets \cup Affected(targets) = f[N]
  BY <1>4, <1>5
<1> QED
  BY <1>4, <1>5, <1>6

\* The rows of a kind are listed each once, in order.
LEMMA ItemsOverShape ==
    ASSUME NEW S \in SUBSET Nat, IsFiniteSet(S), NEW kind \in {"target", "affected"}
    PROVE  /\ ItemsOver(kind, S) \in Seq(ItemsOf)
           /\ \A n \in DOMAIN ItemsOver(kind, S) :
                \E r \in S : ItemsOver(kind, S)[n] = Undecided(kind, r)
           /\ \A r \in S : \E n \in DOMAIN ItemsOver(kind, S) :
                ItemsOver(kind, S)[n] = Undecided(kind, r)
<1> DEFINE N == Cardinality(S)
           s == ItemsOver(kind, S)
<1>1. N \in Nat
  BY FS_CardinalityType
<1>2. DOMAIN s = 1..N /\ \A n \in 1..N : s[n] = Undecided(kind, Nth(S, n))
  BY DEF ItemsOver
<1>3. \A n \in 1..N : Nth(S, n) \in S /\ Rank(S, Nth(S, n)) = n
  BY Ranking DEF Nth, Rank
<1>4. \A r \in S : Rank(S, r) \in 1..N /\ Nth(S, Rank(S, r)) = r
  <2> TAKE r \in S
  <2>1. Rank(S, r) \in 1..N
    BY Ranking
  <2>2. Nth(S, Rank(S, r)) \in S /\ Rank(S, Nth(S, Rank(S, r))) = Rank(S, r)
    BY <1>3, <2>1
  <2>3. \A x, y \in S : Rank(S, x) = Rank(S, y) => x = y
    BY Ranking
  <2> HIDE DEF N
  <2> QED
    BY <2>1, <2>2, <2>3
<1>5. \A n \in 1..N : s[n] \in ItemsOf
  <2>1. \A r \in Nat : Undecided(kind, r) \in ItemsOf
    BY DEF Undecided, ItemsOf
  <2>2. \A n \in 1..N : Nth(S, n) \in Nat
    BY <1>3
  <2> HIDE DEF s, N
  <2> QED
    BY <1>2, <2>1, <2>2
<1>6. s \in Seq(ItemsOf)
  <2>1. s = [n \in 1..N |-> s[n]]
    BY DEF ItemsOver
  <2> HIDE DEF s, N
  <2>2. s \in [1..N -> ItemsOf]
    BY <1>5, <2>1
  <2> QED
    BY <1>1, <2>2
<1> QED
  BY <1>2, <1>3, <1>4, <1>6

\* The list of a change: nothing of it is decided; it names the targets, each, and what
\* they touch, each.
Lists(items, targets) ==
    /\ items \in Seq(ItemsOf)
    /\ \A n \in DOMAIN items : items[n].disposition = "none" /\ items[n].applied = 0
    /\ \A n \in DOMAIN items : items[n].kind = "target" => items[n].row \in targets
    /\ \A n \in DOMAIN items : items[n].kind = "affected" => items[n].row \in Affected(targets)
    /\ \A r \in targets : \E n \in DOMAIN items :
          items[n].kind = "target" /\ items[n].row = r
    /\ \A r \in Affected(targets) : \E n \in DOMAIN items :
          items[n].kind = "affected" /\ items[n].row = r

LEMMA ItemsShape ==
    ASSUME plan \in Plans, Whole(plan), NEW targets \in SUBSET Rows, NEW resurfaced \in Nat
    PROVE  Lists(Items(targets, resurfaced), targets)
<1> DEFINE A == Affected(targets)
           s == ItemsOver("target", targets)
           a == ItemsOver("affected", A)
           e == [n \in 1..resurfaced |-> Undecided("resurfaced", 0)]
           items == Items(targets, resurfaced)
<1>1. Rows \subseteq Nat /\ IsFiniteSet(Rows) /\ targets \subseteq Rows
  <2>1. plan.heir \in Seq(Nat)
    BY DEF Plans
  <2>2. Len(plan.heir) \in Nat /\ Rows = 1..Len(plan.heir)
    BY <2>1 DEF Rows
  <2>3. IsFiniteSet(1..Len(plan.heir))
    BY <2>2, FS_Interval
  <2> QED
    BY <2>2, <2>3
<1>2. A \subseteq Rows
  BY AffectedIsClosure
<1>3. /\ targets \in SUBSET Nat /\ IsFiniteSet(targets)
      /\ A \in SUBSET Nat /\ IsFiniteSet(A)
  <2> HIDE DEF A
  <2> QED
    BY <1>1, <1>2, FS_Subset
<1>4. \A k \in {"target", "affected", "resurfaced"} : \A r \in Nat :
        Undecided(k, r) \in ItemsOf /\ Undecided(k, r).kind = k /\ Undecided(k, r).row = r
        /\ Undecided(k, r).disposition = "none" /\ Undecided(k, r).applied = 0
  BY DEF Undecided, ItemsOf
<1>5. /\ s \in Seq(ItemsOf)
      /\ \A n \in DOMAIN s : \E r \in targets : s[n] = Undecided("target", r)
      /\ \A r \in targets : \E n \in DOMAIN s : s[n] = Undecided("target", r)
  <2>1. "target" \in {"target", "affected"}
    OBVIOUS
  <2> QED
    BY <1>3, <2>1, ItemsOverShape
<1>6. /\ a \in Seq(ItemsOf)
      /\ \A n \in DOMAIN a : \E r \in A : a[n] = Undecided("affected", r)
      /\ \A r \in A : \E n \in DOMAIN a : a[n] = Undecided("affected", r)
  <2>1. "affected" \in {"target", "affected"}
    OBVIOUS
  <2> HIDE DEF A
  <2> QED
    BY <1>3, <2>1, ItemsOverShape
<1>7. e \in Seq(ItemsOf) /\ \A n \in DOMAIN e : e[n] = Undecided("resurfaced", 0)
  <2>1. e \in [1..resurfaced -> ItemsOf]
    BY <1>4
  <2>2. e \in Seq(ItemsOf)
    <3> HIDE DEF e
    <3> QED
      BY <2>1
  <2> QED
    BY <2>2
<1>8. items = (s \o a) \o e
  BY DEF Items
<1> HIDE DEF A, s, a, e, items
<1>9. /\ items \in Seq(ItemsOf)
      /\ DOMAIN items = 1..(Len(s) + Len(a) + Len(e))
      /\ \A n \in DOMAIN s : n \in DOMAIN items /\ items[n] = s[n]
      /\ \A n \in DOMAIN a : Len(s) + n \in DOMAIN items /\ items[Len(s) + n] = a[n]
      /\ \A n \in DOMAIN items : \/ n \in DOMAIN s /\ items[n] = s[n]
                                 \/ n - Len(s) \in DOMAIN a /\ items[n] = a[n - Len(s)]
                                 \/ \E m \in DOMAIN e : items[n] = e[m]
  <2>1. /\ Len(s) \in Nat /\ DOMAIN s = 1..Len(s) /\ Len(a) \in Nat /\ DOMAIN a = 1..Len(a)
        /\ Len(e) \in Nat /\ DOMAIN e = 1..Len(e)
    BY <1>5, <1>6, <1>7
  <2>2. /\ s \o a \in Seq(ItemsOf) /\ Len(s \o a) = Len(s) + Len(a)
        /\ \A n \in 1..(Len(s) + Len(a)) :
             (s \o a)[n] = IF n <= Len(s) THEN s[n] ELSE a[n - Len(s)]
    BY <1>5, <1>6, ConcatProperties
  <2> DEFINE sa == s \o a
  <2> HIDE DEF sa
  <2>3. sa \in Seq(ItemsOf) /\ Len(sa) = Len(s) + Len(a)
        /\ \A n \in 1..(Len(s) + Len(a)) :
             sa[n] = IF n <= Len(s) THEN s[n] ELSE a[n - Len(s)]
    BY <2>2 DEF sa
  <2>4. /\ items \in Seq(ItemsOf) /\ Len(items) = Len(s) + Len(a) + Len(e)
        /\ \A n \in 1..(Len(s) + Len(a) + Len(e)) :
             items[n] = IF n <= Len(sa) THEN sa[n] ELSE e[n - Len(sa)]
    BY <1>7, <1>8, <2>3, ConcatProperties DEF sa
  <2>5. DOMAIN items = 1..(Len(s) + Len(a) + Len(e))
    BY <2>4
  <2>6. \A n \in DOMAIN s : n \in DOMAIN items /\ items[n] = s[n]
    BY <2>1, <2>3, <2>4, <2>5
  <2>7. \A n \in DOMAIN a : Len(s) + n \in DOMAIN items /\ items[Len(s) + n] = a[n]
    <3> TAKE n \in DOMAIN a
    <3>1. n \in Nat /\ Len(s) + n \in 1..(Len(s) + Len(a)) /\ ~(Len(s) + n <= Len(s))
          /\ (Len(s) + n) - Len(s) = n
      BY <2>1
    <3> QED
      BY <2>1, <2>3, <2>4, <2>5, <3>1
  <2>8. ASSUME NEW n \in DOMAIN items
        PROVE  \/ n \in DOMAIN s /\ items[n] = s[n]
               \/ n - Len(s) \in DOMAIN a /\ items[n] = a[n - Len(s)]
               \/ \E m \in DOMAIN e : items[n] = e[m]
    <3>1. CASE n <= Len(s)
      BY <3>1, <2>1, <2>3, <2>4, <2>5
    <3>2. CASE n > Len(s) /\ n <= Len(s) + Len(a)
      BY <3>2, <2>1, <2>3, <2>4, <2>5
    <3>3. CASE n > Len(s) + Len(a)
      <4>1. n - Len(sa) \in DOMAIN e /\ items[n] = e[n - Len(sa)]
        BY <3>3, <2>1, <2>3, <2>4, <2>5
      <4> QED
        BY <4>1
    <3> QED
      BY <3>1, <3>2, <3>3, <2>1, <2>5
  <2> QED
    BY <2>4, <2>5, <2>6, <2>7, <2>8
<1>10. ASSUME NEW n \in DOMAIN items
       PROVE  /\ items[n].disposition = "none" /\ items[n].applied = 0
              /\ items[n].kind = "target" => items[n].row \in targets
              /\ items[n].kind = "affected" => items[n].row \in A
  <2>1. \/ \E r \in targets : items[n] = Undecided("target", r)
        \/ \E r \in A : items[n] = Undecided("affected", r)
        \/ items[n] = Undecided("resurfaced", 0)
    <3>1. CASE n \in DOMAIN s /\ items[n] = s[n]
      BY <3>1, <1>5
    <3>2. CASE n - Len(s) \in DOMAIN a /\ items[n] = a[n - Len(s)]
      <4>1. \E r \in A : a[n - Len(s)] = Undecided("affected", r)
        BY <3>2, <1>6
      <4> QED
        BY <3>2, <4>1
    <3>3. CASE \E m \in DOMAIN e : items[n] = e[m]
      BY <3>3, <1>7
    <3> QED
      BY <3>1, <3>2, <3>3, <1>9
  <2> QED
    BY <2>1, <1>3, <1>4
<1>11. \A r \in targets : \E n \in DOMAIN items : items[n].kind = "target" /\ items[n].row = r
  BY <1>3, <1>4, <1>5, <1>9
<1>12. ASSUME NEW r \in A
       PROVE  \E n \in DOMAIN items : items[n].kind = "affected" /\ items[n].row = r
  <2>1. PICK m \in DOMAIN a : a[m] = Undecided("affected", r)
    BY <1>6
  <2>2. Len(s) + m \in DOMAIN items /\ items[Len(s) + m] = Undecided("affected", r)
    BY <1>9, <2>1
  <2>3. r \in Nat
    BY <1>3
  <2> QED
    BY <1>4, <2>2, <2>3
<1>13. Lists(items, targets)
  BY <1>9, <1>10, <1>11, <1>12 DEF A, Lists
<1> QED
  BY <1>13 DEF items

---------------------------------------------------------------------------
(* Steps.                                                                  *)

\* What an edit and a rewind have in common: the plan is whole afterwards, and if it
\* is under revision it was, with what its rows were replaced by.
Edited ==
    /\ plan' \in Plans /\ Whole(plan')
    /\ plan'.state = "revising" =>
          /\ plan.state = "revising" /\ plan'.version = plan.version
          /\ \A r \in Rows : r \in Rows' /\ (plan.heir[r] # 0 => plan'.heir[r] = plan.heir[r])

\* No receipt of a modify is new.
NoModify ==
    \A k \in DOMAIN receipts' :
        receipts'[k] \in Nat /\ (k[1] = "modify" => k \in DOMAIN receipts)

LEMMA EditSettled ==
    ASSUME Shapes, Settled, Edited, UNCHANGED <<snaps, revisions>>
    PROVE  Settled'
<1> USE DEF Settled
<1>1. Whole(plan)'
  BY DEF Edited, Whole
<1>2. SnapshotsAreFinal' /\ RevisionsStand' /\ WalkedInOrder'
  BY DEF SnapshotsAreFinal, RevisionsStand, WalkedInOrder, Whole
<1>3. OneWalk' /\ RevisingHasItsRevision'
  BY DEF OneWalk, RevisingHasItsRevision, Walking, Edited
<1>4. AppliedStands'
  <2> SUFFICES ASSUME plan'.state = "revising", NEW i \in DOMAIN revisions, Walking(i),
                      NEW n \in DOMAIN revisions[i].items, revisions[i].items[n].applied # 0
               PROVE  /\ revisions[i].items[n].row \in Rows'
                      /\ plan'.heir[revisions[i].items[n].row] = revisions[i].items[n].applied
    BY DEF AppliedStands, Walking
  <2>1. /\ revisions[i].items[n].row \in Rows
        /\ plan.heir[revisions[i].items[n].row] = revisions[i].items[n].applied
    BY DEF AppliedStands, Edited
  <2> QED
    BY <2>1 DEF Edited
<1> QED
  BY <1>1, <1>2, <1>3, <1>4

LEMMA EditReceipts ==
    ASSUME Shapes, ReceiptsBehindCursor, ReceiptMeansReplaced, Edited, NoModify,
           UNCHANGED <<snaps, revisions>>
    PROVE  ReceiptsBehindCursor' /\ ReceiptMeansReplaced'
<1>1. ReceiptsBehindCursor'
  BY DEF ReceiptsBehindCursor, NoModify
<1>2. ReceiptMeansReplaced'
  <2> SUFFICES ASSUME plan'.state = "revising", NEW k \in DOMAIN receipts',
                      k[1] = "modify", Presenting(k[2])', k[3] = revisions[k[2]].cursor
               PROVE  Current(k[2])'.row \in Rows' /\ plan'.heir[Current(k[2])'.row] # 0
    BY DEF ReceiptMeansReplaced
  <2>1. k \in DOMAIN receipts /\ Presenting(k[2]) /\ Current(k[2])' = Current(k[2])
    BY DEF NoModify, Presenting, Walking, Current
  <2>2. Current(k[2]).row \in Rows /\ plan.heir[Current(k[2]).row] # 0
    BY <2>1 DEF ReceiptMeansReplaced, Edited
  <2> QED
    BY <2>1, <2>2 DEF Edited
<1> QED
  BY <1>1, <1>2

\* Any edit, any rewind, and what a crash leaves.
LEMMA EditKeepsInv ==
    ASSUME Inv, Edited, NoModify, UNCHANGED <<snaps, revisions>>,
           nextConflict' \in Nat, call' = NoCall
    PROVE  Inv'
<1>1. Settled'
  BY EditSettled DEF Inv
<1>2. ReceiptsBehindCursor' /\ ReceiptMeansReplaced'
  BY EditReceipts DEF Inv, UnderWay
<1>3. OpenUnderWay' /\ ModifyUnderWay' /\ AbandonUnderWay'
  BY DEF NoCall, OpenUnderWay, ModifyUnderWay, AbandonUnderWay
<1>4. Shapes'
  BY DEF Inv, Shapes, Edited, NoModify, Calls
<1> QED
  BY <1>1, <1>2, <1>3, <1>4 DEF Inv, UnderWay

\* A call writes its receipt over none of a modify's.
LEMMA RecordedShape ==
    ASSUME Shapes, NEW key, NEW made \in Nat, Recorded(key, made)
    PROVE  /\ DOMAIN receipts' = DOMAIN receipts \cup {key}
           /\ \A k \in DOMAIN receipts' : receipts'[k] \in Nat
BY DEF Recorded, Shapes

\* A new row is last, rests on rows there are, and is superseded by none.
LEMMA SubmitKeeps == ASSUME Inv, NEW targets \in SUBSET Rows, SubmitRow(targets) PROVE Inv'
<1> DEFINE h == plan.heir
<1>1. h \in Seq(Nat) /\ IsList(h) /\ Len(h) \in Nat /\ DOMAIN h = 1..Len(h)
  <2>1. h \in Seq(Nat)
    BY DEF Inv, Shapes, Plans
  <2> QED
    BY <2>1 DEF IsList
<1>2. /\ plan'.heir = Append(h, 0) /\ plan'.state = plan.state
      /\ plan'.version = plan.version /\ plan'.conflicts = plan.conflicts
      /\ plan'.links = plan.links \cup ({Len(h) + 1} \X targets)
  BY DEF SubmitRow, Inv, Shapes, Plans
<1>3. /\ Len(plan'.heir) = Len(h) + 1 /\ DOMAIN plan'.heir = DOMAIN h \cup {Len(h) + 1}
      /\ \A q \in DOMAIN h : plan'.heir[q] = h[q]
      /\ plan'.heir[Len(h) + 1] = 0 /\ plan'.heir \in Seq(Nat)
  <2>1. Append(h, 0) \in Seq(Nat)
    BY <1>1
  <2> HIDE DEF h
  <2> QED
    BY <1>1, <1>2, <2>1, ListAppend
<1>4. plan.links \subseteq (DOMAIN h) \X (DOMAIN h) /\ \A c \in plan.conflicts : c.row \in DOMAIN h
  BY DEF Inv, Settled, Whole
<1>5. plan'.links \subseteq (DOMAIN plan'.heir) \X (DOMAIN plan'.heir)
  <2>1. targets \subseteq DOMAIN h
    BY DEF Rows
  <2> HIDE DEF h
  <2> QED
    BY <1>2, <1>3, <1>4, <2>1
<1>6. DOMAIN plan'.heir \subseteq Nat
  BY <1>3
<1>7. plan' \in Plans
  <2>1. plan' = [plan EXCEPT !.heir = plan'.heir, !.links = plan'.links]
    BY <1>2 DEF SubmitRow, Inv, Shapes, Plans
  <2>2. plan'.links \in SUBSET (Nat \X Nat)
    BY <1>5, <1>6
  <2> QED
    BY <1>3, <2>1, <2>2 DEF Inv, Shapes, Plans
<1>8. \A q \in DOMAIN plan'.heir : plan'.heir[q] = 0 \/ plan'.heir[q] \in (q + 1)..Len(plan'.heir)
  <2> TAKE q \in DOMAIN plan'.heir
  <2>1. CASE q \in DOMAIN h
    <3>1. h[q] = 0 \/ h[q] \in (q + 1)..Len(h)
      BY <2>1 DEF Inv, Settled, Whole
    <3> HIDE DEF h
    <3> QED
      BY <3>1, <2>1, <1>1, <1>3
  <2>2. CASE q = Len(h) + 1
    BY <2>2, <1>3
  <2> QED
    BY <2>1, <2>2, <1>3
<1>9. Whole(plan')
  BY <1>2, <1>3, <1>4, <1>5, <1>8 DEF Whole
<1>10. Edited
  BY <1>2, <1>3, <1>7, <1>9 DEF Edited, Rows
<1> QED
  BY <1>10, EditKeepsInv DEF SubmitRow, Idle, NoModify, Inv, Shapes

LEMMA SupersedeKeeps == ASSUME Inv, NEW r \in Rows, SupersedeRow(r) PROVE Inv'
<1>1. Edited
  BY SupersededShape DEF SupersedeRow, Inv, Shapes, Settled, Edited
<1> QED
  BY <1>1, EditKeepsInv DEF SupersedeRow, Idle, NoModify, Inv, Shapes

LEMMA FinalizeKeeps == ASSUME Inv, FinalizePlan PROVE Inv'
<1>1. /\ plan' \in Plans /\ plan'.state = "finalized" /\ plan'.heir = plan.heir
      /\ plan'.links = plan.links /\ plan'.conflicts = plan.conflicts
  BY DEF FinalizePlan, Inv, Shapes, Plans, States
<1>2. Edited
  BY <1>1 DEF Edited, Inv, Settled, Whole
<1> QED
  BY <1>2, EditKeepsInv DEF FinalizePlan, Idle, NoModify, Inv, Shapes

\* Raising and resolving change the conflicts, and only over rows there are.
LEMMA ConflictsEdited ==
    ASSUME Inv, NEW C \in SUBSET [id : Nat, row : Nat, open : BOOLEAN],
           \A c \in C : c.row \in Rows, plan' = [plan EXCEPT !.conflicts = C]
    PROVE  Edited
<1>1. /\ plan' \in Plans /\ plan'.state = plan.state /\ plan'.version = plan.version
      /\ plan'.heir = plan.heir /\ plan'.links = plan.links /\ plan'.conflicts = C
  BY DEF Inv, Shapes, Plans
<1>2. Whole(plan')
  BY <1>1 DEF Inv, Settled, Whole, Rows
<1> QED
  BY <1>1, <1>2 DEF Edited, Rows

LEMMA RaiseKeeps == ASSUME Inv, NEW dispute \in Disputes, RaiseConflict(dispute) PROVE Inv'
<1> DEFINE c == [id |-> nextConflict, row |-> dispute.row, open |-> TRUE]
           C == plan.conflicts \cup {c}
<1>1. nextConflict \in Nat /\ plan.conflicts \subseteq [id : Nat, row : Nat, open : BOOLEAN]
  BY DEF Inv, Shapes, Plans
<1>2. c \in [id : Nat, row : Nat, open : BOOLEAN] /\ c.row \in Rows
  BY <1>1, DisputesAreOverRows DEF RaiseConflict
<1>3. \A d \in plan.conflicts : d.row \in Rows
  BY DEF Inv, Settled, Whole, Rows
<1>4. plan' = [plan EXCEPT !.conflicts = C]
  BY DEF RaiseConflict
<1>5. Edited
  <2> HIDE DEF c
  <2> QED
    BY <1>1, <1>2, <1>3, <1>4, ConflictsEdited
<1>6. NoModify
  <2>1. DOMAIN receipts' = DOMAIN receipts \cup {<<"conflict", dispute>>}
    BY <1>1, RecordedShape DEF RaiseConflict, Inv
  <2>2. \A k \in DOMAIN receipts' : receipts'[k] \in Nat
    BY <1>1, RecordedShape DEF RaiseConflict, Inv
  <2> QED
    BY <2>1, <2>2 DEF NoModify
<1>7. UNCHANGED <<snaps, revisions>> /\ nextConflict' \in Nat /\ call' = NoCall
  BY <1>1 DEF RaiseConflict, Idle
<1> QED
  BY <1>5, <1>6, <1>7, EditKeepsInv

LEMMA ResolveKeeps == ASSUME Inv, NEW c \in plan.conflicts, ResolveConflict(c) PROVE Inv'
<1> DEFINE d == [c EXCEPT !.open = FALSE]
           C == (plan.conflicts \ {c}) \cup {d}
<1>1. plan.conflicts \subseteq [id : Nat, row : Nat, open : BOOLEAN]
  BY DEF Inv, Shapes, Plans
<1>2. \A x \in plan.conflicts : x.row \in Rows
  BY DEF Inv, Settled, Whole, Rows
<1>3. d \in [id : Nat, row : Nat, open : BOOLEAN] /\ d.row \in Rows
  BY <1>1, <1>2
<1>4. plan' = [plan EXCEPT !.conflicts = C]
  BY DEF ResolveConflict
<1>5. Edited
  <2> HIDE DEF d
  <2> QED
    BY <1>1, <1>2, <1>3, <1>4, ConflictsEdited
<1>6. NoModify
  <2>0. c.id \in Nat
    BY <1>1
  <2>1. DOMAIN receipts' = DOMAIN receipts \cup {<<"resolve", c.id>>}
    BY <2>0, RecordedShape DEF ResolveConflict, Inv
  <2>2. \A k \in DOMAIN receipts' : receipts'[k] \in Nat
    BY <2>0, RecordedShape DEF ResolveConflict, Inv
  <2> QED
    BY <2>1, <2>2 DEF NoModify
<1>7. UNCHANGED <<snaps, revisions>> /\ nextConflict' \in Nat /\ call' = NoCall
  BY DEF ResolveConflict, Idle, Inv, Shapes
<1> QED
  BY <1>5, <1>6, <1>7, EditKeepsInv

LEMMA RecoverKeeps == ASSUME Inv, Recover PROVE Inv'
<1>1. Len(snaps) \in DOMAIN snaps
  BY DEF Recover, Inv, Shapes
<1>2. plan' \in Plans /\ Whole(plan') /\ plan'.state = "finalized"
  BY <1>1, PartsTyped DEF Recover, Rewound, Inv, Settled, SnapshotsAreFinal
<1>3. Edited
  BY <1>2 DEF Edited
<1> QED
  BY <1>3, EditKeepsInv DEF Recover, Idle, NoModify, Inv, Shapes

LEMMA CrashKeeps == ASSUME Inv, Crash PROVE Inv'
<1>1. Edited
  BY DEF Crash, Edited, Inv, Shapes, Settled, Rows, Whole
<1> QED
  BY <1>1, EditKeepsInv DEF Crash, NoModify, Inv, Shapes

\* A snapshot is the plan, which is finalized.
LEMMA OpenKeeps == ASSUME Inv, NEW targets \in SUBSET Rows, OpenRevision(targets) PROVE Inv'
<1>1. /\ snaps \in Seq(Plans) /\ plan \in Plans /\ snaps' = Append(snaps, plan)
      /\ plan' = plan /\ revisions' = revisions /\ receipts' = receipts
      /\ nextConflict' = nextConflict
  BY DEF OpenRevision, TakeSnapshot, Inv, Shapes
<1>2. /\ snaps' \in Seq(Plans) /\ Len(snaps') = Len(snaps) + 1 /\ Len(snaps) \in Nat
      /\ DOMAIN snaps' = DOMAIN snaps \cup {Len(snaps) + 1}
      /\ \A n \in DOMAIN snaps : snaps'[n] = snaps[n]
      /\ snaps'[Len(snaps) + 1] = plan
  BY <1>1, ListAppend DEF IsList
<1>3. SnapshotsAreFinal'
  BY <1>2 DEF OpenRevision, Inv, Settled, SnapshotsAreFinal, Whole
<1>4. RevisionsStand' /\ OneWalk' /\ WalkedInOrder' /\ RevisingHasItsRevision' /\ AppliedStands'
  BY <1>1, <1>2 DEF Inv, Settled, RevisionsStand, OneWalk, WalkedInOrder,
                    RevisingHasItsRevision, AppliedStands, Walking, Rows
<1>5. Settled'
  BY <1>1, <1>3, <1>4 DEF Inv, Settled, Whole
<1>6. ReceiptsBehindCursor' /\ ReceiptMeansReplaced'
  BY <1>1 DEF Inv, UnderWay, ReceiptsBehindCursor, ReceiptMeansReplaced,
              Presenting, Walking, Current, Rows
<1>7. call' = [step |-> "open", targets |-> targets] /\ targets \subseteq Live /\ targets # {}
  BY DEF OpenRevision
<1>8. OpenUnderWay'
  <2>1. snaps' # <<>> /\ snaps'[Len(snaps')] = plan'
    BY <1>1, <1>2
  <2> QED
    BY <1>1, <1>7, <2>1 DEF OpenRevision, OpenUnderWay, Walking, Live, Rows
<1>9. ModifyUnderWay' /\ AbandonUnderWay'
  BY <1>7 DEF ModifyUnderWay, AbandonUnderWay
<1>10. Shapes'
  <2>1. Rows \subseteq Nat
    BY <1>1 DEF Plans, Rows
  <2>2. call' \in Calls
    BY <1>7, <2>1 DEF Calls
  <2> QED
    BY <1>1, <1>2, <2>2 DEF Inv, Shapes
<1> QED
  BY <1>5, <1>6, <1>8, <1>9, <1>10 DEF Inv, UnderWay

\* A revision is new, and the only one under way.
LEMMA StoreShape ==
    ASSUME Inv, StoreRevision
    PROVE  \E rev \in Revisions :
              /\ rev.snapshot = Len(snaps) /\ rev.to = plan.version + 1
              /\ rev.state = "walkthrough" /\ rev.cursor = 0
              /\ Lists(rev.items, call.targets)
              /\ revisions' = Append(revisions, rev)
<1>1. PICK resurfaced \in Resurfaced :
        revisions' = Append(revisions,
            [snapshot |-> Len(snaps), from |-> plan.version, to |-> plan.version + 1,
             state |-> "walkthrough", cursor |-> 0,
             items |-> Items(call.targets, resurfaced)])
  BY DEF StoreRevision
<1>2. resurfaced \in Nat
  BY CountsAreNumbers
<1>3. call.targets \subseteq Live /\ Live \subseteq Rows
  BY DEF StoreRevision, Inv, UnderWay, OpenUnderWay, Live
<1> DEFINE items == Items(call.targets, resurfaced)
           rev == [snapshot |-> Len(snaps), from |-> plan.version, to |-> plan.version + 1,
                   state |-> "walkthrough", cursor |-> 0, items |-> items]
<1>4. Lists(items, call.targets) /\ items \in Seq(ItemsOf)
  <2>1. plan \in Plans /\ Whole(plan) /\ call.targets \in SUBSET Rows
    BY <1>3 DEF Inv, Shapes, Settled
  <2>2. Lists(items, call.targets)
    BY <1>2, <2>1, ItemsShape
  <2> QED
    BY <2>2 DEF Lists
<1>5. plan.version \in Nat /\ Len(snaps) \in Nat
  BY DEF Inv, Shapes, Plans
<1>6. rev \in Revisions
  <2> HIDE DEF items
  <2> QED
    BY <1>4, <1>5 DEF Revisions
<1> QED
  BY <1>1, <1>4, <1>6

LEMMA StoreKeeps == ASSUME Inv, StoreRevision PROVE Inv'
<1>1. PICK rev \in Revisions :
              /\ rev.snapshot = Len(snaps) /\ rev.to = plan.version + 1
              /\ rev.state = "walkthrough" /\ rev.cursor = 0
              /\ Lists(rev.items, call.targets)
              /\ revisions' = Append(revisions, rev)
  BY StoreShape
<1>2. call.targets \subseteq Live /\ Live \subseteq Rows /\ snaps # <<>>
      /\ \A i \in DOMAIN revisions : ~Walking(i)
  BY DEF StoreRevision, Inv, UnderWay, OpenUnderWay, Live
<1>3. /\ rev.items \in Seq(ItemsOf) /\ Len(rev.items) \in Nat
      /\ \A n \in DOMAIN rev.items :
            rev.items[n].disposition = "none" /\ rev.items[n].applied = 0
  BY <1>1 DEF Lists
<1>4. /\ plan' \in Plans /\ plan'.state = "revising" /\ plan'.version = plan.version + 1
      /\ plan'.heir = plan.heir /\ plan'.links = plan.links /\ plan'.conflicts = plan.conflicts
  <2>1. plan' = [plan EXCEPT !.state = "revising", !.version = @ + 1] /\ plan \in Plans
    BY DEF StoreRevision, Inv, Shapes
  <2>2. plan.version + 1 \in Nat /\ "revising" \in States
    BY <2>1 DEF Plans, States
  <2>3. /\ plan'.state = "revising" /\ plan'.version = plan.version + 1
        /\ plan'.heir = plan.heir /\ plan'.links = plan.links
        /\ plan'.conflicts = plan.conflicts
    BY <2>1 DEF Plans
  <2>4. plan' \in Plans
    BY <2>1, <2>2 DEF Plans
  <2> QED
    BY <2>3, <2>4
<1>5. snaps' = snaps /\ receipts' = receipts /\ nextConflict' = nextConflict /\ call' = NoCall
  BY DEF StoreRevision
<1>0. PICK last \in Nat : last = Len(revisions) + 1
  BY DEF Inv, Shapes
<1>6. /\ revisions' \in Seq(Revisions) /\ Len(revisions) \in Nat
      /\ DOMAIN revisions = 1..Len(revisions) /\ DOMAIN revisions' = DOMAIN revisions \cup {last}
      /\ \A i \in DOMAIN revisions : revisions'[i] = revisions[i]
      /\ revisions'[last] = rev
  <2>1. revisions \in Seq(Revisions)
    BY DEF Inv, Shapes
  <2>2. IsList(revisions)
    BY <2>1 DEF IsList
  <2> QED
    BY <1>0, <1>1, <2>1, <2>2, ListAppend
<1>7. Walking(last)' /\ \A i \in DOMAIN revisions : Walking(i)' <=> Walking(i)
  BY <1>1, <1>6 DEF Walking
<1>8. Whole(plan)' /\ SnapshotsAreFinal'
  BY <1>4, <1>5 DEF Inv, Settled, Whole, SnapshotsAreFinal
<1>9. RevisionsStand'
  <2>1. Len(snaps) \in DOMAIN snaps
    BY <1>2 DEF Inv, Shapes
  <2> QED
    BY <1>1, <1>3, <1>5, <1>6, <2>1 DEF Inv, Settled, RevisionsStand
<1>10. OneWalk' /\ RevisingHasItsRevision'
  BY <1>1, <1>2, <1>4, <1>6, <1>7 DEF OneWalk, RevisingHasItsRevision
<1>11. WalkedInOrder'
  <2>1. \A n \in DOMAIN rev.items : ~(n <= 0)
    BY <1>3
  <2> QED
    BY <1>1, <1>3, <1>6, <2>1 DEF Inv, Settled, WalkedInOrder
<1>12. AppliedStands'
  BY <1>2, <1>3, <1>6, <1>7 DEF AppliedStands
<1>13. Settled'
  BY <1>8, <1>9, <1>10, <1>11, <1>12 DEF Settled
<1>14. ReceiptsBehindCursor'
  BY <1>5, <1>6 DEF Inv, UnderWay, ReceiptsBehindCursor
<1>15. ReceiptMeansReplaced'
  BY <1>2, <1>5, <1>7 DEF Inv, UnderWay, ReceiptsBehindCursor, ReceiptMeansReplaced, Presenting
<1>16. OpenUnderWay' /\ ModifyUnderWay' /\ AbandonUnderWay'
  BY <1>5 DEF NoCall, OpenUnderWay, ModifyUnderWay, AbandonUnderWay
<1>17. Shapes'
  BY <1>4, <1>5, <1>6 DEF Inv, Shapes, Calls
<1> QED
  BY <1>13, <1>14, <1>15, <1>16, <1>17 DEF Inv, UnderWay

\* A decision on the current item of i, with the row there if it was modified.
LEMMA DecideKeeps ==
    ASSUME Inv, NEW i \in DOMAIN revisions, Presenting(i),
           NEW disposition \in {"keep", "modify"}, NEW new \in Nat,
           plan.state = "revising" /\ new # 0 =>
               Current(i).row \in Rows /\ plan.heir[Current(i).row] = new,
           revisions' = Decided(i, disposition, new),
           UNCHANGED <<plan, snaps, nextConflict, receipts>>, call' = NoCall
    PROVE  Inv'
<1> DEFINE at == revisions[i].cursor + 1
<1>1. /\ revisions[i].cursor \in Nat /\ Len(revisions[i].items) \in Nat
      /\ DOMAIN revisions[i].items = 1..Len(revisions[i].items)
      /\ revisions[i].cursor < Len(revisions[i].items)
  BY PartsTyped, ListShape DEF Inv, Presenting
<1>2. /\ revisions' \in Seq(Revisions) /\ DOMAIN revisions' = DOMAIN revisions
      /\ \A j \in DOMAIN revisions : j # i => revisions'[j] = revisions[j]
      /\ revisions'[i].snapshot = revisions[i].snapshot
      /\ revisions'[i].to = revisions[i].to /\ revisions'[i].state = revisions[i].state
      /\ revisions'[i].cursor = at
      /\ revisions'[i].items \in Seq(ItemsOf)
      /\ Len(revisions'[i].items) = Len(revisions[i].items)
      /\ \A n \in DOMAIN revisions[i].items :
           /\ revisions'[i].items[n].row = revisions[i].items[n].row
           /\ n # at => revisions'[i].items[n] = revisions[i].items[n]
      /\ revisions'[i].items[at].disposition = disposition
      /\ revisions'[i].items[at].applied = new
  <2>1. Advanced(revisions', i, disposition, new)
    BY <1>1, DecidedShape DEF Inv, Shapes
  <2> QED
    BY <2>1 DEF Advanced
<1>3. Shapes'
  BY <1>2 DEF Inv, Shapes, Calls
<1>4. /\ DOMAIN revisions'[i].items = DOMAIN revisions[i].items
      /\ at \in DOMAIN revisions[i].items /\ at \in Nat /\ at <= Len(revisions[i].items)
  <2>1. IsList(revisions'[i].items)
    BY <1>2 DEF IsList
  <2>2. DOMAIN revisions'[i].items = 1..Len(revisions'[i].items)
    BY <2>1, ListShape
  <2> QED
    BY <1>1, <1>2, <2>2
<1> HIDE DEF at
<1>5. \A j \in DOMAIN revisions :
        /\ Walking(j)' <=> Walking(j)
        /\ revisions'[j].snapshot = revisions[j].snapshot
        /\ revisions'[j].to = revisions[j].to
  BY <1>2 DEF Walking
<1>6. RevisionsStand' /\ OneWalk' /\ RevisingHasItsRevision'
  BY <1>2, <1>4, <1>5 DEF Inv, Settled, RevisionsStand, OneWalk, RevisingHasItsRevision
<1>7. WalkedInOrder'
  <2> SUFFICES ASSUME NEW j \in DOMAIN revisions, NEW n \in DOMAIN revisions'[j].items
               PROVE  revisions'[j].items[n].disposition # "none" <=> n <= revisions'[j].cursor
    BY <1>2 DEF WalkedInOrder
  <2>1. CASE j # i
    BY <2>1, <1>2 DEF Inv, Settled, WalkedInOrder
  <2>2. CASE j = i /\ n = at
    BY <2>2, <1>2, <1>4
  <2>3. CASE j = i /\ n # at
    <3>1. n \in DOMAIN revisions[i].items /\ n \in Nat
      BY <2>3, <1>1, <1>4
    <3>2. revisions[i].items[n].disposition # "none" <=> n <= revisions[i].cursor
      BY <3>1 DEF Inv, Settled, WalkedInOrder
    <3>3. n <= revisions[i].cursor <=> n <= at
      BY <2>3, <3>1, <1>1 DEF at
    <3> QED
      BY <2>3, <3>1, <3>2, <3>3, <1>2
  <2> QED
    BY <2>1, <2>2, <2>3
<1>8. AppliedStands'
  <2> SUFFICES ASSUME plan.state = "revising", NEW j \in DOMAIN revisions, Walking(j),
                      NEW n \in DOMAIN revisions'[j].items, revisions'[j].items[n].applied # 0
               PROVE  /\ revisions'[j].items[n].row \in Rows
                      /\ plan.heir[revisions'[j].items[n].row] = revisions'[j].items[n].applied
    BY <1>2, <1>5 DEF AppliedStands, Rows
  <2>1. CASE j = i /\ n = at
    BY <2>1, <1>2, <1>4 DEF Current, at
  <2>2. CASE ~(j = i /\ n = at)
    <3>1. n \in DOMAIN revisions[j].items /\ revisions'[j].items[n] = revisions[j].items[n]
      BY <2>2, <1>2, <1>4
    <3> QED
      BY <3>1 DEF Inv, Settled, AppliedStands
  <2> QED
    BY <2>1, <2>2
<1>9. Settled'
  BY <1>6, <1>7, <1>8 DEF Inv, Settled, Whole, SnapshotsAreFinal
<1>10. ReceiptsBehindCursor'
  <2>1. revisions[i].cursor <= at
    BY <1>1 DEF at
  <2> SUFFICES ASSUME NEW k \in DOMAIN receipts, k[1] = "modify"
               PROVE  k[2] \in DOMAIN revisions' /\ k[3] \in Nat /\ k[3] <= revisions'[k[2]].cursor
    BY DEF ReceiptsBehindCursor
  <2>2. k[2] \in DOMAIN revisions /\ k[3] \in Nat /\ k[3] <= revisions[k[2]].cursor
    BY DEF Inv, UnderWay, ReceiptsBehindCursor
  <2>3. CASE k[2] = i
    <3>1. revisions'[k[2]].cursor = at /\ revisions[k[2]].cursor \in Nat
      BY <2>3, <1>1, <1>2
    <3> QED
      BY <2>1, <2>2, <2>3, <3>1, <1>2, <1>4
  <2>4. CASE k[2] # i
    BY <2>2, <2>4, <1>2
  <2> QED
    BY <2>3, <2>4
<1>11. ReceiptMeansReplaced'
  <2> SUFFICES ASSUME plan.state = "revising", NEW k \in DOMAIN receipts, k[1] = "modify",
                      Presenting(k[2])', k[3] = revisions'[k[2]].cursor
               PROVE  Current(k[2])'.row \in Rows /\ plan.heir[Current(k[2])'.row] # 0
    BY DEF ReceiptMeansReplaced, Rows
  <2>1. k[2] \in DOMAIN revisions /\ k[3] \in Nat /\ k[3] <= revisions[k[2]].cursor
    BY DEF Inv, UnderWay, ReceiptsBehindCursor
  <2>2. k[2] # i
    BY <2>1, <1>1, <1>2 DEF at
  <2>3. revisions'[k[2]] = revisions[k[2]]
    BY <2>1, <2>2, <1>2
  <2>4. Presenting(k[2]) /\ Current(k[2])' = Current(k[2]) /\ k[3] = revisions[k[2]].cursor
    BY <2>3 DEF Presenting, Walking, Current
  <2> QED
    BY <2>4 DEF Inv, UnderWay, ReceiptMeansReplaced
<1>12. OpenUnderWay' /\ ModifyUnderWay' /\ AbandonUnderWay'
  BY DEF NoCall, OpenUnderWay, ModifyUnderWay, AbandonUnderWay
<1> QED
  BY <1>3, <1>9, <1>10, <1>11, <1>12 DEF Inv, UnderWay

LEMMA KeepKeeps == ASSUME Inv, NEW i \in DOMAIN revisions, KeepItem(i) PROVE Inv'
  BY DecideKeeps DEF KeepItem, Idle

LEMMA RecordKeeps == ASSUME Inv, RecordModify PROVE Inv'
<1>1. call.of \in DOMAIN revisions /\ Presenting(call.of)
  BY DEF RecordModify, Inv, UnderWay, ModifyUnderWay
<1>2. call.new \in Nat
  BY DEF RecordModify, Inv, Shapes, Calls, NoCall
<1>3. plan.state = "revising" =>
         Current(call.of).row \in Rows /\ plan.heir[Current(call.of).row] = call.new
  BY DEF RecordModify, Inv, UnderWay, ModifyUnderWay
<1>4. PICK i \in DOMAIN revisions, new \in Nat : i = call.of /\ new = call.new
  BY <1>1, <1>2
<1>5. revisions' = Decided(i, "modify", new)
  BY <1>4 DEF RecordModify
<1> QED
  BY <1>1, <1>3, <1>4, <1>5, DecideKeeps DEF RecordModify

\* A modify that is not answered from a receipt replaces the current row: what is
\* answered from one has been superseded, unless the plan is no longer under revision.
LEMMA ModifyKeeps ==
    ASSUME Inv, NEW i \in DOMAIN revisions, NEW wording \in Wordings, ModifyItem(i, wording)
    PROVE  Inv'
<1> DEFINE r == Current(i).row
           k == <<"modify", i, revisions[i].cursor, wording>>
<1>1. Presenting(i) /\ r \in Live /\ UNCHANGED <<snaps, revisions, nextConflict>>
  BY DEF ModifyItem
<1>2. revisions[i].cursor \in Nat /\ DOMAIN revisions \subseteq Nat
  BY PartsTyped DEF Inv, Shapes
<1>3. k[1] = "modify" /\ k[2] = i /\ k[3] = revisions[i].cursor
  OBVIOUS
<1>4. CASE k \in DOMAIN receipts
  <2>1. UNCHANGED <<plan, receipts>> /\ call' = [step |-> "record", of |-> i, new |-> receipts[k]]
    BY <1>4 DEF ModifyItem
  <2>2. receipts[k] \in Nat
    BY <1>4 DEF Inv, Shapes
  <2>3. Edited
    BY <2>1 DEF Edited, Inv, Shapes, Settled, Rows, Whole
  <2>4. NoModify
    BY <2>1 DEF NoModify, Inv, Shapes
  <2>5. Settled' /\ ReceiptsBehindCursor' /\ ReceiptMeansReplaced'
    BY <1>1, <2>3, <2>4, EditSettled, EditReceipts DEF Inv, UnderWay
  <2>6. plan.state # "revising"
    <3>1. plan.state = "revising" => plan.heir[r] # 0
      BY <1>1, <1>3, <1>4 DEF Inv, UnderWay, ReceiptMeansReplaced
    <3> QED
      BY <1>1, <3>1 DEF Live
  <2>7. ModifyUnderWay' /\ OpenUnderWay' /\ AbandonUnderWay'
    BY <1>1, <2>1, <2>6 DEF ModifyUnderWay, OpenUnderWay, AbandonUnderWay, Presenting, Walking
  <2>8. Shapes'
    <3>1. call' \in Calls
      BY <1>2, <2>1, <2>2 DEF Calls
    <3> QED
      BY <1>1, <2>1, <3>1 DEF Inv, Shapes
  <2> QED
    BY <2>5, <2>7, <2>8 DEF Inv, UnderWay
<1>5. CASE k \notin DOMAIN receipts
  <2>1. PICK new \in Nat : new = Len(plan.heir) + 1
    BY DEF Inv, Shapes, Plans
  <2>2. /\ plan' = [plan EXCEPT !.heir = Superseded(r)] /\ Recorded(k, new)
        /\ call' = [step |-> "record", of |-> i, new |-> new]
    BY <1>5, <2>1 DEF ModifyItem
  <2>3. /\ plan' \in Plans /\ Whole(plan')
        /\ plan'.state = plan.state /\ plan'.version = plan.version
        /\ \A q \in Rows : q \in Rows' /\ (plan.heir[q] # 0 => plan'.heir[q] = plan.heir[q])
        /\ plan'.heir[r] = new
    BY <1>1, <2>1, <2>2, SupersededShape DEF Inv, Shapes, Settled
  <2>4. Edited
    BY <2>3 DEF Edited
  <2>5. Settled'
    BY <1>1, <2>4, EditSettled DEF Inv
  <2>6. /\ DOMAIN receipts' = DOMAIN receipts \cup {k}
        /\ \A x \in DOMAIN receipts' : receipts'[x] \in Nat
    BY <2>2, RecordedShape DEF Inv
  <2>7. r \in Rows /\ r \in Rows' /\ new # 0
    BY <1>1, <2>1, <2>3 DEF Live, Inv, Shapes, Plans
  <2>8. Presenting(i)' /\ Current(i)' = Current(i)
    BY <1>1 DEF Presenting, Walking, Current
  <2>9. ReceiptsBehindCursor'
    <3> SUFFICES ASSUME NEW x \in DOMAIN receipts', x[1] = "modify"
                 PROVE  x[2] \in DOMAIN revisions /\ x[3] \in Nat /\ x[3] <= revisions[x[2]].cursor
      BY <1>1 DEF ReceiptsBehindCursor
    <3>1. CASE x = k
      BY <3>1, <1>2, <1>3
    <3>2. CASE x \in DOMAIN receipts
      BY <3>2 DEF Inv, UnderWay, ReceiptsBehindCursor
    <3> QED
      BY <3>1, <3>2, <2>6
  <2>10. ReceiptMeansReplaced'
    <3> SUFFICES ASSUME plan'.state = "revising", NEW x \in DOMAIN receipts', x[1] = "modify",
                        Presenting(x[2])', x[3] = revisions'[x[2]].cursor
                 PROVE  Current(x[2])'.row \in Rows' /\ plan'.heir[Current(x[2])'.row] # 0
      BY DEF ReceiptMeansReplaced
    <3>1. CASE x = k
      BY <3>1, <1>3, <2>3, <2>7, <2>8
    <3>2. CASE x \in DOMAIN receipts
      <4>1. Presenting(x[2]) /\ Current(x[2])' = Current(x[2])
        BY <1>1 DEF Presenting, Walking, Current
      <4>2. Current(x[2]).row \in Rows /\ plan.heir[Current(x[2]).row] # 0
        BY <3>2, <4>1, <1>1, <2>3 DEF Inv, UnderWay, ReceiptMeansReplaced
      <4> QED
        BY <4>1, <4>2, <2>3
    <3> QED
      BY <3>1, <3>2, <2>6
  <2>11. ModifyUnderWay' /\ OpenUnderWay' /\ AbandonUnderWay'
    <3>1. call'.step = "record" /\ call'.of = i /\ call'.new = new
      BY <2>2
    <3> QED
      BY <3>1, <1>1, <2>3, <2>7, <2>8 DEF ModifyUnderWay, OpenUnderWay, AbandonUnderWay
  <2>12. Shapes'
    <3>1. call' \in Calls
      BY <1>2, <2>1, <2>2 DEF Calls
    <3> QED
      BY <1>1, <2>3, <2>6, <3>1 DEF Inv, Shapes
  <2> QED
    BY <2>5, <2>9, <2>10, <2>11, <2>12 DEF Inv, UnderWay
<1> QED
  BY <1>4, <1>5

\* A revision that ends leaves a finalized plan, and no other revision.
LEMMA EndKeeps ==
    ASSUME Inv, NEW i \in DOMAIN revisions, NEW over \in {"applied", "abandoned"},
           revisions' = [revisions EXCEPT ![i].state = over],
           plan' \in Plans, Whole(plan'), plan'.state = "finalized",
           UNCHANGED <<snaps, nextConflict, receipts>>, call' = NoCall
    PROVE  Inv'
<1> DEFINE rev == [revisions[i] EXCEPT !.state = over]
<1>1. revisions[i] \in Revisions /\ revisions \in Seq(Revisions)
  BY PartsTyped DEF Inv, Shapes
<1>2. /\ rev \in Revisions /\ rev.state = over /\ rev.snapshot = revisions[i].snapshot
      /\ rev.cursor = revisions[i].cursor /\ rev.items = revisions[i].items
  BY <1>1 DEF Revisions
<1>3. /\ revisions' \in Seq(Revisions) /\ DOMAIN revisions' = DOMAIN revisions
      /\ \A j \in DOMAIN revisions : revisions'[j] = IF j = i THEN rev ELSE revisions[j]
  <2>1. revisions' = [revisions EXCEPT ![i] = rev]
    OBVIOUS
  <2> HIDE DEF rev
  <2> QED
    BY <1>1, <1>2, <2>1, ExceptSeq
<1> HIDE DEF rev
<1>4. \A j \in DOMAIN revisions :
        /\ revisions'[j].snapshot = revisions[j].snapshot
        /\ revisions'[j].cursor = revisions[j].cursor
        /\ revisions'[j].items = revisions[j].items
        /\ Walking(j)' => Walking(j)
  BY <1>2, <1>3 DEF Walking
<1>5. Settled'
  BY <1>3, <1>4 DEF Inv, Settled, Whole, SnapshotsAreFinal, RevisionsStand, OneWalk,
                    WalkedInOrder, RevisingHasItsRevision, AppliedStands
<1>6. ReceiptsBehindCursor' /\ ReceiptMeansReplaced'
  BY <1>3, <1>4 DEF Inv, UnderWay, ReceiptsBehindCursor, ReceiptMeansReplaced
<1>7. OpenUnderWay' /\ ModifyUnderWay' /\ AbandonUnderWay'
  BY DEF NoCall, OpenUnderWay, ModifyUnderWay, AbandonUnderWay
<1>8. Shapes'
  BY <1>3 DEF Inv, Shapes, Calls
<1> QED
  BY <1>5, <1>6, <1>7, <1>8 DEF Inv, UnderWay

LEMMA ApplyKeeps == ASSUME Inv, NEW i \in DOMAIN revisions, ApplyRevision(i) PROVE Inv'
<1>1. /\ plan' \in Plans /\ plan'.state = "finalized" /\ plan'.heir = plan.heir
      /\ plan'.links = plan.links /\ plan'.conflicts = plan.conflicts
  BY DEF ApplyRevision, Inv, Shapes, Plans, States
<1>2. Whole(plan')
  BY <1>1 DEF Inv, Settled, Whole
<1> QED
  BY <1>1, <1>2, EndKeeps DEF ApplyRevision, Idle

LEMMA MarkKeeps == ASSUME Inv, MarkAbandoned PROVE Inv'
<1>1. call.of \in DOMAIN revisions /\ plan = snaps[revisions[call.of].snapshot]
  BY DEF MarkAbandoned, Inv, UnderWay, AbandonUnderWay
<1>2. plan.state = "finalized"
  BY <1>1 DEF Inv, Settled, RevisionsStand, SnapshotsAreFinal
<1> QED
  BY <1>1, <1>2, EndKeeps DEF MarkAbandoned, Inv, Shapes, Settled

LEMMA AbandonKeeps == ASSUME Inv, NEW i \in DOMAIN revisions, AbandonRevision(i) PROVE Inv'
<1>1. /\ plan' = snaps[revisions[i].snapshot] /\ call' = [step |-> "abandon", of |-> i]
      /\ Walking(i) /\ UNCHANGED <<snaps, revisions, nextConflict, receipts>>
  BY DEF AbandonRevision, Rewound
<1>2. revisions[i].snapshot \in DOMAIN snaps
  BY DEF Inv, Settled, RevisionsStand
<1>3. plan' \in Plans /\ Whole(plan') /\ plan'.state = "finalized"
  BY <1>1, <1>2, PartsTyped DEF Inv, Settled, SnapshotsAreFinal
<1>4. Edited /\ NoModify
  BY <1>1, <1>3 DEF Edited, NoModify, Inv, Shapes
<1>5. Settled' /\ ReceiptsBehindCursor' /\ ReceiptMeansReplaced'
  BY <1>1, <1>4, EditSettled, EditReceipts DEF Inv, UnderWay
<1>6. OpenUnderWay' /\ ModifyUnderWay' /\ AbandonUnderWay'
  BY <1>1 DEF OpenUnderWay, ModifyUnderWay, AbandonUnderWay, Walking
<1>7. Shapes'
  <2>1. i \in Nat
    BY DEF Inv, Shapes
  <2>2. call' \in Calls
    BY <1>1, <2>1 DEF Calls
  <2> QED
    BY <1>1, <1>3, <2>2 DEF Inv, Shapes
<1> QED
  BY <1>5, <1>6, <1>7 DEF Inv, UnderWay

LEMMA InvInit == Init => Inv
<1> SUFFICES ASSUME Init PROVE Inv
  OBVIOUS
<1>1. Shapes
  BY DEF Init, Shapes, Plans, States, Calls
<1>2. Settled
  BY DEF Init, Settled, Whole, SnapshotsAreFinal, RevisionsStand, OneWalk,
         WalkedInOrder, RevisingHasItsRevision, AppliedStands
<1>3. UnderWay
  BY DEF Init, NoCall, UnderWay, OpenUnderWay, ModifyUnderWay, AbandonUnderWay,
         ReceiptsBehindCursor, ReceiptMeansReplaced
<1> QED
  BY <1>1, <1>2, <1>3 DEF Inv

LEMMA InvNext == Inv /\ [Next]_vars => Inv'
<1> SUFFICES ASSUME Inv, [Next]_vars PROVE Inv'
  OBVIOUS
<1>1. CASE Next
  BY <1>1, SubmitKeeps, OpenKeeps, SupersedeKeeps, RaiseKeeps, ResolveKeeps, FinalizeKeeps,
     StoreKeeps, RecordKeeps, MarkKeeps, KeepKeeps, ApplyKeeps, AbandonKeeps, ModifyKeeps,
     RecoverKeeps, CrashKeeps DEF Next
<1>2. CASE UNCHANGED vars
  <2>1. Edited /\ NoModify
    BY <1>2 DEF vars, Edited, NoModify, Inv, Shapes, Settled, Rows, Whole
  <2>2. Settled' /\ ReceiptsBehindCursor' /\ ReceiptMeansReplaced'
    BY <1>2, <2>1, EditSettled, EditReceipts DEF vars, Inv, UnderWay
  <2>3. OpenUnderWay' /\ ModifyUnderWay' /\ AbandonUnderWay' /\ Shapes'
    BY <1>2 DEF vars, Inv, UnderWay, OpenUnderWay, ModifyUnderWay, AbandonUnderWay, Shapes,
                Walking, Presenting, Current, Live, Rows
  <2> QED
    BY <2>2, <2>3 DEF Inv, UnderWay
<1> QED
  BY <1>1, <1>2

---------------------------------------------------------------------------
(* Theorems.                                                               *)

\* The plan, its snapshots, the revisions and the call under way stay what they are,
\* and stand to each other as their parts say.
THEOREM Invariance == Spec => []Inv
BY InvInit, InvNext, PTL DEF Spec

LEMMA InvTyped == Inv => TypeOK
<1> SUFFICES ASSUME Inv PROVE TypeOK
  OBVIOUS
<1>1. plan.state \in States /\ plan.version \in Nat
  BY DEF Inv, Shapes, Plans
<1>2. /\ \A r \in Rows : plan.heir[r] = 0 \/ plan.heir[r] \in (r + 1)..Len(plan.heir)
      /\ plan.links \subseteq Rows \X Rows
  BY DEF Inv, Settled, Whole, Rows
<1>3. \A i \in DOMAIN revisions :
        /\ revisions[i].snapshot \in DOMAIN snaps
        /\ revisions[i].state \in {"walkthrough", "applied", "abandoned"}
        /\ revisions[i].cursor <= Len(revisions[i].items)
  BY PartsTyped DEF Inv, Settled, RevisionsStand, Revisions
<1>4. call.step \in {"none", "open", "record", "abandon"}
  BY DEF Inv, Shapes, Calls, NoCall
<1> QED
  BY <1>1, <1>2, <1>3, <1>4 DEF TypeOK, States

\* storage.py, revision.py - links join rows there are, a row is superseded by a later
\* one, a revision has its snapshot and a cursor inside its list.
THEOREM TypeCorrect == Spec => []TypeOK
BY Invariance, InvTyped, PTL

\* _record_and_advance - the cursor is never at an item already decided, nor past one
\* that is not.
THEOREM CursorWalksInOrder == Spec => []WalkedInOrder
<1>1. Inv => WalkedInOrder
  BY DEF Inv, Settled
<1> QED
  BY <1>1, Invariance, PTL

\* A plan under revision has the one revision that can end it.
THEOREM RevisingIsExplained == Spec => []RevisingHasItsRevision
<1>1. Inv => RevisingHasItsRevision
  BY DEF Inv, Settled
<1> QED
  BY <1>1, Invariance, PTL

\* What the record of a plan under revision says was applied is in the plan, receipts
\* from before a rewind or not.
THEOREM RecordIsReal == Spec => []AppliedIsReal
<1>1. Inv => AppliedIsReal
  BY DEF Inv, Settled, AppliedStands, AppliedIsReal
<1> QED
  BY <1>1, Invariance, PTL

\* No rewind leaves a conflict over a row that does not exist.
THEOREM ConflictsStand == Spec => []ConflictsContestRows
<1>1. Inv => ConflictsContestRows
  BY DEF Inv, Settled, Whole, ConflictsContestRows, Rows
<1> QED
  BY <1>1, Invariance, PTL

---------------------------------------------------------------------------
(* Abandoning.                                                             *)

\* Only the marking of the call under way ends a revision as abandoned.
LEMMA AbandonedByMark ==
    ASSUME Inv, [Next]_vars, NEW i \in DOMAIN revisions, Walking(i),
           revisions'[i].state = "abandoned"
    PROVE  MarkAbandoned /\ call.of = i
<1> USE DEF Walking
<1>0. revisions[i].state = "walkthrough" /\ revisions \in Seq(Revisions)
  BY DEF Inv, Shapes
<1>1. ASSUME revisions' = revisions PROVE FALSE
  BY <1>1, <1>0
<1>2. ASSUME StoreRevision PROVE FALSE
  <2>1. PICK rev \in Revisions : revisions' = Append(revisions, rev)
    BY <1>2, StoreShape
  <2>2. revisions'[i] = revisions[i]
    BY <2>1, <1>0, ListAppend DEF IsList
  <2> QED
    BY <2>2, <1>0
<1>3. ASSUME NEW j \in DOMAIN revisions, NEW d \in {"keep", "modify"}, NEW new \in Nat,
             Presenting(j), revisions' = Decided(j, d, new)
      PROVE  FALSE
  <2>1. revisions[j].cursor < Len(revisions[j].items)
    BY <1>3 DEF Presenting
  <2>2. Advanced(revisions', j, d, new)
    BY <1>0, <1>3, <2>1, DecidedShape
  <2>3. revisions'[i].state = revisions[i].state
    BY <2>2 DEF Advanced
  <2> QED
    BY <2>3, <1>0
<1>4. ASSUME NEW j \in DOMAIN revisions, KeepItem(j) PROVE FALSE
  BY <1>3, <1>4 DEF KeepItem
<1>5. ASSUME RecordModify PROVE FALSE
  <2>1. call.of \in DOMAIN revisions /\ Presenting(call.of) /\ call.new \in Nat
    BY <1>5 DEF RecordModify, Inv, UnderWay, ModifyUnderWay, Shapes, Calls, NoCall
  <2>2. PICK j \in DOMAIN revisions, new \in Nat : j = call.of /\ new = call.new
    BY <2>1
  <2> QED
    BY <1>3, <1>5, <2>1, <2>2 DEF RecordModify
<1>6. ASSUME NEW j \in DOMAIN revisions, ApplyRevision(j) PROVE FALSE
  <2>1. revisions' = [revisions EXCEPT ![j].state = "applied"]
    BY <1>6 DEF ApplyRevision
  <2>2. revisions'[i].state \in {revisions[i].state, "applied"}
    <3>1. revisions[j] \in Revisions
      BY <1>0
    <3>2. revisions'[i] = IF i = j THEN [revisions[j] EXCEPT !.state = "applied"] ELSE revisions[i]
      BY <1>0, <2>1
    <3> QED
      BY <3>1, <3>2 DEF Revisions
  <2> QED
    BY <2>2, <1>0
<1>7. ASSUME MarkAbandoned PROVE call.of = i
  <2>1. call.of \in DOMAIN revisions /\ Walking(call.of)
    BY <1>7 DEF MarkAbandoned, Inv, UnderWay, AbandonUnderWay
  <2> QED
    BY <2>1 DEF Inv, Settled, OneWalk
<1>8. Next \/ UNCHANGED vars
  OBVIOUS
<1>9. CASE UNCHANGED vars
  BY <1>1, <1>9 DEF vars
<1>10. CASE Next
  <2>1. \/ \E targets \in SUBSET Rows : SubmitRow(targets) \/ OpenRevision(targets)
        \/ \E r \in Rows : SupersedeRow(r)
        \/ \E dispute \in Disputes : RaiseConflict(dispute)
        \/ \E c \in plan.conflicts : ResolveConflict(c)
        \/ \E j \in DOMAIN revisions :
              AbandonRevision(j) \/ \E wording \in Wordings : ModifyItem(j, wording)
        \/ FinalizePlan \/ Recover \/ Crash
        => revisions' = revisions
    BY DEF SubmitRow, OpenRevision, SupersedeRow, RaiseConflict, ResolveConflict,
           AbandonRevision, ModifyItem, FinalizePlan, Recover, Crash
  <2> QED
    BY <1>10, <1>1, <1>2, <1>4, <1>5, <1>6, <1>7, <2>1 DEF Next
<1> QED
  BY <1>8, <1>9, <1>10

\* requirements:53 - an abandoned revision leaves the plan as it found it, wherever
\* the call that abandoned it was cut short and begun again.
THEOREM AbandoningUndoes == Spec => AbandonedIsUndone
<1>1. Inv /\ [Next]_vars =>
        [\A i \in DOMAIN revisions :
            (Walking(i) /\ revisions'[i].state = "abandoned")
                => plan' = snaps[revisions[i].snapshot]]_vars
  <2> SUFFICES ASSUME Inv, [Next]_vars, NEW i \in DOMAIN revisions, Walking(i),
                      revisions'[i].state = "abandoned"
               PROVE  plan' = snaps[revisions[i].snapshot]
    OBVIOUS
  <2>1. MarkAbandoned /\ call.of = i
    BY AbandonedByMark
  <2> QED
    BY <2>1 DEF MarkAbandoned, Inv, UnderWay, AbandonUnderWay
<1> QED
  BY <1>1, Invariance, PTL DEF Spec, AbandonedIsUndone

---------------------------------------------------------------------------
(* The impact.                                                             *)

Named(i, kinds) ==
    {revisions[i].items[n].row : n \in
        {m \in DOMAIN revisions[i].items : revisions[i].items[m].kind \in kinds}}

\* ImpactComplete, of one revision.
ListStands(i) ==
    LET then == snaps[revisions[i].snapshot]
    IN  /\ Closed(then.links, Named(i, {"target", "affected"}))
        /\ \A S \in SUBSET DOMAIN then.heir :
              (Named(i, {"target"}) \subseteq S /\ Closed(then.links, S))
                  => Named(i, {"affected"}) \subseteq S

\* What a list says does not change: a decision leaves kinds and rows, and nothing
\* rewrites a snapshot.
SameList(i) ==
    /\ i \in DOMAIN revisions'
    /\ revisions'[i].snapshot = revisions[i].snapshot
    /\ snaps'[revisions[i].snapshot] = snaps[revisions[i].snapshot]
    /\ DOMAIN revisions'[i].items = DOMAIN revisions[i].items
    /\ \A n \in DOMAIN revisions[i].items :
          /\ revisions'[i].items[n].kind = revisions[i].items[n].kind
          /\ revisions'[i].items[n].row = revisions[i].items[n].row

LEMMA SameListStands ==
    ASSUME NEW i \in DOMAIN revisions, SameList(i), ListStands(i)
    PROVE  ListStands(i)'
<1>1. \A kinds \in {{"target"}, {"affected"}, {"target", "affected"}} :
        Named(i, kinds)' = Named(i, kinds)
  BY DEF SameList, Named
<1>2. snaps'[revisions'[i].snapshot] = snaps[revisions[i].snapshot]
  BY DEF SameList
<1> QED
  BY <1>1, <1>2 DEF ListStands

LEMMA DecidedSameList ==
    ASSUME Inv, NEW i \in DOMAIN revisions, NEW j \in DOMAIN revisions, Presenting(j),
           NEW disposition \in {"keep", "modify"}, NEW new \in Nat,
           revisions' = Decided(j, disposition, new), snaps' = snaps
    PROVE  SameList(i) /\ DOMAIN revisions' = DOMAIN revisions
<1>1. revisions[j].cursor < Len(revisions[j].items) /\ revisions \in Seq(Revisions)
  BY DEF Presenting, Inv, Shapes
<1>2. Advanced(revisions', j, disposition, new)
  BY <1>1, DecidedShape
<1>3. DOMAIN revisions'[j].items = DOMAIN revisions[j].items
  <2>1. IsList(revisions'[j].items) /\ IsList(revisions[j].items)
    BY <1>2, PartsTyped DEF Advanced, IsList, Inv
  <2>2. Len(revisions'[j].items) = Len(revisions[j].items)
    BY <1>2 DEF Advanced
  <2> QED
    BY <2>1, <2>2, ListShape
<1>4. CASE i = j
  BY <1>2, <1>3, <1>4 DEF Advanced, SameList
<1>5. CASE i # j
  BY <1>2, <1>5 DEF Advanced, SameList
<1> QED
  BY <1>2, <1>4, <1>5 DEF Advanced

LEMMA EndedSameList ==
    ASSUME Inv, NEW i \in DOMAIN revisions, NEW j \in DOMAIN revisions, NEW over,
           revisions' = [revisions EXCEPT ![j].state = over], snaps' = snaps
    PROVE  SameList(i) /\ DOMAIN revisions' = DOMAIN revisions
<1>1. revisions[j] \in Revisions /\ revisions \in Seq(Revisions)
  BY PartsTyped DEF Inv, Shapes
<1>2. /\ DOMAIN revisions' = DOMAIN revisions
      /\ revisions'[i] = IF i = j THEN [revisions[j] EXCEPT !.state = over] ELSE revisions[i]
  BY <1>1
<1>3. revisions'[i].snapshot = revisions[i].snapshot /\ revisions'[i].items = revisions[i].items
  BY <1>1, <1>2 DEF Revisions
<1> QED
  BY <1>2, <1>3 DEF SameList

\* The list of a new revision.
LEMMA StoredListStands ==
    ASSUME Inv, StoreRevision, NEW last \in Nat, last = Len(revisions) + 1
    PROVE  /\ DOMAIN revisions' = DOMAIN revisions \cup {last}
           /\ \A i \in DOMAIN revisions : SameList(i)
           /\ ListStands(last)'
<1>1. PICK rev \in Revisions : /\ rev.snapshot = Len(snaps)
                               /\ Lists(rev.items, call.targets)
                               /\ revisions' = Append(revisions, rev)
  BY StoreShape
<1>2. /\ DOMAIN revisions' = DOMAIN revisions \cup {last}
      /\ \A i \in DOMAIN revisions : revisions'[i] = revisions[i]
      /\ revisions'[last] = rev
  BY <1>1, PartsTyped, ListAppend DEF Inv
<1>3. snaps' = snaps /\ snaps[Len(snaps)] = plan /\ call.targets \subseteq Rows
  BY DEF StoreRevision, Inv, UnderWay, OpenUnderWay, Live
<1>4. \A i \in DOMAIN revisions : SameList(i)
  BY <1>2, <1>3 DEF SameList
<1> DEFINE T == call.targets
           A == Affected(T)
<1>5. /\ Named(last, {"target"})' = T /\ Named(last, {"affected"})' = A
      /\ Named(last, {"target", "affected"})' = T \cup A
  <2>1. \A kinds : Named(last, kinds)' =
            {rev.items[n].row : n \in {m \in DOMAIN rev.items : rev.items[m].kind \in kinds}}
    BY <1>2 DEF Named
  <2>2. /\ \A n \in DOMAIN rev.items : rev.items[n].kind = "target" => rev.items[n].row \in T
        /\ \A n \in DOMAIN rev.items : rev.items[n].kind = "affected" => rev.items[n].row \in A
        /\ \A r \in T : \E n \in DOMAIN rev.items :
              rev.items[n].kind = "target" /\ rev.items[n].row = r
        /\ \A r \in A : \E n \in DOMAIN rev.items :
              rev.items[n].kind = "affected" /\ rev.items[n].row = r
    BY <1>1 DEF Lists
  <2> HIDE DEF A, T
  <2>3. Named(last, {"target"})' = T
    <3> DEFINE at == {m \in DOMAIN rev.items : rev.items[m].kind \in {"target"}}
    <3>1. \A n \in at : rev.items[n].row \in T
      BY <2>2
    <3>2. \A r \in T : \E n \in at : rev.items[n].row = r
      BY <2>2
    <3>3. Named(last, {"target"})' = {rev.items[n].row : n \in at}
      BY <2>1
    <3> HIDE DEF at
    <3> QED
      BY <3>1, <3>2, <3>3
  <2>4. Named(last, {"affected"})' = A
    <3> DEFINE at == {m \in DOMAIN rev.items : rev.items[m].kind \in {"affected"}}
    <3>1. \A n \in at : rev.items[n].row \in A
      BY <2>2
    <3>2. \A r \in A : \E n \in at : rev.items[n].row = r
      BY <2>2
    <3>3. Named(last, {"affected"})' = {rev.items[n].row : n \in at}
      BY <2>1
    <3> HIDE DEF at
    <3> QED
      BY <3>1, <3>2, <3>3
  <2>5. Named(last, {"target", "affected"})' = T \cup A
    BY <2>1, <2>2
  <2> QED
    BY <2>3, <2>4, <2>5
<1>6. /\ Closed(plan.links, T \cup A)
      /\ \A S : (T \subseteq S /\ Closed(plan.links, S)) => A \subseteq S
  BY <1>3, AffectedIsClosure DEF Inv, Shapes, Settled
<1>7. snaps'[revisions'[last].snapshot] = plan
  BY <1>1, <1>2, <1>3
<1> HIDE DEF A, T
<1>8. ListStands(last)'
  BY <1>5, <1>6, <1>7 DEF ListStands
<1> QED
  BY <1>2, <1>4, <1>8

LEMMA ListsKept ==
    ASSUME Inv, [Next]_vars, ~StoreRevision
    PROVE  DOMAIN revisions' = DOMAIN revisions /\ \A i \in DOMAIN revisions : SameList(i)
<1>1. ASSUME revisions' = revisions, snaps' = snaps
      PROVE  DOMAIN revisions' = DOMAIN revisions /\ \A i \in DOMAIN revisions : SameList(i)
  BY <1>1 DEF SameList
<1>2. ASSUME NEW targets \in SUBSET Rows, OpenRevision(targets)
      PROVE  DOMAIN revisions' = DOMAIN revisions /\ \A i \in DOMAIN revisions : SameList(i)
  <2>1. revisions' = revisions /\ snaps' = Append(snaps, plan)
    BY <1>2 DEF OpenRevision, TakeSnapshot
  <2>2. \A n \in DOMAIN snaps : snaps'[n] = snaps[n]
    BY <2>1, PartsTyped, ListAppend DEF Inv
  <2>3. \A i \in DOMAIN revisions : revisions[i].snapshot \in DOMAIN snaps
    BY DEF Inv, Settled, RevisionsStand
  <2> QED
    BY <2>1, <2>2, <2>3 DEF SameList
<1>3. ASSUME NEW j \in DOMAIN revisions, KeepItem(j)
      PROVE  DOMAIN revisions' = DOMAIN revisions /\ \A i \in DOMAIN revisions : SameList(i)
  BY <1>3, DecidedSameList DEF KeepItem
<1>4. ASSUME RecordModify
      PROVE  DOMAIN revisions' = DOMAIN revisions /\ \A i \in DOMAIN revisions : SameList(i)
  <2>1. call.of \in DOMAIN revisions /\ Presenting(call.of) /\ call.new \in Nat
    BY <1>4 DEF RecordModify, Inv, UnderWay, ModifyUnderWay, Shapes, Calls, NoCall
  <2>2. PICK j \in DOMAIN revisions, new \in Nat : j = call.of /\ new = call.new
    BY <2>1
  <2>3. revisions' = Decided(j, "modify", new) /\ snaps' = snaps /\ Presenting(j)
    BY <1>4, <2>1, <2>2 DEF RecordModify
  <2> QED
    BY <2>3, DecidedSameList
<1>5. ASSUME NEW j \in DOMAIN revisions, ApplyRevision(j)
      PROVE  DOMAIN revisions' = DOMAIN revisions /\ \A i \in DOMAIN revisions : SameList(i)
  BY <1>5, EndedSameList DEF ApplyRevision
<1>6. ASSUME MarkAbandoned
      PROVE  DOMAIN revisions' = DOMAIN revisions /\ \A i \in DOMAIN revisions : SameList(i)
  <2>1. call.of \in DOMAIN revisions
    BY <1>6 DEF MarkAbandoned, Inv, UnderWay, AbandonUnderWay
  <2> QED
    BY <1>6, <2>1, EndedSameList DEF MarkAbandoned
<1>7. \/ \E targets \in SUBSET Rows : SubmitRow(targets)
      \/ \E r \in Rows : SupersedeRow(r)
      \/ \E dispute \in Disputes : RaiseConflict(dispute)
      \/ \E c \in plan.conflicts : ResolveConflict(c)
      \/ \E j \in DOMAIN revisions :
            AbandonRevision(j) \/ \E wording \in Wordings : ModifyItem(j, wording)
      \/ FinalizePlan \/ Recover \/ Crash \/ UNCHANGED vars
      => revisions' = revisions /\ snaps' = snaps
  BY DEF SubmitRow, SupersedeRow, RaiseConflict, ResolveConflict, AbandonRevision,
         ModifyItem, FinalizePlan, Recover, Crash, vars
<1> QED
  BY <1>1, <1>2, <1>3, <1>4, <1>5, <1>6, <1>7 DEF Next

\* requirements:55, F26 - the list of a revision is the rows to change and every row
\* that rests on one of them, through however many links, and no other.
THEOREM ImpactIsComplete == Spec => []ImpactComplete
<1> DEFINE All == \A i \in DOMAIN revisions : ListStands(i)
<1>1. Init => All
  BY DEF Init
<1>2. Inv /\ All /\ [Next]_vars => All'
  <2> SUFFICES ASSUME Inv, All, [Next]_vars, NEW i \in DOMAIN revisions' PROVE ListStands(i)'
    OBVIOUS
  <2>1. CASE i \in DOMAIN revisions
    <3>1. PICK last \in Nat : last = Len(revisions) + 1
      BY DEF Inv, Shapes
    <3>2. SameList(i)
      BY <2>1, <3>1, ListsKept, StoredListStands
    <3> QED
      BY <2>1, <3>2, SameListStands
  <2>2. CASE i \notin DOMAIN revisions
    <3>1. PICK last \in Nat : last = Len(revisions) + 1
      BY DEF Inv, Shapes
    <3>2. StoreRevision
      BY <2>2, ListsKept
    <3> QED
      BY <2>2, <3>1, <3>2, StoredListStands
  <2> QED
    BY <2>1, <2>2
<1>3. All => ImpactComplete
  BY DEF ListStands, ImpactComplete, Named, Closed
<1> HIDE DEF All
<1> QED
  BY <1>1, <1>2, <1>3, Invariance, PTL DEF Spec
===============================================================================
