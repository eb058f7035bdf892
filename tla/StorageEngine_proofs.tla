-------------------------- MODULE StorageEngine_proofs --------------------------
(***************************************************************************)
(* Theorems of StorageEngine, for any sessions, keys, batches and schemas: *)
(* its invariants, and that it implements AtomicStore.  They rest on one   *)
(* inductive invariant, Inv: what is on file, what the lock's owner has    *)
(* changed so far and where, which receipt every row has, and what the GUI *)
(* has still to hear of.                                                   *)
(***************************************************************************)
EXTENDS StorageEngine, ListLemmas, Closures

IsFcn(f) == f = [x \in DOMAIN f |-> f[x]]

IsRowRef(r) == r = <<r[1], r[2]>> /\ r[1] # LinkTable /\ r[2] \in Nat /\ r # NoRef

IsLinkRef(r) == r = <<LinkTable, r[2]>> /\ r[2] \in Nat /\ r # NoRef

IsRef(r) == IsRowRef(r) \/ IsLinkRef(r)

IsTable(rows) ==
    IsFcn(rows) /\ IsFiniteSet(DOMAIN rows) /\ \A r \in DOMAIN rows : IsRowRef(r)

IsPlan(p) ==
    /\ p = [rows |-> p.rows, links |-> p.links, nextLink |-> p.nextLink, schema |-> p.schema]
    /\ IsTable(p.rows)
    /\ IsFcn(p.links) /\ DOMAIN p.links \subseteq Nat
    /\ p.nextLink \in Nat /\ \A l \in DOMAIN p.links : l < p.nextLink
    /\ p.schema \in SchemaVersions

\* The plan and results of a batch under way.
IsWork(w) ==
    /\ w = [plan |-> w.plan, results |-> w.results]
    /\ IsPlan(w.plan)
    /\ IsList(w.results)
    /\ \A i \in DOMAIN w.results : w.results[i] = NoRef \/ IsRef(w.results[i])

\* What is on file.
OnFile ==
    /\ IsPlan(plan)
    /\ shape \in SchemaVersions /\ plan.schema <= shape
    /\ IsFcn(receipts) /\ DOMAIN receipts \subseteq Keys
    /\ \A k \in DOMAIN receipts :
        /\ receipts[k] = [results |-> receipts[k].results, annotated |-> receipts[k].annotated]
        /\ receipts[k].annotated \in BOOLEAN
    /\ IsList(feed) /\ \A i \in DOMAIN feed : feed[i] = Resync \/ IsRef(feed[i].ref)
    /\ IsList(snaps)
    /\ \A i \in DOMAIN snaps :
        /\ IsPlan(snaps[i])
        /\ snaps[i].nextLink <= plan.nextLink
        /\ snaps[i].schema <= shape

Stages == {"idle", "waiting", "applying", "told", "reading", "migrating", "inspected"}

\* Where a session's call is, and what it has read.
CallStands(s) ==
    /\ pc[s] \in {"waiting", "applying"} =>
          request[s].key \in Keys /\ request[s].batch \in Batches
    /\ pc[s] = "reading" =>
          /\ held[s] = <<held[s][1], held[s][2]>>
          /\ held[s][1] \in {0} \cup SchemaVersions
          /\ IsTable(held[s][2])
    /\ pc[s] = "migrating" => held[s][1] \in SchemaVersions /\ held[s][2] \in DOMAIN snaps

CallsStand ==
    /\ pc \in [Sessions -> Stages]
    /\ IsFcn(request) /\ DOMAIN request = Sessions
    /\ IsFcn(reply) /\ DOMAIN reply = Sessions
    /\ IsFcn(held) /\ DOMAIN held = Sessions
    /\ \A s \in Sessions : CallStands(s)

\* The lock has an owner while a batch is applied.
LockStands ==
    /\ owner \in Sessions \cup {Nobody}
    /\ \A s \in Sessions : owner = s <=> pc[s] = "applying"

\* A batch under way is as far as its results, which name all it has changed.
WorkStands ==
    owner \in Sessions =>
        /\ IsWork(work)
        /\ Len(work.results) <= Len(request[owner].batch)
        /\ work.plan.schema = plan.schema /\ plan.nextLink <= work.plan.nextLink
        /\ \A r \in DOMAIN plan.rows \cup DOMAIN work.plan.rows :
              \/ r \in Range(work.results)
              \/ /\ r \in DOMAIN plan.rows /\ r \in DOMAIN work.plan.rows
                 /\ plan.rows[r] = work.plan.rows[r]
        /\ \A l \in DOMAIN plan.links \cup DOMAIN work.plan.links :
              \/ <<LinkTable, l>> \in Range(work.results)
              \/ /\ l \in DOMAIN plan.links /\ l \in DOMAIN work.plan.links
                 /\ plan.links[l] = work.plan.links[l]

\* Rows that a receipt of the ledger accounts for.
Covered(rows, ledger) ==
    \A r \in DOMAIN rows : \E k \in DOMAIN ledger : r \in Range(ledger[k].results)

Accounted ==
    /\ Covered(plan.rows, receipts)
    /\ \A i \in DOMAIN snaps : Covered(snaps[i].rows, receipts)
    /\ \A s \in Sessions : pc[s] = "reading" => Covered(held[s][2], receipts)

\* What the GUI knows to be stale, or will when it has read the feed.
Awaited == gui.stale \cup {feed[i].ref : i \in (gui.cursor + 1)..Len(feed)}

ResyncAhead == \E i \in (gui.cursor + 1)..Len(feed) : feed[i] = Resync

\* Everything else on screen is the plan.
Shown ==
    /\ \A r \in DOMAIN gui.rows \cup DOMAIN plan.rows :
        \/ r \in Awaited
        \/ /\ r \in DOMAIN gui.rows /\ r \in DOMAIN plan.rows
           /\ plan.rows[r] = Broken \/ plan.rows[r] = gui.rows[r]
    /\ \A l \in DOMAIN gui.links \cup DOMAIN plan.links :
        \/ <<LinkTable, l>> \in Awaited
        \/ l \in DOMAIN gui.links /\ l \in DOMAIN plan.links /\ plan.links[l] = gui.links[l]

GuiStands ==
    /\ gui = [cursor |-> gui.cursor, stale |-> gui.stale, reload |-> gui.reload,
              rows |-> gui.rows, links |-> gui.links]
    /\ gui.cursor \in 0..Len(feed)
    /\ gui.reload \in BOOLEAN
    /\ \A r \in DOMAIN gui.rows : IsRowRef(r)
    /\ IsFcn(gui.links)
    /\ \A r \in gui.stale : IsRef(r)
    /\ ~gui.reload => shape >= FeedSchema /\ (ResyncAhead \/ Shown)

Inv ==
    /\ OnFile /\ CallsStand /\ LockStands /\ WorkStands
    /\ Accounted /\ GuiStands

---------------------------------------------------------------------------
(* What an entry of a batch does.                                          *)

\* A finite set of numbers has a greatest one.
LEMMA GreatestNumber ==
    ASSUME NEW S \in SUBSET Nat, IsFiniteSet(S), S # {}
    PROVE  Max(S) \in S /\ \A n \in S : n <= Max(S)
<1>1. Cardinality(S) \in Nat /\ Cardinality(S) # 0
  BY FS_CardinalityType, FS_EmptySet
<1>2. PICK r \in S : Rank(S, r) = Cardinality(S)
  <2>1. Cardinality(S) \in 1..Cardinality(S)
    BY <1>1
  <2> QED
    BY <2>1, Ranking
<1> DEFINE upTo == {s \in S : s <= r}
<1>3. upTo = S
  <2>1. upTo \subseteq S
    OBVIOUS
  <2>2. Cardinality(upTo) = Cardinality(S)
    BY <1>2 DEF Rank
  <2> HIDE DEF upTo
  <2> QED
    BY <2>1, <2>2, FS_Subset
<1>4. \A n \in S : r >= n
  BY <1>3
<1>5. Max(S) \in S /\ \A n \in S : Max(S) >= n
  BY <1>4 DEF Max
<1> QED
  BY <1>5

\* What a new entry of a function is, and what stays.
LEMMA PutShape ==
    ASSUME NEW f, NEW k, NEW v
    PROVE  /\ IsFcn(Put(f, k, v)) /\ DOMAIN Put(f, k, v) = DOMAIN f \cup {k}
           /\ Put(f, k, v)[k] = v
           /\ \A x \in DOMAIN f : x # k => Put(f, k, v)[x] = f[x]
BY DEF Put, IsFcn

LEMMA WithoutShape ==
    ASSUME NEW f, NEW S
    PROVE  /\ IsFcn(Without(f, S)) /\ DOMAIN Without(f, S) = DOMAIN f \ S
           /\ \A x \in DOMAIN f \ S : Without(f, S)[x] = f[x]
BY DEF Without, IsFcn

\* A new ordinal is not in use.
LEMMA OrdinalIsNew ==
    ASSUME NEW rows, IsTable(rows), NEW t
    PROVE  NextOrdinal(rows, t) \in Nat /\ <<t, NextOrdinal(rows, t)>> \notin DOMAIN rows
<1> DEFINE mine == {q \in DOMAIN rows : q[1] = t}
           used == {r[2] : r \in mine}
           S == {0} \cup used
<1>1. IsFiniteSet(mine)
  BY FS_Subset DEF IsTable
<1>2. IsFiniteSet(used)
  <2> DEFINE second == [q \in mine |-> q[2]]
  <2>1. second \in Surjection(mine, used)
    BY DEF Surjection
  <2> HIDE DEF mine, used, second
  <2> QED
    BY <1>1, <2>1, FS_Surjection
<1>3. IsFiniteSet(S)
  <2> HIDE DEF used
  <2> QED
    BY <1>2, FS_AddElement
<1>4. S \in SUBSET Nat /\ S # {}
  BY DEF IsTable, IsRowRef
<1>5. Max(S) \in Nat /\ \A n \in S : n <= Max(S)
  <2> HIDE DEF S
  <2> QED
    BY <1>3, <1>4, GreatestNumber
<1>6. NextOrdinal(rows, t) = Max(S) + 1
  BY DEF NextOrdinal
<1>7. Max(S) + 1 \notin S
  <2> HIDE DEF S
  <2> QED
    BY <1>5
<1>8. <<t, Max(S) + 1>> \notin DOMAIN rows
  <2>1. <<t, Max(S) + 1>> \in DOMAIN rows => Max(S) + 1 \in S
    <3> DEFINE n == Max(S) + 1
    <3> HIDE DEF n
    <3>1. <<t, n>> \in DOMAIN rows => n \in used
      <4> SUFFICES ASSUME <<t, n>> \in DOMAIN rows PROVE n \in used
        OBVIOUS
      <4>1. <<t, n>> \in mine /\ <<t, n>>[2] = n
        OBVIOUS
      <4> QED
        BY <4>1
    <3> QED
      BY <3>1 DEF n
  <2> QED
    BY <1>7, <2>1
<1> QED
  BY <1>5, <1>6, <1>8

IsOp(op) ==
    /\ op.kind \in {"insert_row", "insert", "update"}
    /\ op.kind = "insert_row" => op.table # LinkTable /\ NoRef \notin {op.table} \X Nat

\* v is w with one more entry applied: its result names what it has changed.
Advanced(w, v) ==
    /\ IsWork(v)
    /\ Len(v.results) = Len(w.results) + 1
    /\ Range(w.results) \subseteq Range(v.results)
    /\ v.plan.schema = w.plan.schema /\ w.plan.nextLink <= v.plan.nextLink
    /\ \A r \in DOMAIN w.plan.rows \cup DOMAIN v.plan.rows :
          \/ r \in Range(v.results)
          \/ /\ r \in DOMAIN w.plan.rows /\ r \in DOMAIN v.plan.rows
             /\ w.plan.rows[r] = v.plan.rows[r]
    /\ \A l \in DOMAIN w.plan.links \cup DOMAIN v.plan.links :
          \/ <<LinkTable, l>> \in Range(v.results)
          \/ /\ l \in DOMAIN w.plan.links /\ l \in DOMAIN v.plan.links
             /\ w.plan.links[l] = v.plan.links[l]

\* One more result.
LEMMA OneMoreResult ==
    ASSUME NEW s, IsList(s), \A i \in DOMAIN s : s[i] = NoRef \/ IsRef(s[i]),
           NEW e, e = NoRef \/ IsRef(e)
    PROVE  /\ IsList(Append(s, e)) /\ Len(Append(s, e)) = Len(s) + 1
           /\ \A i \in DOMAIN Append(s, e) : Append(s, e)[i] = NoRef \/ IsRef(Append(s, e)[i])
           /\ Range(Append(s, e)) = Range(s) \cup {e}
<1> DEFINE t == Append(s, e)
<1>1. /\ IsList(t) /\ Len(t) = Len(s) + 1 /\ DOMAIN t = DOMAIN s \cup {Len(s) + 1}
      /\ \A i \in DOMAIN s : t[i] = s[i]
      /\ t[Len(s) + 1] = e
  BY ListAppend
<1> HIDE DEF t
<1>2. Range(t) = Range(s) \cup {e}
  <2>1. \A x : x \in Range(t) <=> \E i \in DOMAIN t : x = t[i]
    BY DEF Range
  <2>2. \A x : x \in Range(s) <=> \E i \in DOMAIN s : x = s[i]
    BY DEF Range
  <2> QED
    BY <1>1, <2>1, <2>2
<1>3. \A i \in DOMAIN t : t[i] = NoRef \/ IsRef(t[i])
  BY <1>1
<1> QED
  BY <1>1, <1>2, <1>3 DEF t

\* The parts of a plan and of a batch under way.
LEMMA PlanMade ==
    ASSUME NEW rows, NEW links, NEW n, NEW v, IsTable(rows), IsFcn(links),
           n \in Nat, \A l \in DOMAIN links : l \in Nat /\ l < n, v \in SchemaVersions
    PROVE  IsPlan([rows |-> rows, links |-> links, nextLink |-> n, schema |-> v])
BY DEF IsPlan

LEMMA PlanParts ==
    ASSUME NEW p, IsPlan(p)
    PROVE  \E rows, links, n, v :
              /\ p = [rows |-> rows, links |-> links, nextLink |-> n, schema |-> v]
              /\ IsTable(rows) /\ IsFcn(links)
              /\ n \in Nat /\ (\A l \in DOMAIN links : l \in Nat /\ l < n)
              /\ v \in SchemaVersions
<1> DEFINE q == [rows |-> p.rows, links |-> p.links, nextLink |-> p.nextLink, schema |-> p.schema]
<1>1. p = q
  BY Zenon DEF IsPlan
<1>2. /\ IsTable(p.rows) /\ IsFcn(p.links)
      /\ p.nextLink \in Nat /\ (\A l \in DOMAIN p.links : l \in Nat /\ l < p.nextLink)
      /\ p.schema \in SchemaVersions
  BY DEF IsPlan
<1> QED
  BY <1>1, <1>2, Zenon

LEMMA WorkParts ==
    ASSUME NEW w, IsWork(w)
    PROVE  \E rows, links, n, v, results :
              /\ w = [plan |-> [rows |-> rows, links |-> links, nextLink |-> n, schema |-> v],
                      results |-> results]
              /\ IsTable(rows) /\ IsFcn(links)
              /\ n \in Nat /\ (\A l \in DOMAIN links : l \in Nat /\ l < n)
              /\ v \in SchemaVersions
              /\ IsList(results) /\ (\A i \in DOMAIN results : results[i] = NoRef \/ IsRef(results[i]))
<1>1. /\ w = [plan |-> w.plan, results |-> w.results] /\ IsPlan(w.plan) /\ IsList(w.results)
      /\ \A i \in DOMAIN w.results : w.results[i] = NoRef \/ IsRef(w.results[i])
  BY Zenon DEF IsWork
<1>2. PICK rows, links, n, v :
              /\ w.plan = [rows |-> rows, links |-> links, nextLink |-> n, schema |-> v]
              /\ IsTable(rows) /\ IsFcn(links)
              /\ n \in Nat /\ (\A l \in DOMAIN links : l \in Nat /\ l < n)
              /\ v \in SchemaVersions
  BY <1>1, PlanParts, Zenon
<1> QED
  BY <1>1, <1>2, Zenon

LEMMA RowInserted ==
    ASSUME NEW w, IsWork(w), NEW op, IsOp(op), op.kind = "insert_row"
    PROVE  Advanced(w, ApplyInsertRow(w, op))
<1> DEFINE ref == <<op.table, NextOrdinal(w.plan.rows, op.table)>>
           v == ApplyInsertRow(w, op)
<1>1. PICK rows, links, n, sc, results :
         /\ w = [plan |-> [rows |-> rows, links |-> links, nextLink |-> n, schema |-> sc],
                 results |-> results]
         /\ IsTable(rows) /\ IsFcn(links)
         /\ n \in Nat /\ (\A l \in DOMAIN links : l \in Nat /\ l < n)
         /\ sc \in SchemaVersions
         /\ IsList(results) /\ (\A i \in DOMAIN results : results[i] = NoRef \/ IsRef(results[i]))
  BY WorkParts
<1>2. NextOrdinal(rows, op.table) \in Nat /\ ref = <<op.table, NextOrdinal(rows, op.table)>>
      /\ ref \notin DOMAIN rows
  BY <1>1, OrdinalIsNew
<1>3. IsRowRef(ref)
  BY <1>2 DEF IsRowRef, IsOp
<1>4. v = [plan |-> [rows |-> Put(rows, ref, op.content), links |-> links,
                     nextLink |-> n, schema |-> sc],
           results |-> Append(results, ref)]
  <2>1. v = [w EXCEPT !.plan.rows = Put(rows, ref, op.content), !.results = Append(results, ref)]
    BY <1>1 DEF ApplyInsertRow
  <2> HIDE DEF v, ref
  <2>2. /\ DOMAIN v = {"plan", "results"} /\ v = [f \in DOMAIN v |-> v[f]]
        /\ v.results = Append(results, ref)
        /\ v.plan = [w.plan EXCEPT !.rows = Put(rows, ref, op.content)]
    BY <1>1, <2>1
  <2>3. v = [plan |-> v.plan, results |-> v.results]
    BY <2>2
  <2>4. v.plan = [rows |-> Put(rows, ref, op.content), links |-> links,
                  nextLink |-> n, schema |-> sc]
    BY <1>1, <2>2
  <2> QED
    BY <2>2, <2>3, <2>4
<1> HIDE DEF v, ref
<1>5. /\ IsList(v.results) /\ Len(v.results) = Len(w.results) + 1
      /\ \A i \in DOMAIN v.results : v.results[i] = NoRef \/ IsRef(v.results[i])
      /\ Range(v.results) = Range(w.results) \cup {ref}
  BY <1>1, <1>3, <1>4, OneMoreResult DEF IsRef
<1>6. /\ IsFcn(v.plan.rows) /\ DOMAIN v.plan.rows = DOMAIN rows \cup {ref}
      /\ \A r \in DOMAIN rows : r # ref => v.plan.rows[r] = rows[r]
  <2>1. v.plan.rows = Put(rows, ref, op.content)
    BY <1>4
  <2> QED
    BY <2>1 DEF Put, IsFcn
<1>7. IsTable(v.plan.rows)
  <2>1. IsFiniteSet(DOMAIN v.plan.rows)
    BY <1>1, <1>6, FS_AddElement DEF IsTable
  <2> QED
    BY <1>1, <1>3, <1>6, <2>1 DEF IsTable
<1>8. IsPlan(v.plan)
  BY <1>1, <1>4, <1>7, PlanMade
<1>9. \A r \in DOMAIN w.plan.rows \cup DOMAIN v.plan.rows :
          \/ r \in Range(v.results)
          \/ /\ r \in DOMAIN w.plan.rows /\ r \in DOMAIN v.plan.rows
             /\ w.plan.rows[r] = v.plan.rows[r]
  BY <1>1, <1>5, <1>6
<1>10. /\ v.plan.schema = w.plan.schema /\ w.plan.nextLink <= v.plan.nextLink
       /\ v.plan.links = w.plan.links /\ v = [plan |-> v.plan, results |-> v.results]
  BY <1>1, <1>4
<1>11. Advanced(w, v)
  BY <1>5, <1>8, <1>9, <1>10 DEF Advanced, IsWork
<1> QED
  BY <1>11 DEF v

LEMMA LinkInserted ==
    ASSUME NEW w, IsWork(w), NEW op
    PROVE  Advanced(w, ApplyInsertLink(w, op))
<1> DEFINE link == NewLink(w, op)
           v == ApplyInsertLink(w, op)
<1>1. PICK rows, links, id, sc, results :
         /\ w = [plan |-> [rows |-> rows, links |-> links, nextLink |-> id, schema |-> sc],
                 results |-> results]
         /\ IsTable(rows) /\ IsFcn(links)
         /\ id \in Nat /\ (\A l \in DOMAIN links : l \in Nat /\ l < id)
         /\ sc \in SchemaVersions
         /\ IsList(results) /\ (\A i \in DOMAIN results : results[i] = NoRef \/ IsRef(results[i]))
  BY WorkParts
<1>2. IsLinkRef(<<LinkTable, id>>)
  BY <1>1, NoRefIsNoLink DEF IsLinkRef
<1>4. v = [plan |-> [rows |-> rows, links |-> Put(links, id, link),
                     nextLink |-> id + 1, schema |-> sc],
           results |-> Append(results, <<LinkTable, id>>)]
  <2>1. v = [w EXCEPT !.plan.links = Put(links, id, link), !.plan.nextLink = id + 1,
                      !.results = Append(results, <<LinkTable, id>>)]
    BY <1>1 DEF ApplyInsertLink
  <2> HIDE DEF v, link
  <2>2. /\ DOMAIN v = {"plan", "results"} /\ v = [f \in DOMAIN v |-> v[f]]
        /\ v.results = Append(results, <<LinkTable, id>>)
        /\ DOMAIN v.plan = DOMAIN w.plan /\ v.plan = [f \in DOMAIN v.plan |-> v.plan[f]]
        /\ v.plan.links = Put(links, id, link) /\ v.plan.nextLink = id + 1
        /\ v.plan.rows = rows /\ v.plan.schema = sc
    BY <1>1, <2>1
  <2>3. v = [plan |-> v.plan, results |-> v.results]
    BY <2>2
  <2>4. v.plan = [rows |-> rows, links |-> Put(links, id, link),
                  nextLink |-> id + 1, schema |-> sc]
    BY <1>1, <2>2
  <2> QED
    BY <2>2, <2>3, <2>4
<1> HIDE DEF v, link
<1>5. /\ IsList(v.results) /\ Len(v.results) = Len(w.results) + 1
      /\ \A i \in DOMAIN v.results : v.results[i] = NoRef \/ IsRef(v.results[i])
      /\ Range(v.results) = Range(w.results) \cup {<<LinkTable, id>>}
  BY <1>1, <1>2, <1>4, OneMoreResult DEF IsRef
<1>6. /\ IsFcn(v.plan.links) /\ DOMAIN v.plan.links = DOMAIN links \cup {id}
      /\ \A l \in DOMAIN links : l # id => v.plan.links[l] = links[l]
  <2> DEFINE f == Put(links, id, link)
  <2>1. v.plan.links = f
    BY <1>4
  <2>2. IsFcn(f) /\ DOMAIN f = DOMAIN links \cup {id}
        /\ \A l \in DOMAIN links : l # id => f[l] = links[l]
    BY PutShape
  <2> QED
    BY <2>1, <2>2
<1>7. \A l \in DOMAIN v.plan.links : l \in Nat /\ l < id + 1
  BY <1>1, <1>6
<1>8. IsPlan(v.plan)
  <2>1. v.plan = [rows |-> rows, links |-> v.plan.links, nextLink |-> id + 1, schema |-> sc]
    BY <1>4
  <2>2. id + 1 \in Nat
    BY <1>1
  <2>3. IsPlan([rows |-> rows, links |-> v.plan.links, nextLink |-> id + 1, schema |-> sc])
    BY <1>1, <1>6, <1>7, <2>2, PlanMade
  <2> QED
    BY <2>1, <2>3
<1>9. \A l \in DOMAIN w.plan.links \cup DOMAIN v.plan.links :
          \/ <<LinkTable, l>> \in Range(v.results)
          \/ /\ l \in DOMAIN w.plan.links /\ l \in DOMAIN v.plan.links
             /\ w.plan.links[l] = v.plan.links[l]
  BY <1>1, <1>5, <1>6
<1>10. /\ v.plan.schema = w.plan.schema /\ w.plan.nextLink <= v.plan.nextLink
       /\ v.plan.rows = w.plan.rows /\ v = [plan |-> v.plan, results |-> v.results]
  BY <1>1, <1>4
<1>11. Advanced(w, v)
  BY <1>5, <1>8, <1>9, <1>10 DEF Advanced, IsWork
<1> QED
  BY <1>11 DEF v

LEMMA RowUpdated ==
    ASSUME NEW w, IsWork(w), NEW op
    PROVE  Advanced(w, ApplyUpdate(w, op))
<1> DEFINE v == ApplyUpdate(w, op)
<1>1. PICK rows, links, n, sc, results :
         /\ w = [plan |-> [rows |-> rows, links |-> links, nextLink |-> n, schema |-> sc],
                 results |-> results]
         /\ IsTable(rows) /\ IsFcn(links)
         /\ n \in Nat /\ (\A l \in DOMAIN links : l \in Nat /\ l < n)
         /\ sc \in SchemaVersions
         /\ IsList(results) /\ (\A i \in DOMAIN results : results[i] = NoRef \/ IsRef(results[i]))
  BY WorkParts
<1>2. CASE op.where \in DOMAIN rows
  <2>1. v = [plan |-> [rows |-> [rows EXCEPT ![op.where] = op.content],
                       links |-> links, nextLink |-> n, schema |-> sc],
             results |-> Append(results, op.where)]
    BY <1>1, <1>2 DEF ApplyUpdate
  <2> HIDE DEF v
  <2>2. IsRowRef(op.where)
    BY <1>1, <1>2 DEF IsTable
  <2>3. /\ IsList(v.results) /\ Len(v.results) = Len(w.results) + 1
        /\ \A i \in DOMAIN v.results : v.results[i] = NoRef \/ IsRef(v.results[i])
        /\ Range(v.results) = Range(w.results) \cup {op.where}
    BY <1>1, <2>1, <2>2, OneMoreResult DEF IsRef
  <2>4. /\ IsFcn(v.plan.rows) /\ DOMAIN v.plan.rows = DOMAIN rows
        /\ \A r \in DOMAIN rows : r # op.where => v.plan.rows[r] = rows[r]
    BY <1>2, <2>1 DEF IsFcn
  <2>5. IsTable(v.plan.rows)
    BY <1>1, <2>4 DEF IsTable
  <2>6. IsPlan(v.plan)
    BY <1>1, <2>1, <2>5, PlanMade
  <2>7. /\ v.plan.schema = w.plan.schema /\ w.plan.nextLink <= v.plan.nextLink
        /\ v.plan.links = w.plan.links /\ v = [plan |-> v.plan, results |-> v.results]
    BY <1>1, <2>1
  <2>8. \A r \in DOMAIN w.plan.rows \cup DOMAIN v.plan.rows :
          \/ r \in Range(v.results)
          \/ /\ r \in DOMAIN w.plan.rows /\ r \in DOMAIN v.plan.rows
             /\ w.plan.rows[r] = v.plan.rows[r]
    BY <1>1, <2>3, <2>4
  <2>9. Advanced(w, v)
    BY <2>3, <2>6, <2>7, <2>8 DEF Advanced, IsWork
  <2> QED
    BY <2>9 DEF v
<1>3. CASE op.where \notin DOMAIN rows
  <2>1. v = [plan |-> w.plan, results |-> Append(results, NoRef)]
    BY <1>1, <1>3 DEF ApplyUpdate
  <2> HIDE DEF v
  <2>2. /\ IsList(v.results) /\ Len(v.results) = Len(w.results) + 1
        /\ \A i \in DOMAIN v.results : v.results[i] = NoRef \/ IsRef(v.results[i])
        /\ Range(v.results) = Range(w.results) \cup {NoRef}
    BY <1>1, <2>1, OneMoreResult
  <2>3. v.plan = w.plan /\ v = [plan |-> v.plan, results |-> v.results] /\ IsPlan(v.plan)
    BY <2>1 DEF IsWork
  <2>4. w.plan.nextLink <= w.plan.nextLink
    BY <1>1
  <2>5. Advanced(w, v)
    BY <2>2, <2>3, <2>4 DEF Advanced, IsWork
  <2> QED
    BY <2>5 DEF v
<1> QED
  BY <1>2, <1>3

\* Whatever the entry: it appends one result, which names what it changes.
LEMMA EntryApplied ==
    ASSUME NEW w, IsWork(w), NEW op, IsOp(op)
    PROVE  Advanced(w, ApplyOp(w, op))
<1>1. CASE op.kind = "insert_row"
  BY <1>1, RowInserted DEF ApplyOp
<1>2. CASE op.kind = "insert"
  BY <1>2, LinkInserted DEF ApplyOp
<1>3. CASE op.kind = "update"
  BY <1>3, RowUpdated DEF ApplyOp
<1> QED
  BY <1>1, <1>2, <1>3 DEF IsOp

\* The entries f of the feed name every row a batch has touched.
Announces(f, results) ==
    /\ IsList(f)
    /\ \A n \in DOMAIN f : IsRef(f[n].ref)
    /\ \A r \in Range(results) : r # NoRef => \E n \in DOMAIN f : f[n].ref = r

LEMMA TouchedIsAnnounced ==
    ASSUME NEW b, DOMAIN b = 1..Len(b), Len(b) \in Nat,
           NEW results, IsList(results), Len(results) = Len(b),
           \A i \in DOMAIN results : results[i] = NoRef \/ IsRef(results[i])
    PROVE  Announces(Announced(b, results), results)
<1> DEFINE entries == [i \in DOMAIN b |-> [op |-> Kind(b[i]), ref |-> results[i]]]
           first == {i \in DOMAIN b : /\ results[i] # NoRef
                                      /\ \A j \in 1..(i - 1) : entries[j] # entries[i]}
           nth(n) == CHOOSE i \in first : Cardinality({j \in first : j <= i}) = n
           f == [n \in 1..Cardinality(first) |-> entries[nth(n)]]
<1>1. Announced(b, results) = f
  BY Zenon DEF Announced
<1>2. /\ first \in SUBSET Nat /\ IsFiniteSet(first) /\ first \subseteq 1..Len(b)
      /\ Cardinality(first) \in Nat
  <2>1. first \subseteq 1..Len(b)
    OBVIOUS
  <2>2. IsFiniteSet(1..Len(b))
    BY FS_Interval
  <2> HIDE DEF first
  <2>3. IsFiniteSet(first)
    BY <2>1, <2>2, FS_Subset
  <2>4. Cardinality(first) \in Nat
    BY <2>3, FS_CardinalityType
  <2> QED
    BY <2>1, <2>3, <2>4
<1>3. \A i \in 1..Len(b) : entries[i].ref = results[i]
  OBVIOUS
<1>4. \A i \in first : results[i] # NoRef
  OBVIOUS
<1>5. ASSUME NEW i \in 1..Len(b), results[i] # NoRef
      PROVE  \E j \in first : results[j] = results[i]
  <2> DEFINE T == {j \in 1..Len(b) : entries[j] = entries[i]}
  <2>1. T \subseteq Nat /\ i \in T
    OBVIOUS
  <2>2. PICK j \in T : \A k \in T : j <= k
    <3> HIDE DEF T
    <3> QED
      BY <2>1, LeastNumber
  <2>3. j \in 1..Len(b) /\ entries[j] = entries[i]
    OBVIOUS
  <2>4. results[j] = results[i]
    BY <1>3, <2>3
  <2>5. \A k \in 1..(j - 1) : entries[k] # entries[j]
    <3> SUFFICES ASSUME NEW k \in 1..(j - 1), entries[k] = entries[j] PROVE FALSE
      OBVIOUS
    <3>1. k \in 1..Len(b) /\ ~(j <= k)
      BY <2>3
    <3>2. k \in T
      BY <2>3, <3>1
    <3> QED
      BY <2>2, <3>1, <3>2
  <2>6. j \in first
    BY <1>5, <2>3, <2>4, <2>5
  <2> QED
    BY <2>4, <2>6
<1> HIDE DEF entries, first
<1>6. \A n \in 1..Cardinality(first) : nth(n) \in first /\ Rank(first, nth(n)) = n
  <2> TAKE n \in 1..Cardinality(first)
  <2>1. \E i \in first : Cardinality({j \in first : j <= i}) = n
    BY <1>2, Ranking DEF Rank
  <2> QED
    BY <2>1 DEF Rank
<1>7. \A i \in first : \E n \in 1..Cardinality(first) : nth(n) = i
  <2> TAKE i \in first
  <2>1. Rank(first, i) \in 1..Cardinality(first)
    BY <1>2, Ranking
  <2> PICK n \in 1..Cardinality(first) : n = Rank(first, i)
    BY <2>1
  <2>2. nth(n) = i
    <3>1. nth(n) \in first /\ Rank(first, nth(n)) = Rank(first, i)
      BY <1>6
    <3> HIDE DEF nth
    <3>2. \A r, q \in first : Rank(first, r) = Rank(first, q) => r = q
      BY <1>2, Ranking
    <3> QED
      BY <3>1, <3>2
  <2> QED
    BY <2>1, <2>2
<1> HIDE DEF nth
<1>8. DOMAIN f = 1..Cardinality(first) /\ \A n \in DOMAIN f : f[n] = entries[nth(n)]
  OBVIOUS
<1>9. IsList(f)
  BY <1>2, ListOfLength
<1> HIDE DEF f
<1>10. \A n \in DOMAIN f : nth(n) \in 1..Len(b) /\ f[n].ref = results[nth(n)] /\ results[nth(n)] # NoRef
  BY <1>2, <1>3, <1>4, <1>6, <1>8
<1>11. DOMAIN results = 1..Len(b)
  BY ListShape
<1>12. \A n \in DOMAIN f : IsRef(f[n].ref)
  BY <1>10, <1>11
<1>13. ASSUME NEW r \in Range(results), r # NoRef PROVE \E n \in DOMAIN f : f[n].ref = r
  <2>1. PICK i \in DOMAIN results : r = results[i]
    BY DEF Range
  <2>2. PICK j \in first : results[j] = r
    BY <1>5, <1>11, <1>13, <2>1
  <2>3. PICK n \in 1..Cardinality(first) : nth(n) = j
    BY <1>7
  <2> QED
    BY <1>8, <1>10, <2>2, <2>3
<1>14. Announces(f, results)
  BY <1>9, <1>12, <1>13 DEF Announces
<1> QED
  BY <1>1, <1>14

---------------------------------------------------------------------------
(* The first state.                                                        *)

LEMMA EmptyPlanStands ==
    ASSUME NEW v \in SchemaVersions
    PROVE  IsPlan(EmptyPlan(v))
<1>1. DOMAIN EmptyFcn = {} /\ IsFcn(EmptyFcn)
  BY DEF EmptyFcn, IsFcn
<1>2. IsTable(EmptyFcn)
  BY <1>1, FS_EmptySet DEF IsTable
<1>3. IsPlan([rows |-> EmptyFcn, links |-> EmptyFcn, nextLink |-> 1, schema |-> v])
  BY <1>1, <1>2, PlanMade
<1> QED
  BY <1>3 DEF EmptyPlan

LEMMA InitStands == Init => Inv
<1> SUFFICES ASSUME Init PROVE Inv
  OBVIOUS
<1>1. DOMAIN EmptyFcn = {} /\ IsFcn(EmptyFcn)
  BY DEF EmptyFcn, IsFcn
<1>2. PICK v \in OpeningSchemas : plan = EmptyPlan(v)
  BY DEF Init
<1>3. v \in SchemaVersions /\ v \in Nat /\ plan.schema = v /\ plan.rows = EmptyFcn /\ plan.links = EmptyFcn
  BY <1>2, SchemasAreKnown DEF EmptyPlan, SchemaVersions
<1>4. IsPlan(plan)
  BY <1>2, <1>3, EmptyPlanStands
<1>5. DOMAIN <<>> = {} /\ Len(<<>>) = 0 /\ IsList(<<>>)
  BY DEF IsList
<1>6. OnFile
  BY <1>1, <1>3, <1>4, <1>5 DEF OnFile, Init
<1>7. CallsStand
  BY DEF CallsStand, CallStands, Init, Stages, IsFcn
<1>8. LockStands
  BY NobodyIsNoSession DEF LockStands, Init
<1>9. WorkStands
  BY NobodyIsNoSession DEF WorkStands, Init
<1>10. Accounted
  BY <1>1, <1>3, <1>5 DEF Accounted, Covered, Init
<1>11. GuiStands
  BY <1>1, <1>5 DEF GuiStands, Init
<1> QED
  BY <1>6, <1>7, <1>8, <1>9, <1>10, <1>11 DEF Inv

---------------------------------------------------------------------------
(* Steps that move one call and nothing else.                              *)

\* Of the call of s: where it is, what it asks and what it has read.
Moves(s, stage, q, h) ==
    /\ pc' = [pc EXCEPT ![s] = stage]
    /\ request' = [request EXCEPT ![s] = q]
    /\ held' = [held EXCEPT ![s] = h]
    /\ IsFcn(reply') /\ DOMAIN reply' = Sessions

LEMMA MoveStands ==
    ASSUME CallsStand, NEW s \in Sessions, NEW stage \in Stages, NEW q, NEW h,
           Moves(s, stage, q, h), DOMAIN snaps \subseteq DOMAIN snaps',
           stage \in {"waiting", "applying"} => q.key \in Keys /\ q.batch \in Batches,
           stage = "reading" => h = <<h[1], h[2]>> /\ h[1] \in {0} \cup SchemaVersions /\ IsTable(h[2]),
           stage = "migrating" => h[1] \in SchemaVersions /\ h[2] \in DOMAIN snaps'
    PROVE  CallsStand'
<1>1. pc' \in [Sessions -> Stages]
  BY DEF CallsStand, Moves
<1>2. IsFcn(request') /\ DOMAIN request' = Sessions
  BY DEF CallsStand, Moves, IsFcn
<1>3. IsFcn(held') /\ DOMAIN held' = Sessions
  BY DEF CallsStand, Moves, IsFcn
<1>4. \A t \in Sessions : IF t = s THEN pc'[t] = stage /\ request'[t] = q /\ held'[t] = h
                          ELSE pc'[t] = pc[t] /\ request'[t] = request[t] /\ held'[t] = held[t]
  BY DEF CallsStand, Moves
<1>5. \A t \in Sessions : CallStands(t)'
  <2> TAKE t \in Sessions
  <2>1. CASE t = s
    BY <1>4, <2>1 DEF CallStands
  <2>2. CASE t # s
    BY <1>4, <2>2 DEF CallStands, CallsStand
  <2> QED
    BY <2>1, <2>2
<1> QED
  BY <1>1, <1>2, <1>3, <1>5 DEF CallsStand, Moves

\* The file, the lock and the screen stand when they are left alone.
LEMMA FileKept ==
    ASSUME OnFile, UNCHANGED storeVars
    PROVE  OnFile'
BY DEF OnFile, storeVars

LEMMA ScreenKept ==
    ASSUME GuiStands, UNCHANGED <<plan, shape, feed, gui>>
    PROVE  GuiStands'
<1>1. ResyncAhead' <=> ResyncAhead
  BY DEF ResyncAhead
<1>2. Awaited' = Awaited
  BY DEF Awaited
<1>3. Shown' <=> Shown
  BY <1>2 DEF Shown
<1> QED
  BY <1>1, <1>3 DEF GuiStands

\* So does the lock, when a session moves that did not own it and does not get it.
LEMMA LockKept ==
    ASSUME LockStands, WorkStands, NEW s \in Sessions, pc[s] # "applying",
           UNCHANGED <<storeVars, lockVars>>, CallsStand,
           NEW stage \in Stages, stage # "applying", NEW q, NEW h, Moves(s, stage, q, h)
    PROVE  LockStands' /\ WorkStands'
<1>1. \A t \in Sessions : IF t = s THEN pc'[t] = stage
                          ELSE pc'[t] = pc[t] /\ request'[t] = request[t]
  BY DEF CallsStand, Moves
<1>2. owner' = owner /\ work' = work /\ plan' = plan
  BY DEF lockVars, storeVars
<1>3. LockStands'
  BY <1>1, <1>2 DEF LockStands
<1>4. owner # s
  BY DEF LockStands
<1>5. WorkStands'
  <2> SUFFICES ASSUME owner \in Sessions PROVE WorkStands'
    BY <1>2 DEF WorkStands
  <2>1. request'[owner] = request[owner]
    BY <1>1, <1>4
  <2> QED
    BY <1>2, <2>1 DEF WorkStands
<1> QED
  BY <1>3, <1>5

LEMMA CallMoves ==
    ASSUME Inv, NEW s \in Sessions, pc[s] # "applying",
           UNCHANGED <<storeVars, lockVars, gui>>,
           NEW stage \in Stages, stage # "applying", NEW q, NEW h, Moves(s, stage, q, h),
           stage = "waiting" => q.key \in Keys /\ q.batch \in Batches,
           stage = "reading" => /\ h = <<h[1], h[2]>> /\ h[1] \in {0} \cup SchemaVersions
                                /\ IsTable(h[2]) /\ Covered(h[2], receipts),
           stage # "migrating"
    PROVE  Inv'
<1>1. OnFile' /\ GuiStands'
  BY FileKept, ScreenKept DEF Inv, storeVars
<1>2. LockStands' /\ WorkStands'
  BY LockKept DEF Inv
<1>3. CallsStand'
  <2>1. DOMAIN snaps \subseteq DOMAIN snaps'
    BY DEF storeVars
  <2> QED
    BY <2>1, MoveStands DEF Inv
<1>4. Accounted'
  <2>1. plan' = plan /\ snaps' = snaps /\ receipts' = receipts
    BY DEF storeVars
  <2>2. \A t \in Sessions : IF t = s THEN pc'[t] = stage /\ held'[t] = h
                            ELSE pc'[t] = pc[t] /\ held'[t] = held[t]
    BY DEF CallsStand, Moves, Inv
  <2>3. \A t \in Sessions : pc'[t] = "reading" => Covered(held'[t][2], receipts)
    BY <2>2 DEF Inv, Accounted
  <2> QED
    BY <2>1, <2>3 DEF Inv, Accounted
<1> QED
  BY <1>1, <1>2, <1>3, <1>4 DEF Inv

\* An answer, and the way back to rest.
LEMMA AnswerMoves ==
    ASSUME CallsStand, NEW s \in Sessions, NEW a, Answer(s, a)
    PROVE  Moves(s, "told", NoRequest, held[s])
BY DEF CallsStand, Moves, Answer, IsFcn

LEMMA AnswerStands ==
    ASSUME Inv, NEW s \in Sessions, pc[s] # "applying", NEW a, Answer(s, a),
           UNCHANGED <<storeVars, lockVars, gui>>
    PROVE  Inv'
<1>1. Moves(s, "told", NoRequest, held[s])
  BY AnswerMoves DEF Inv
<1>2. "told" \in Stages
  BY DEF Stages
<1> QED
  BY <1>1, <1>2, CallMoves

LEMMA CallKeeps ==
    ASSUME Inv, NEW s \in Sessions, NEW k \in Keys, NEW b \in Batches, Call(s, k, b)
    PROVE  Inv'
<1>1. Moves(s, "waiting", [key |-> k, batch |-> b], held[s])
  BY DEF Inv, CallsStand, Moves, Call, IsFcn
<1>2. "waiting" \in Stages /\ pc[s] # "applying" /\ UNCHANGED <<storeVars, lockVars, gui>>
  BY DEF Stages, Call
<1> QED
  BY <1>1, <1>2, CallMoves

LEMMA DeliverKeeps ==
    ASSUME Inv, NEW s \in Sessions, Deliver(s)
    PROVE  Inv'
<1>1. Moves(s, "idle", request[s], held[s])
  BY DEF Inv, CallsStand, Moves, Deliver, IsFcn
<1>2. "idle" \in Stages /\ pc[s] # "applying" /\ UNCHANGED <<storeVars, lockVars, gui>>
  BY DEF Stages, Deliver
<1> QED
  BY <1>1, <1>2, CallMoves

LEMMA StartSnapshotKeeps ==
    ASSUME Inv, NEW s \in Sessions, NEW target \in {0} \cup SchemaVersions,
           StartSnapshot(s, target)
    PROVE  Inv'
<1> DEFINE h == <<target, plan.rows>>
<1>1. Moves(s, "reading", request[s], h)
  BY DEF Inv, CallsStand, Moves, StartSnapshot, IsFcn
<1>2. "reading" \in Stages /\ pc[s] # "applying" /\ UNCHANGED <<storeVars, lockVars, gui>>
  BY DEF Stages, StartSnapshot
<1>3. h = <<h[1], h[2]>> /\ h[1] \in {0} \cup SchemaVersions /\ h[2] = plan.rows
  OBVIOUS
<1>4. IsTable(h[2]) /\ Covered(h[2], receipts)
  BY <1>3 DEF Inv, OnFile, IsPlan, Accounted
<1> HIDE DEF h
<1> QED
  BY <1>1, <1>2, <1>3, <1>4, CallMoves

LEMMA InspectKeeps ==
    ASSUME Inv, NEW s \in Sessions, Inspect(s)
    PROVE  Inv'
<1>1. Moves(s, "inspected", request[s], <<DOMAIN plan.rows \ Readable>>)
  BY DEF Inv, CallsStand, Moves, Inspect, IsFcn
<1>2. "inspected" \in Stages /\ pc[s] # "applying" /\ UNCHANGED <<storeVars, lockVars, gui>>
  BY DEF Stages, Inspect
<1> QED
  BY <1>1, <1>2, CallMoves

---------------------------------------------------------------------------
(* Steps of the lock's owner that leave the file alone.                    *)

LEMMA AccountKept ==
    ASSUME Accounted, UNCHANGED storeVars, NEW s \in Sessions, CallsStand,
           NEW stage \in Stages, stage # "reading", NEW q, NEW h, Moves(s, stage, q, h)
    PROVE  Accounted'
<1>1. plan' = plan /\ snaps' = snaps /\ receipts' = receipts
  BY DEF storeVars
<1>2. \A t \in Sessions : IF t = s THEN pc'[t] = stage
                          ELSE pc'[t] = pc[t] /\ held'[t] = held[t]
  BY DEF CallsStand, Moves
<1>3. \A t \in Sessions : pc'[t] = "reading" => Covered(held'[t][2], receipts)
  BY <1>2 DEF Accounted
<1> QED
  BY <1>1, <1>3 DEF Accounted

LEMMA BeginKeeps ==
    ASSUME Inv, NEW s \in Sessions, Begin(s)
    PROVE  Inv'
<1>1. Moves(s, "applying", request[s], held[s]) /\ "applying" \in Stages
  BY DEF Inv, CallsStand, Moves, Begin, IsFcn, Stages
<1>2. UNCHANGED storeVars /\ UNCHANGED gui
  BY DEF Begin
<1>3. OnFile' /\ GuiStands'
  BY <1>2, FileKept, ScreenKept DEF Inv, storeVars
<1>4. Accounted'
  BY <1>1, <1>2, AccountKept DEF Inv
<1>5. CallsStand'
  <2>1. DOMAIN snaps \subseteq DOMAIN snaps'
    BY <1>2 DEF storeVars
  <2>2. request[s].key \in Keys /\ request[s].batch \in Batches
    BY DEF Inv, CallsStand, CallStands, Begin
  <2> QED
    BY <1>1, <2>1, <2>2, MoveStands DEF Inv
<1>6. LockStands'
  <2>1. \A t \in Sessions : pc'[t] = IF t = s THEN "applying" ELSE pc[t]
    BY DEF Inv, CallsStand, Begin
  <2>2. \A t \in Sessions : pc[t] # "applying"
    BY NobodyIsNoSession DEF Inv, LockStands, Begin
  <2> QED
    BY <2>1, <2>2 DEF LockStands, Begin
<1>7. WorkStands'
  <2>1. work' = [plan |-> plan, results |-> <<>>] /\ owner' = s /\ plan' = plan /\ request' = request
    BY <1>2 DEF Begin, Begun, storeVars
  <2>2. work'.plan = plan /\ work'.results = <<>> /\ work' = [plan |-> work'.plan, results |-> work'.results]
    BY <2>1
  <2>3. IsList(<<>>) /\ Len(<<>>) = 0 /\ DOMAIN <<>> = {}
    BY DEF IsList
  <2>4. IsPlan(plan)
    BY DEF Inv, OnFile
  <2>5. IsWork(work')
    BY <2>2, <2>3, <2>4 DEF IsWork
  <2>6. plan.nextLink <= plan.nextLink
    BY <2>4 DEF IsPlan
  <2>7. 0 <= Len(request[s].batch)
    BY BatchesAreEntries DEF Inv, CallsStand, CallStands, Begin
  <2> QED
    BY <2>1, <2>2, <2>3, <2>5, <2>6, <2>7 DEF WorkStands
<1> QED
  BY <1>3, <1>4, <1>5, <1>6, <1>7 DEF Inv

\* The entry that is next is one of the batch.
LEMMA PendingIsOp ==
    ASSUME Inv, NEW s \in Sessions, owner = s, ~BatchDone(s)
    PROVE  IsOp(Pending(s)) /\ Len(work.results) + 1 <= Len(request[s].batch)
<1>1. IsList(work.results) /\ Len(work.results) <= Len(request[s].batch)
  BY DEF Inv, WorkStands, IsWork
<1>2. request[s].batch \in Batches
  BY DEF Inv, LockStands, CallsStand, CallStands
<1> DEFINE b == request[s].batch
<1>3. /\ b \in Seq(Range(b))
      /\ \A i \in DOMAIN b :
            /\ b[i].kind \in {"insert_row", "insert", "update"}
            /\ b[i].kind = "insert_row" =>
                  b[i].table # LinkTable /\ NoRef \notin {b[i].table} \X Nat
  BY <1>2, BatchesAreEntries
<1>4. Len(work.results) \in Nat /\ Len(b) \in Nat /\ DOMAIN b = 1..Len(b)
  BY <1>1, <1>3, ListShape
<1>5. Len(work.results) + 1 \in DOMAIN b
  BY <1>1, <1>4 DEF BatchDone
<1> HIDE DEF b
<1>6. Pending(s) = b[Len(work.results) + 1]
  BY DEF Pending, b
<1>7. Len(work.results) + 1 <= Len(b)
  BY <1>4, <1>5
<1>8. IsOp(Pending(s))
  BY <1>3, <1>5, <1>6 DEF IsOp
<1> QED
  BY <1>7, <1>8 DEF b

LEMMA ApplyNextKeeps ==
    ASSUME Inv, NEW s \in Sessions, ApplyNext(s)
    PROVE  Inv'
<1>1. /\ UNCHANGED <<storeVars, callVars, owner, gui>> /\ pc[s] = "applying" /\ ~BatchDone(s)
      /\ work' = ApplyOp(work, Pending(s))
  BY DEF ApplyNext
<1>2. owner = s
  BY <1>1 DEF Inv, LockStands
<1>3. OnFile' /\ GuiStands'
  BY <1>1, FileKept, ScreenKept DEF Inv, storeVars
<1>4. CallsStand' /\ LockStands' /\ Accounted'
  BY <1>1 DEF Inv, CallsStand, CallStands, LockStands, Accounted, storeVars, callVars
<1>5. WorkStands'
  <2>1. IsWork(work)
    BY <1>2 DEF Inv, WorkStands
  <2>2. IsOp(Pending(s)) /\ Len(work.results) + 1 <= Len(request[s].batch)
    BY <1>1, <1>2, PendingIsOp
  <2>3. Advanced(work, work')
    BY <1>1, <2>1, <2>2, EntryApplied
  <2>4. owner' = owner /\ plan' = plan /\ request' = request
    BY <1>1 DEF storeVars, callVars
  <2>5. /\ IsWork(work') /\ Len(work'.results) <= Len(request[owner].batch)
        /\ work'.plan.schema = plan.schema
    BY <1>2, <2>2, <2>3 DEF Advanced, Inv, WorkStands
  <2>6. plan.nextLink <= work'.plan.nextLink
    <3>1. plan.nextLink \in Nat /\ work.plan.nextLink \in Nat /\ work'.plan.nextLink \in Nat
      BY <2>1, <2>5 DEF Inv, OnFile, IsWork, IsPlan
    <3>2. plan.nextLink <= work.plan.nextLink /\ work.plan.nextLink <= work'.plan.nextLink
      BY <1>2, <2>3 DEF Inv, WorkStands, Advanced
    <3> QED
      BY <3>1, <3>2
  <2>7. \A r \in DOMAIN plan.rows \cup DOMAIN work'.plan.rows :
            \/ r \in Range(work'.results)
            \/ /\ r \in DOMAIN plan.rows /\ r \in DOMAIN work'.plan.rows
               /\ plan.rows[r] = work'.plan.rows[r]
    BY <1>2, <2>3 DEF Inv, WorkStands, Advanced
  <2>8. \A l \in DOMAIN plan.links \cup DOMAIN work'.plan.links :
            \/ <<LinkTable, l>> \in Range(work'.results)
            \/ /\ l \in DOMAIN plan.links /\ l \in DOMAIN work'.plan.links
               /\ plan.links[l] = work'.plan.links[l]
    BY <1>2, <2>3 DEF Inv, WorkStands, Advanced
  <2> QED
    BY <2>4, <2>5, <2>6, <2>7, <2>8 DEF WorkStands
<1> QED
  BY <1>3, <1>4, <1>5 DEF Inv

\* The lock is given back, or not held by the session that moves.
LEMMA ReleaseStands ==
    ASSUME Inv, NEW s \in Sessions, pc[s] = "applying", Release,
           NEW stage \in Stages, stage # "applying", NEW q, NEW h, Moves(s, stage, q, h)
    PROVE  LockStands' /\ WorkStands'
<1>1. owner = s /\ owner' = Nobody
  BY DEF Inv, LockStands, Release
<1>2. \A t \in Sessions : pc'[t] = IF t = s THEN stage ELSE pc[t]
  BY DEF Inv, CallsStand, Moves
<1>3. LockStands'
  BY <1>1, <1>2, NobodyIsNoSession DEF Inv, LockStands
<1>4. WorkStands'
  BY <1>1, NobodyIsNoSession DEF WorkStands
<1> QED
  BY <1>3, <1>4

LEMMA AbortKeeps ==
    ASSUME Inv, NEW s \in Sessions, Abort(s)
    PROVE  Inv'
<1>1. /\ Answer(s, Unavailable) /\ Release /\ UNCHANGED storeVars /\ UNCHANGED gui
      /\ pc[s] = "applying" /\ "told" \in Stages
  BY DEF Abort, Stages
<1>2. Moves(s, "told", NoRequest, held[s])
  BY <1>1, AnswerMoves DEF Inv
<1>3. OnFile' /\ GuiStands' /\ Accounted'
  BY <1>1, <1>2, FileKept, ScreenKept, AccountKept DEF Inv, storeVars
<1>4. LockStands' /\ WorkStands'
  BY <1>1, <1>2, ReleaseStands
<1>5. CallsStand'
  <2>1. DOMAIN snaps \subseteq DOMAIN snaps'
    BY <1>1 DEF storeVars
  <2> QED
    BY <1>1, <1>2, <2>1, MoveStands DEF Inv
<1> QED
  BY <1>3, <1>4, <1>5 DEF Inv

LEMMA CrashKeeps ==
    ASSUME Inv, NEW s \in Sessions, Crash(s)
    PROVE  Inv'
<1>1. Moves(s, "idle", NoRequest, <<>>) /\ "idle" \in Stages
  BY DEF Inv, CallsStand, Moves, Crash, IsFcn, Stages
<1>2. UNCHANGED storeVars /\ UNCHANGED gui
  BY DEF Crash
<1>3. OnFile' /\ GuiStands' /\ Accounted'
  BY <1>1, <1>2, FileKept, ScreenKept, AccountKept DEF Inv, storeVars
<1>4. LockStands' /\ WorkStands'
  <2>1. CASE owner = s
    <3>1. pc[s] = "applying" /\ Release
      BY <2>1 DEF Crash, Inv, LockStands
    <3> QED
      BY <1>1, <3>1, ReleaseStands
  <2>2. CASE owner # s
    <3>1. pc[s] # "applying" /\ UNCHANGED <<storeVars, lockVars>>
      BY <1>2, <2>2 DEF Crash, Inv, LockStands
    <3> QED
      BY <1>1, <3>1, LockKept DEF Inv
  <2> QED
    BY <2>1, <2>2
<1>5. CallsStand'
  <2>1. DOMAIN snaps \subseteq DOMAIN snaps'
    BY <1>2 DEF storeVars
  <2> QED
    BY <1>1, <2>1, MoveStands DEF Inv
<1> QED
  BY <1>3, <1>4, <1>5 DEF Inv

---------------------------------------------------------------------------
(* Steps that change the file.                                             *)

\* The ledger keeps what it has.
Kept ==
    \A k \in DOMAIN receipts :
        k \in DOMAIN receipts' /\ receipts'[k].results = receipts[k].results

LEMMA CoverKept ==
    ASSUME Kept, NEW rows, Covered(rows, receipts)
    PROVE  Covered(rows, receipts')
BY DEF Kept, Covered

\* Nobody holds the lock, before and after.
LEMMA UnlockedStands ==
    ASSUME Inv, NEW s \in Sessions, pc[s] # "applying", owner = Nobody, UNCHANGED lockVars,
           NEW stage \in Stages, stage # "applying", NEW q, NEW h, Moves(s, stage, q, h)
    PROVE  LockStands' /\ WorkStands'
<1>1. owner' = Nobody
  BY DEF lockVars
<1>2. \A t \in Sessions : pc'[t] = IF t = s THEN stage ELSE pc[t]
  BY DEF Inv, CallsStand, Moves
<1> QED
  BY <1>1, <1>2, NobodyIsNoSession DEF Inv, LockStands, WorkStands

\* The same when no call moves at all.
LEMMA QuietStands ==
    ASSUME Inv, owner = Nobody, UNCHANGED lockVars, UNCHANGED callVars,
           DOMAIN snaps \subseteq DOMAIN snaps'
    PROVE  LockStands' /\ WorkStands' /\ CallsStand'
<1>1. owner' = Nobody /\ pc' = pc /\ request' = request /\ reply' = reply /\ held' = held
  BY DEF lockVars, callVars
<1>2. LockStands' /\ WorkStands'
  BY <1>1, NobodyIsNoSession DEF Inv, LockStands, WorkStands
<1>3. \A s \in Sessions : CallStands(s)'
  BY <1>1 DEF Inv, CallsStand, CallStands
<1>4. CallsStand'
  BY <1>1, <1>3 DEF Inv, CallsStand
<1> QED
  BY <1>2, <1>4

\* A plan to put in place of the one there is.
Fits(p) ==
    /\ IsPlan(p) /\ p.schema <= shape /\ plan.nextLink <= p.nextLink
    /\ Covered(p.rows, receipts)

\* A feed to which a resync is added, when the file has one, tells the GUI to read all again.
LEMMA ResyncStands ==
    ASSUME Inv, feed' = Resynced, UNCHANGED <<shape, gui>>
    PROVE  /\ GuiStands'
           /\ IsList(feed') /\ \A i \in DOMAIN feed' : feed'[i] = Resync \/ IsRef(feed'[i].ref)
<1>1. IsList(feed) /\ Len(feed) \in Nat /\ DOMAIN feed = 1..Len(feed)
  BY ListShape DEF Inv, OnFile
<1>2. CASE shape >= FeedSchema
  <2>1. feed' = Append(feed, Resync)
    BY <1>2 DEF Resynced
  <2>2. /\ IsList(feed') /\ Len(feed') = Len(feed) + 1
        /\ DOMAIN feed' = DOMAIN feed \cup {Len(feed) + 1}
        /\ \A i \in DOMAIN feed : feed'[i] = feed[i]
        /\ feed'[Len(feed) + 1] = Resync
    BY <1>1, <2>1, ListAppend
  <2>3. \A i \in DOMAIN feed' : feed'[i] = Resync \/ IsRef(feed'[i].ref)
    BY <2>2 DEF Inv, OnFile
  <2>4. gui' = gui /\ gui.cursor \in 0..Len(feed)
    BY DEF Inv, GuiStands
  <2>5. gui'.cursor \in 0..Len(feed') /\ Len(feed) + 1 \in (gui'.cursor + 1)..Len(feed')
    BY <1>1, <2>2, <2>4
  <2>6. ResyncAhead'
    BY <2>2, <2>5 DEF ResyncAhead
  <2>7. GuiStands'
    BY <1>2, <2>4, <2>5, <2>6 DEF Inv, GuiStands
  <2> QED
    BY <2>2, <2>3, <2>7
<1>3. CASE ~(shape >= FeedSchema)
  <2>1. feed' = feed /\ gui' = gui /\ gui.reload
    BY <1>3 DEF Resynced, Inv, GuiStands
  <2>2. GuiStands'
    BY <2>1 DEF Inv, GuiStands
  <2> QED
    BY <2>1, <2>2 DEF Inv, OnFile
<1> QED
  BY <1>2, <1>3

LEMMA RewriteStands ==
    ASSUME Inv, Fits(plan'), feed' = Resynced, UNCHANGED <<shape, receipts, snaps, gui>>
    PROVE  OnFile' /\ GuiStands' /\ Covered(plan'.rows, receipts')
           /\ \A i \in DOMAIN snaps' : Covered(snaps'[i].rows, receipts')
<1>1. /\ GuiStands' /\ IsList(feed')
      /\ \A i \in DOMAIN feed' : feed'[i] = Resync \/ IsRef(feed'[i].ref)
  BY ResyncStands
<1>2. \A i \in DOMAIN snaps : snaps[i].nextLink <= plan'.nextLink
  <2> TAKE i \in DOMAIN snaps
  <2>1. snaps[i].nextLink <= plan.nextLink /\ plan.nextLink <= plan'.nextLink
    BY DEF Inv, OnFile, Fits
  <2>2. snaps[i].nextLink \in Nat /\ plan.nextLink \in Nat /\ plan'.nextLink \in Nat
    BY DEF Inv, OnFile, Fits, IsPlan
  <2> QED
    BY <2>1, <2>2
<1>3. OnFile'
  BY <1>1, <1>2 DEF Inv, OnFile, Fits
<1>4. Covered(plan'.rows, receipts') /\ \A i \in DOMAIN snaps' : Covered(snaps'[i].rows, receipts')
  BY DEF Inv, Accounted, Fits
<1> QED
  BY <1>1, <1>3, <1>4

\* What a session reads does not change while others act.
LEMMA ReadersAccounted ==
    ASSUME Inv, Kept, NEW s \in Sessions,
           NEW stage \in Stages, stage # "reading", NEW q, NEW h, Moves(s, stage, q, h)
    PROVE  \A t \in Sessions : pc'[t] = "reading" => Covered(held'[t][2], receipts')
<1>1. \A t \in Sessions : IF t = s THEN pc'[t] = stage
                          ELSE pc'[t] = pc[t] /\ held'[t] = held[t]
  BY DEF Inv, CallsStand, Moves
<1>2. \A t \in Sessions : pc[t] = "reading" => Covered(held[t][2], receipts')
  BY CoverKept DEF Inv, Accounted
<1> QED
  BY <1>1, <1>2

\* A snapshot, with the links counter of the plan, fits.
LEMMA SnapshotFits ==
    ASSUME Inv, NEW i \in DOMAIN snaps
    PROVE  Fits([snaps[i] EXCEPT !.nextLink = plan.nextLink])
<1> DEFINE p == [snaps[i] EXCEPT !.nextLink = plan.nextLink]
<1>1. IsPlan(snaps[i]) /\ snaps[i].nextLink <= plan.nextLink /\ snaps[i].schema <= shape
      /\ Covered(snaps[i].rows, receipts)
  BY DEF Inv, OnFile, Accounted
<1>2. plan.nextLink \in Nat /\ plan.nextLink <= plan.nextLink
  BY DEF Inv, OnFile, IsPlan
<1>3. PICK rows, links, n, v :
              /\ snaps[i] = [rows |-> rows, links |-> links, nextLink |-> n, schema |-> v]
              /\ IsTable(rows) /\ IsFcn(links)
              /\ n \in Nat /\ (\A l \in DOMAIN links : l \in Nat /\ l < n)
              /\ v \in SchemaVersions
  BY <1>1, PlanParts
<1>4. p = [rows |-> rows, links |-> links, nextLink |-> plan.nextLink, schema |-> v]
  BY <1>3
<1>5. \A l \in DOMAIN links : l \in Nat /\ l < plan.nextLink
  BY <1>1, <1>2, <1>3
<1> HIDE DEF p
<1>6. IsPlan(p)
  BY <1>2, <1>3, <1>4, <1>5, PlanMade
<1>7. p.schema <= shape /\ plan.nextLink <= p.nextLink /\ Covered(p.rows, receipts)
  BY <1>1, <1>2, <1>3, <1>4
<1> QED
  BY <1>6, <1>7 DEF Fits, p

LEMMA FailMigrationKeeps ==
    ASSUME Inv, NEW s \in Sessions, FailMigration(s)
    PROVE  Inv'
<1>1. /\ pc[s] = "migrating" /\ owner = Nobody
      /\ RestorePayload(snaps[held[s][2]])
      /\ UNCHANGED <<shape, receipts, snaps, lockVars, gui>>
  BY DEF FailMigration
<1>2. Moves(s, "idle", request[s], <<>>) /\ "idle" \in Stages
  BY DEF Inv, CallsStand, Moves, FailMigration, IsFcn, Stages
<1>3. held[s][2] \in DOMAIN snaps
  BY <1>1 DEF Inv, CallsStand, CallStands
<1>4. Fits(plan') /\ feed' = Resynced
  BY <1>1, <1>3, SnapshotFits DEF RestorePayload
<1>5. OnFile' /\ GuiStands' /\ Covered(plan'.rows, receipts')
      /\ \A i \in DOMAIN snaps' : Covered(snaps'[i].rows, receipts')
  BY <1>1, <1>4, RewriteStands
<1>6. LockStands' /\ WorkStands'
  BY <1>1, <1>2, UnlockedStands
<1>7. CallsStand'
  BY <1>1, <1>2, MoveStands DEF Inv
<1>8. Accounted'
  <2>1. Kept
    BY <1>1 DEF Kept
  <2> QED
    BY <1>2, <1>5, <2>1, ReadersAccounted DEF Accounted
<1> QED
  BY <1>5, <1>6, <1>7, <1>8 DEF Inv

\* A rewrite of the plan while no call moves.
LEMMA RecoveryStands ==
    ASSUME Inv, NEW s \in Sessions, Recovers(s), Fits(plan'), feed' = Resynced,
           UNCHANGED <<shape, receipts, snaps, callVars, lockVars, gui>>
    PROVE  Inv'
<1>1. OnFile' /\ GuiStands' /\ Covered(plan'.rows, receipts')
      /\ \A i \in DOMAIN snaps' : Covered(snaps'[i].rows, receipts')
  BY RewriteStands
<1>2. LockStands' /\ WorkStands' /\ CallsStand'
  BY QuietStands DEF Recovers
<1>3. Accounted'
  BY <1>1 DEF Accounted, Inv, callVars
<1> QED
  BY <1>1, <1>2, <1>3 DEF Inv

LEMMA RestoreKeeps ==
    ASSUME Inv, NEW s \in Sessions, NEW i \in DOMAIN snaps, Restore(s, i)
    PROVE  Inv'
<1>1. Recovers(s) /\ RestorePayload(snaps[i])
      /\ UNCHANGED <<shape, receipts, snaps, callVars, lockVars, gui>>
  BY DEF Restore
<1>2. Fits(plan') /\ feed' = Resynced
  BY <1>1, SnapshotFits DEF RestorePayload
<1> QED
  BY <1>1, <1>2, RecoveryStands

LEMMA RestartKeeps ==
    ASSUME Inv, NEW s \in Sessions, Restart(s)
    PROVE  Inv'
<1>1. Recovers(s) /\ feed' = Resynced
      /\ plan' = [EmptyPlan(plan.schema) EXCEPT !.nextLink = plan.nextLink]
      /\ UNCHANGED <<shape, receipts, snaps, callVars, lockVars, gui>>
  BY DEF Restart
<1>2. plan.schema \in SchemaVersions /\ plan.nextLink \in Nat /\ plan.schema <= shape
  BY DEF Inv, OnFile, IsPlan
<1>3. plan' = [rows |-> EmptyFcn, links |-> EmptyFcn, nextLink |-> plan.nextLink,
               schema |-> plan.schema]
  BY <1>1 DEF EmptyPlan
<1>4. DOMAIN EmptyFcn = {} /\ IsFcn(EmptyFcn)
  BY DEF EmptyFcn, IsFcn
<1>5. IsTable(EmptyFcn)
  BY <1>4, FS_EmptySet DEF IsTable
<1>6. IsPlan(plan')
  BY <1>2, <1>3, <1>4, <1>5, PlanMade
<1>7. Fits(plan')
  BY <1>2, <1>3, <1>4, <1>6 DEF Fits, Covered
<1> QED
  BY <1>1, <1>7, RecoveryStands

LEMMA SalvageKeeps ==
    ASSUME Inv, NEW s \in Sessions, Salvage(s)
    PROVE  Inv'
<1>1. /\ pc[s] = "inspected" /\ owner = Nobody /\ feed' = Resynced
      /\ plan' = [plan EXCEPT !.rows = Without(plan.rows, held[s][1])]
      /\ UNCHANGED <<shape, receipts, snaps, lockVars, gui>>
  BY DEF Salvage
<1>2. Moves(s, "idle", request[s], <<>>) /\ "idle" \in Stages
  BY DEF Inv, CallsStand, Moves, Salvage, IsFcn, Stages
<1>3. Fits(plan')
  <2>1. PICK rows, links, n, v :
              /\ plan = [rows |-> rows, links |-> links, nextLink |-> n, schema |-> v]
              /\ IsTable(rows) /\ IsFcn(links)
              /\ n \in Nat /\ (\A l \in DOMAIN links : l \in Nat /\ l < n)
              /\ v \in SchemaVersions
    BY PlanParts DEF Inv, OnFile
  <2>2. PICK left : left = Without(rows, held[s][1])
    OBVIOUS
  <2>3. plan' = [rows |-> left, links |-> links, nextLink |-> n, schema |-> v]
    BY <1>1, <2>1, <2>2
  <2>4. IsFcn(left) /\ DOMAIN left \subseteq DOMAIN rows
    BY <2>2 DEF Without, IsFcn
  <2>5. IsTable(left)
    BY <2>1, <2>4, FS_Subset DEF IsTable
  <2>6. IsPlan(plan')
    BY <2>1, <2>3, <2>5, PlanMade
  <2>7. n <= n /\ v <= shape
    BY <2>1 DEF Inv, OnFile
  <2>8. Covered(left, receipts)
    BY <2>1, <2>4 DEF Inv, Accounted, Covered
  <2> QED
    BY <2>1, <2>3, <2>6, <2>7, <2>8 DEF Fits
<1>5. OnFile' /\ GuiStands' /\ Covered(plan'.rows, receipts')
      /\ \A i \in DOMAIN snaps' : Covered(snaps'[i].rows, receipts')
  BY <1>1, <1>3, RewriteStands
<1>6. LockStands' /\ WorkStands'
  BY <1>1, <1>2, UnlockedStands
<1>7. CallsStand'
  BY <1>1, <1>2, MoveStands DEF Inv
<1>8. Accounted'
  <2>1. Kept
    BY <1>1 DEF Kept
  <2> QED
    BY <1>2, <1>5, <2>1, ReadersAccounted DEF Accounted
<1> QED
  BY <1>5, <1>6, <1>7, <1>8 DEF Inv

LEMMA AnnotateKeeps ==
    ASSUME Inv, NEW s \in Sessions, Annotate(s)
    PROVE  Inv' /\ Kept
<1> DEFINE key == reply[s].key
<1>1. /\ owner = Nobody /\ receipts' = [receipts EXCEPT ![key].annotated = TRUE]
      /\ UNCHANGED <<plan, shape, feed, snaps, callVars, lockVars, gui>>
  BY DEF Annotate
<1> HIDE DEF key
<1>2. IsFcn(receipts') /\ DOMAIN receipts' = DOMAIN receipts
  BY <1>1 DEF Inv, OnFile, IsFcn
<1>3. \A k \in DOMAIN receipts :
        /\ receipts'[k].results = receipts[k].results
        /\ receipts'[k] = [results |-> receipts'[k].results, annotated |-> receipts'[k].annotated]
        /\ receipts'[k].annotated \in BOOLEAN
  <2> TAKE k \in DOMAIN receipts
  <2>1. /\ receipts[k] = [results |-> receipts[k].results, annotated |-> receipts[k].annotated]
        /\ receipts[k].annotated \in BOOLEAN
    BY DEF Inv, OnFile
  <2>2. receipts'[k] = IF k = key THEN [receipts[k] EXCEPT !.annotated = TRUE] ELSE receipts[k]
    BY <1>1
  <2>3. PICK r, a : receipts[k] = [results |-> r, annotated |-> a] /\ a \in BOOLEAN
    BY <2>1, Zenon
  <2>4. CASE k = key
    <3>1. PICK yes : yes = TRUE
      OBVIOUS
    <3>2. [receipts[k] EXCEPT !.annotated = yes] = [results |-> r, annotated |-> yes]
      BY <2>3
    <3>3. receipts'[k] = [results |-> r, annotated |-> yes]
      BY <2>2, <2>4, <3>1, <3>2
    <3> QED
      BY <2>3, <3>1, <3>3
  <2>5. CASE k # key
    BY <2>1, <2>2, <2>5
  <2> QED
    BY <2>4, <2>5
<1>4. OnFile'
  BY <1>1, <1>2, <1>3 DEF Inv, OnFile
<1>5. Kept
  BY <1>2, <1>3 DEF Kept
<1>6. LockStands' /\ WorkStands' /\ CallsStand'
  BY <1>1, QuietStands
<1>7. GuiStands'
  BY <1>1, ScreenKept DEF Inv
<1>8. Accounted'
  BY <1>1, <1>5, CoverKept DEF Inv, Accounted, callVars
<1> QED
  BY <1>4, <1>5, <1>6, <1>7, <1>8 DEF Inv

LEMMA StoreSnapshotKeeps ==
    ASSUME Inv, NEW s \in Sessions, StoreSnapshot(s)
    PROVE  Inv'
<1>1. /\ pc[s] = "reading" /\ owner = Nobody
      /\ snaps' = Append(snaps, [plan EXCEPT !.rows = held[s][2]])
      /\ UNCHANGED <<plan, shape, receipts, feed, lockVars, gui, request, reply>>
  BY DEF StoreSnapshot
<1> DEFINE new == [plan EXCEPT !.rows = held[s][2]]
<1>2. /\ held[s][1] \in {0} \cup SchemaVersions /\ IsTable(held[s][2])
      /\ Covered(held[s][2], receipts)
  BY <1>1 DEF Inv, CallsStand, CallStands, Accounted
<1>3. IsList(snaps) /\ Len(snaps) \in Nat /\ DOMAIN snaps = 1..Len(snaps)
  BY ListShape DEF Inv, OnFile
<1>4. /\ IsList(snaps') /\ DOMAIN snaps' = DOMAIN snaps \cup {Len(snaps) + 1}
      /\ \A i \in DOMAIN snaps : snaps'[i] = snaps[i]
      /\ snaps'[Len(snaps) + 1] = new
  BY <1>1, <1>3, ListAppend
<1>5. /\ IsPlan(new) /\ new.schema = plan.schema /\ new.nextLink = plan.nextLink
      /\ new.rows = held[s][2]
  <2>1. PICK rows, links, n, v :
              /\ plan = [rows |-> rows, links |-> links, nextLink |-> n, schema |-> v]
              /\ IsTable(rows) /\ IsFcn(links)
              /\ n \in Nat /\ (\A l \in DOMAIN links : l \in Nat /\ l < n)
              /\ v \in SchemaVersions
    BY PlanParts DEF Inv, OnFile
  <2>2. new = [rows |-> held[s][2], links |-> links, nextLink |-> n, schema |-> v]
    BY <2>1
  <2> HIDE DEF new
  <2>3. IsPlan(new)
    BY <1>2, <2>1, <2>2, PlanMade
  <2> QED
    BY <2>1, <2>2, <2>3
<1> HIDE DEF new
<1>6. OnFile'
  <2>1. plan.nextLink <= plan.nextLink /\ plan.schema <= shape
    BY DEF Inv, OnFile, IsPlan
  <2> QED
    BY <1>1, <1>4, <1>5, <2>1 DEF Inv, OnFile
<1>7. GuiStands'
  BY <1>1, ScreenKept DEF Inv
<1>8. PICK stage, h :
         /\ stage \in Stages /\ stage \in {"idle", "migrating"} /\ Moves(s, stage, request[s], h)
         /\ stage = "migrating" => h[1] \in SchemaVersions /\ h[2] \in DOMAIN snaps'
  <2>1. CASE held[s][1] \in {0, plan.schema}
    <3>1. Moves(s, "idle", request[s], <<>>) /\ "idle" \in Stages
      BY <2>1 DEF Inv, CallsStand, Moves, StoreSnapshot, IsFcn, Stages
    <3> QED
      BY <3>1
  <2>2. CASE held[s][1] \notin {0, plan.schema}
    <3> DEFINE h == <<held[s][1], Len(snaps) + 1>>
    <3>1. Moves(s, "migrating", request[s], h) /\ "migrating" \in Stages
      BY <2>2 DEF Inv, CallsStand, Moves, StoreSnapshot, IsFcn, Stages
    <3>2. h[1] \in SchemaVersions /\ h[2] \in DOMAIN snaps'
      BY <1>2, <1>4, <2>2
    <3> HIDE DEF h
    <3> QED
      BY <3>1, <3>2
  <2> QED
    BY <2>1, <2>2
<1>9. LockStands' /\ WorkStands'
  BY <1>1, <1>8, UnlockedStands
<1>10. CallsStand'
  BY <1>4, <1>8, MoveStands DEF Inv
<1>11. Accounted'
  <2>1. Kept
    BY <1>1 DEF Kept
  <2>2. \A t \in Sessions : pc'[t] = "reading" => Covered(held'[t][2], receipts')
    BY <1>8, <2>1, ReadersAccounted
  <2>3. \A i \in DOMAIN snaps' : Covered(snaps'[i].rows, receipts)
    BY <1>2, <1>4, <1>5 DEF Inv, Accounted
  <2> QED
    BY <1>1, <2>2, <2>3 DEF Inv, Accounted
<1> QED
  BY <1>6, <1>7, <1>9, <1>10, <1>11 DEF Inv

\* Parts of the plan changed alone.
LEMMA SchemaSet ==
    ASSUME NEW p, IsPlan(p), NEW sc \in SchemaVersions
    PROVE  LET q == [p EXCEPT !.schema = sc]
           IN  /\ IsPlan(q) /\ q.rows = p.rows /\ q.links = p.links
               /\ q.nextLink = p.nextLink /\ q.schema = sc
<1> DEFINE q == [p EXCEPT !.schema = sc]
<1>1. PICK rows, links, n, v :
              /\ p = [rows |-> rows, links |-> links, nextLink |-> n, schema |-> v]
              /\ IsTable(rows) /\ IsFcn(links)
              /\ n \in Nat /\ (\A l \in DOMAIN links : l \in Nat /\ l < n)
              /\ v \in SchemaVersions
  BY PlanParts
<1>2. q = [rows |-> rows, links |-> links, nextLink |-> n, schema |-> sc]
  BY <1>1
<1> HIDE DEF q
<1>3. IsPlan(q)
  BY <1>1, <1>2, PlanMade
<1>4. IsPlan(q) /\ q.rows = p.rows /\ q.links = p.links /\ q.nextLink = p.nextLink /\ q.schema = sc
  BY <1>1, <1>2, <1>3
<1> QED
  BY <1>4 DEF q

LEMMA MigrateKeeps ==
    ASSUME Inv, NEW s \in Sessions, Migrate(s)
    PROVE  Inv'
<1> DEFINE to == held[s][1]
<1>1. /\ pc[s] = "migrating" /\ owner = Nobody
      /\ plan' = [plan EXCEPT !.schema = to]
      /\ shape' = IF shape > to THEN shape ELSE to
      /\ UNCHANGED <<receipts, feed, snaps, lockVars, gui, request, reply>>
  BY DEF Migrate
<1>2. Moves(s, "idle", request[s], <<>>) /\ "idle" \in Stages
  BY DEF Inv, CallsStand, Moves, Migrate, IsFcn, Stages
<1>3. to \in SchemaVersions
  BY <1>1 DEF Inv, CallsStand, CallStands
<1> HIDE DEF to
<1>4. /\ IsPlan(plan') /\ plan'.rows = plan.rows /\ plan'.links = plan.links
      /\ plan'.nextLink = plan.nextLink /\ plan'.schema = to
  BY <1>1, <1>3, SchemaSet DEF Inv, OnFile
<1>5. shape \in SchemaVersions /\ shape' \in SchemaVersions /\ shape <= shape' /\ to <= shape'
  BY <1>1, <1>3 DEF Inv, OnFile, SchemaVersions
<1>6. OnFile'
  <2>1. \A i \in DOMAIN snaps : snaps[i].schema <= shape'
    <3> TAKE i \in DOMAIN snaps
    <3>1. snaps[i].schema \in SchemaVersions /\ snaps[i].schema <= shape
      BY DEF Inv, OnFile, IsPlan
    <3> QED
      BY <1>5, <3>1 DEF SchemaVersions
  <2> QED
    BY <1>1, <1>4, <1>5, <2>1 DEF Inv, OnFile
<1>7. LockStands' /\ WorkStands'
  BY <1>1, <1>2, UnlockedStands
<1>8. CallsStand'
  BY <1>1, <1>2, MoveStands DEF Inv
<1>9. Accounted'
  <2>1. Kept
    BY <1>1 DEF Kept
  <2>2. \A t \in Sessions : pc'[t] = "reading" => Covered(held'[t][2], receipts')
    BY <1>2, <2>1, ReadersAccounted
  <2> QED
    BY <1>1, <1>4, <2>2 DEF Inv, Accounted
<1>10. GuiStands'
  <2>1. Awaited' = Awaited /\ (ResyncAhead' <=> ResyncAhead)
    BY <1>1 DEF Awaited, ResyncAhead
  <2>2. Shown => Shown'
    BY <1>1, <1>4, <2>1 DEF Shown
  <2>3. shape >= FeedSchema => shape' >= FeedSchema
    BY <1>5 DEF FeedSchema, SchemaVersions
  <2> QED
    BY <1>1, <2>1, <2>2, <2>3 DEF Inv, GuiStands
<1> QED
  BY <1>6, <1>7, <1>8, <1>9, <1>10 DEF Inv

LEMMA DecayKeeps ==
    ASSUME Inv, NEW r \in Readable, Decay(r)
    PROVE  Inv'
<1>1. /\ \A s \in Sessions : pc[s] = "idle"
      /\ plan' = [plan EXCEPT !.rows = [plan.rows EXCEPT ![r] = Broken]]
      /\ UNCHANGED <<shape, receipts, feed, snaps, callVars, lockVars, gui>>
  BY DEF Decay
<1>2. PICK rows, links, n, v :
              /\ plan = [rows |-> rows, links |-> links, nextLink |-> n, schema |-> v]
              /\ IsTable(rows) /\ IsFcn(links)
              /\ n \in Nat /\ (\A l \in DOMAIN links : l \in Nat /\ l < n)
              /\ v \in SchemaVersions
  BY PlanParts DEF Inv, OnFile
<1>3. PICK broken : broken = [rows EXCEPT ![r] = Broken]
  OBVIOUS
<1>4. plan' = [rows |-> broken, links |-> links, nextLink |-> n, schema |-> v]
  BY <1>1, <1>2, <1>3
<1>5. r \in DOMAIN rows
  BY <1>2 DEF Readable
<1>6. /\ IsFcn(broken) /\ DOMAIN broken = DOMAIN rows
      /\ \A q \in DOMAIN rows : broken[q] = Broken \/ broken[q] = rows[q]
  BY <1>3, <1>5 DEF IsFcn
<1>7. IsTable(broken)
  BY <1>2, <1>6 DEF IsTable
<1>8. IsPlan(plan')
  BY <1>2, <1>4, <1>7, PlanMade
<1>9. owner = Nobody
  BY <1>1 DEF Inv, LockStands
<1>10. LockStands' /\ WorkStands' /\ CallsStand'
  BY <1>1, <1>9, QuietStands
<1>11. OnFile'
  BY <1>1, <1>2, <1>4, <1>8 DEF Inv, OnFile
<1>12. Accounted'
  <2>1. Covered(broken, receipts)
    BY <1>2, <1>6 DEF Inv, Accounted, Covered
  <2> QED
    BY <1>1, <1>4, <2>1 DEF Inv, Accounted, callVars
<1>13. GuiStands'
  <2>1. Awaited' = Awaited /\ (ResyncAhead' <=> ResyncAhead)
    BY <1>1 DEF Awaited, ResyncAhead
  <2>2. Shown => Shown'
    BY <1>1, <1>2, <1>4, <1>6, <2>1 DEF Shown
  <2> QED
    BY <1>1, <2>1, <2>2 DEF Inv, GuiStands
<1> QED
  BY <1>10, <1>11, <1>12, <1>13 DEF Inv

---------------------------------------------------------------------------
(* A commit.                                                               *)

\* The work is whole: every entry of the batch has its result.
LEMMA WorkIsWhole ==
    ASSUME Inv, NEW s \in Sessions, Commit(s)
    PROVE  /\ owner = s /\ IsWork(work)
           /\ Announces(Announced(request[s].batch, work.results), work.results)
<1>1. pc[s] = "applying" /\ BatchDone(s)
  BY DEF Commit
<1>2. owner = s
  BY <1>1 DEF Inv, LockStands
<1>3. IsWork(work)
  BY <1>2 DEF Inv, WorkStands
<1>4. PICK b : b = request[s].batch
  OBVIOUS
<1>5. DOMAIN b = 1..Len(b) /\ Len(b) \in Nat
  <2>1. b \in Batches
    BY <1>1, <1>4 DEF Inv, CallsStand, CallStands
  <2>2. b \in Seq(Range(b))
    BY <2>1, BatchesAreEntries
  <2> QED
    BY <2>2
<1>6. Len(work.results) = Len(b)
  BY <1>1, <1>4 DEF BatchDone
<1>7. Announces(Announced(b, work.results), work.results)
  BY <1>3, <1>5, <1>6, TouchedIsAnnounced DEF IsWork
<1> QED
  BY <1>2, <1>3, <1>4, <1>7

LEMMA CommitKept ==
    ASSUME Inv, NEW s \in Sessions, Commit(s)
    PROVE  /\ Kept /\ IsFcn(receipts') /\ DOMAIN receipts' = DOMAIN receipts \cup {request[s].key}
           /\ receipts'[request[s].key] = [results |-> work.results, annotated |-> FALSE]
           /\ \A k \in DOMAIN receipts : receipts'[k] = receipts[k]
<1>1. PICK key, entry : key = request[s].key /\ entry = [results |-> work.results, annotated |-> FALSE]
  OBVIOUS
<1>2. key \notin DOMAIN receipts /\ receipts' = Put(receipts, key, entry)
  BY <1>1 DEF Commit, KeyUnused
<1>3. /\ IsFcn(receipts') /\ DOMAIN receipts' = DOMAIN receipts \cup {key}
      /\ receipts'[key] = entry
      /\ \A k \in DOMAIN receipts : receipts'[k] = receipts[k]
  BY <1>2 DEF Put, IsFcn
<1> QED
  BY <1>1, <1>3 DEF Kept

LEMMA CommitKeeps ==
    ASSUME Inv, NEW s \in Sessions, Commit(s)
    PROVE  Inv'
<1> DEFINE news == Announced(request[s].batch, work.results)
           key == request[s].key
<1>1. /\ pc[s] = "applying" /\ plan' = work.plan /\ feed' = feed \o news
      /\ Release /\ Answer(s, Answered(key, work.results, FALSE))
      /\ UNCHANGED <<shape, snaps, gui>>
  BY DEF Commit
<1>2. owner = s /\ IsWork(work) /\ Announces(news, work.results)
  BY WorkIsWhole
<1>3. /\ Kept /\ IsFcn(receipts') /\ DOMAIN receipts' = DOMAIN receipts \cup {key}
      /\ receipts'[key] = [results |-> work.results, annotated |-> FALSE]
      /\ \A k \in DOMAIN receipts : receipts'[k] = receipts[k]
  BY CommitKept
<1>4. Moves(s, "told", NoRequest, held[s]) /\ "told" \in Stages
  BY <1>1, AnswerMoves DEF Inv, Stages
<1>5. /\ IsList(feed') /\ Len(feed) \in Nat /\ Len(news) \in Nat
      /\ Len(feed') = Len(feed) + Len(news)
      /\ DOMAIN feed = 1..Len(feed) /\ DOMAIN news = 1..Len(news)
      /\ DOMAIN feed' = 1..(Len(feed) + Len(news))
      /\ \A i \in 1..Len(feed) : feed'[i] = feed[i]
      /\ \A i \in 1..Len(news) : feed'[Len(feed) + i] = news[i]
  <2>1. IsList(feed) /\ IsList(news)
    BY <1>2 DEF Inv, OnFile, Announces
  <2>2. PICK S, T : feed \in Seq(S) /\ news \in Seq(T)
    BY <2>1 DEF IsList
  <2> HIDE DEF news
  <2>3. feed \in Seq(S \cup T) /\ news \in Seq(S \cup T)
    BY <2>2
  <2>4. feed' \in Seq(S \cup T)
    BY <1>1, <2>3
  <2>5. /\ Len(feed) \in Nat /\ Len(news) \in Nat
        /\ Len(feed') = Len(feed) + Len(news)
        /\ DOMAIN feed = 1..Len(feed) /\ DOMAIN news = 1..Len(news)
        /\ DOMAIN feed' = 1..(Len(feed) + Len(news))
    BY <1>1, <2>3
  <2>6. \A i \in 1..Len(feed) : feed'[i] = feed[i]
    BY <1>1, <2>3, <2>5
  <2>7. \A i \in 1..Len(news) : feed'[Len(feed) + i] = news[i]
    BY <1>1, <2>3, <2>5
  <2> QED
    BY <2>4, <2>5, <2>6, <2>7 DEF IsList
<1> HIDE DEF news, key
<1>6. \A i \in DOMAIN feed' : feed'[i] = Resync \/ IsRef(feed'[i].ref)
  <2> TAKE i \in DOMAIN feed'
  <2>1. CASE i \in 1..Len(feed)
    BY <1>5, <2>1 DEF Inv, OnFile
  <2>2. CASE i \notin 1..Len(feed)
    <3>1. PICK j \in 1..Len(news) : i = Len(feed) + j
      <4>1. i - Len(feed) \in 1..Len(news) /\ i = Len(feed) + (i - Len(feed))
        BY <1>5, <2>2
      <4> QED
        BY <4>1
    <3> QED
      BY <1>2, <1>5, <3>1 DEF Announces
  <2> QED
    BY <2>1, <2>2
<1>7. /\ IsPlan(plan') /\ plan'.schema = plan.schema /\ plan.nextLink <= plan'.nextLink
      /\ \A r \in DOMAIN plan.rows \cup DOMAIN plan'.rows :
            \/ r \in Range(work.results)
            \/ /\ r \in DOMAIN plan.rows /\ r \in DOMAIN plan'.rows
               /\ plan.rows[r] = plan'.rows[r]
      /\ \A l \in DOMAIN plan.links \cup DOMAIN plan'.links :
            \/ <<LinkTable, l>> \in Range(work.results)
            \/ /\ l \in DOMAIN plan.links /\ l \in DOMAIN plan'.links
               /\ plan.links[l] = plan'.links[l]
  BY <1>1, <1>2 DEF Inv, WorkStands, IsWork
<1>8. OnFile'
  <2>1. \A i \in DOMAIN snaps : snaps[i].nextLink <= plan'.nextLink
    <3> TAKE i \in DOMAIN snaps
    <3>1. snaps[i].nextLink \in Nat /\ plan.nextLink \in Nat /\ plan'.nextLink \in Nat
      BY <1>7 DEF Inv, OnFile, IsPlan
    <3>2. snaps[i].nextLink <= plan.nextLink
      BY DEF Inv, OnFile
    <3> QED
      BY <1>7, <3>1, <3>2
  <2>2. key \in Keys
    BY <1>1 DEF Inv, CallsStand, CallStands, key
  <2>3. \A k \in DOMAIN receipts' :
            /\ receipts'[k] = [results |-> receipts'[k].results, annotated |-> receipts'[k].annotated]
            /\ receipts'[k].annotated \in BOOLEAN
    <3> TAKE k \in DOMAIN receipts'
    <3>1. CASE k = key
      <4>1. PICK no : no = FALSE
        OBVIOUS
      <4>2. receipts'[k] = [results |-> work.results, annotated |-> no]
        BY <1>3, <3>1, <4>1, Zenon
      <4>3. no \in BOOLEAN
        BY <4>1
      <4> QED
        BY <4>2, <4>3
    <3>2. CASE k # key
      BY <1>3, <3>2 DEF Inv, OnFile
    <3> QED
      BY <3>1, <3>2
  <2> QED
    BY <1>1, <1>3, <1>5, <1>6, <1>7, <2>1, <2>2, <2>3 DEF Inv, OnFile
<1>9. LockStands' /\ WorkStands'
  BY <1>1, <1>4, ReleaseStands
<1>10. CallsStand'
  BY <1>1, <1>4, MoveStands DEF Inv
<1>11. Accounted'
  <2>1. Covered(plan'.rows, receipts')
    <3> SUFFICES ASSUME NEW r \in DOMAIN plan'.rows
                 PROVE  \E k \in DOMAIN receipts' : r \in Range(receipts'[k].results)
      BY DEF Covered
    <3>1. CASE r \in Range(work.results)
      BY <1>3, <3>1
    <3>2. CASE r \notin Range(work.results)
      <4>1. r \in DOMAIN plan.rows
        BY <1>7, <3>2
      <4> QED
        BY <1>3, <4>1, CoverKept DEF Inv, Accounted, Covered
    <3> QED
      BY <3>1, <3>2
  <2>2. \A i \in DOMAIN snaps : Covered(snaps[i].rows, receipts')
    BY <1>3, CoverKept DEF Inv, Accounted
  <2>3. \A t \in Sessions : pc'[t] = "reading" => Covered(held'[t][2], receipts')
    BY <1>3, <1>4, ReadersAccounted
  <2> QED
    BY <1>1, <2>1, <2>2, <2>3 DEF Accounted
<1>12. GuiStands'
  <2>1. gui' = gui /\ gui.cursor \in 0..Len(feed)
    BY <1>1 DEF Inv, GuiStands
  <2>2. gui.cursor \in 0..Len(feed')
    BY <1>5, <2>1
  <2>3. Awaited \subseteq Awaited'
    <3>1. \A i \in (gui.cursor + 1)..Len(feed) : i \in (gui.cursor + 1)..Len(feed') /\ feed'[i] = feed[i]
      BY <1>5, <2>1
    <3> QED
      BY <2>1, <3>1 DEF Awaited
  <2>4. \A r \in Range(work.results) : r # NoRef => r \in Awaited'
    <3> SUFFICES ASSUME NEW r \in Range(work.results), r # NoRef PROVE r \in Awaited'
      OBVIOUS
    <3>1. PICK i \in DOMAIN news : news[i].ref = r
      BY <1>2 DEF Announces
    <3>2. Len(feed) + i \in (gui.cursor + 1)..Len(feed') /\ feed'[Len(feed) + i] = news[i]
      BY <1>5, <2>1
    <3> QED
      BY <2>1, <3>1, <3>2 DEF Awaited
  <2>5. ResyncAhead => ResyncAhead'
    <3>1. \A i \in (gui.cursor + 1)..Len(feed) : i \in (gui.cursor + 1)..Len(feed') /\ feed'[i] = feed[i]
      BY <1>5, <2>1
    <3> QED
      BY <2>1, <3>1 DEF ResyncAhead
  <2>6. Shown => Shown'
    <3> SUFFICES ASSUME Shown PROVE Shown'
      OBVIOUS
    <3>1. ASSUME NEW r \in DOMAIN gui.rows \cup DOMAIN plan'.rows, r \notin Awaited'
          PROVE  /\ r \in DOMAIN gui.rows /\ r \in DOMAIN plan'.rows
                 /\ plan'.rows[r] = Broken \/ plan'.rows[r] = gui.rows[r]
      <4>1. r # NoRef
        BY <1>7 DEF Inv, GuiStands, IsPlan, IsTable, IsRowRef
      <4>2. r \notin Range(work.results) /\ r \notin Awaited
        BY <2>3, <2>4, <3>1, <4>1
      <4>3. r \in DOMAIN gui.rows \cup DOMAIN plan.rows
        BY <1>7, <3>1, <4>2
      <4>4. /\ r \in DOMAIN gui.rows /\ r \in DOMAIN plan.rows
            /\ plan.rows[r] = Broken \/ plan.rows[r] = gui.rows[r]
        BY <4>2, <4>3 DEF Shown
      <4> QED
        BY <1>7, <4>2, <4>4
    <3>2. ASSUME NEW l \in DOMAIN gui.links \cup DOMAIN plan'.links, <<LinkTable, l>> \notin Awaited'
          PROVE  l \in DOMAIN gui.links /\ l \in DOMAIN plan'.links /\ plan'.links[l] = gui.links[l]
      <4>1. CASE l \in DOMAIN plan.links \cup DOMAIN plan'.links
        <5>1. l \in Nat
          BY <1>7, <4>1 DEF Inv, OnFile, IsPlan
        <5>2. <<LinkTable, l>> # NoRef
          BY <5>1, NoRefIsNoLink
        <5>3. <<LinkTable, l>> \notin Range(work.results) /\ <<LinkTable, l>> \notin Awaited
          BY <2>3, <2>4, <3>2, <5>2
        <5> QED
          BY <1>7, <3>2, <4>1, <5>3 DEF Shown
      <4>2. CASE l \notin DOMAIN plan.links \cup DOMAIN plan'.links
        BY <2>3, <3>2, <4>2 DEF Shown
      <4> QED
        BY <4>1, <4>2
    <3> QED
      BY <2>1, <3>1, <3>2 DEF Shown
  <2> QED
    BY <1>1, <2>1, <2>2, <2>5, <2>6 DEF Inv, GuiStands
<1> QED
  BY <1>8, <1>9, <1>10, <1>11, <1>12 DEF Inv

---------------------------------------------------------------------------
(* The GUI.                                                                *)

LEMMA GuiAlone ==
    ASSUME Inv, UNCHANGED <<storeVars, callVars, lockVars>>, GuiStands'
    PROVE  Inv'
<1>1. OnFile'
  BY FileKept DEF Inv
<1>2. CallsStand' /\ LockStands' /\ Accounted'
  BY DEF Inv, CallsStand, CallStands, LockStands, Accounted, storeVars, callVars, lockVars
<1>3. WorkStands'
  BY DEF Inv, WorkStands, storeVars, callVars, lockVars
<1> QED
  BY <1>1, <1>2, <1>3 DEF Inv

LEMMA GuiReloadKeeps ==
    ASSUME Inv, GuiReload
    PROVE  Inv'
<1>1. /\ UNCHANGED <<storeVars, callVars, lockVars>> /\ shape >= FeedSchema
      /\ gui' = [cursor |-> Len(feed), stale |-> {}, reload |-> FALSE,
                 rows |-> plan.rows, links |-> plan.links]
  BY DEF GuiReload
<1>2. plan' = plan /\ feed' = feed /\ shape' = shape
  BY <1>1 DEF storeVars
<1>3. /\ gui'.cursor = Len(feed) /\ gui'.stale = {} /\ ~gui'.reload /\ gui'.reload \in BOOLEAN
      /\ gui'.rows = plan.rows /\ gui'.links = plan.links
  BY <1>1
<1>4. gui' = [cursor |-> gui'.cursor, stale |-> gui'.stale, reload |-> gui'.reload,
              rows |-> gui'.rows, links |-> gui'.links]
  <2>1. PICK no : no = FALSE
    OBVIOUS
  <2>2. gui' = [cursor |-> Len(feed), stale |-> {}, reload |-> no,
                rows |-> plan.rows, links |-> plan.links]
    BY <1>1, <2>1, Zenon
  <2> QED
    BY <2>2
<1>5. Len(feed) \in Nat
  BY ListShape DEF Inv, OnFile
<1>6. IsFcn(plan.links) /\ \A r \in DOMAIN plan.rows : IsRowRef(r)
  BY DEF Inv, OnFile, IsPlan, IsTable
<1>7. Shown'
  BY <1>2, <1>3 DEF Shown
<1>8. GuiStands'
  BY <1>1, <1>2, <1>3, <1>4, <1>5, <1>6, <1>7 DEF GuiStands
<1> QED
  BY <1>1, <1>8, GuiAlone

\* The screen in its parts.
LEMMA GuiParts ==
    ASSUME GuiStands
    PROVE  \E c, S, R, rows, links :
              /\ gui = [cursor |-> c, stale |-> S, reload |-> R, rows |-> rows, links |-> links]
              /\ c \in 0..Len(feed) /\ R \in BOOLEAN
BY Zenon DEF GuiStands

LEMMA GuiPollKeeps ==
    ASSUME Inv, GuiPoll
    PROVE  Inv'
<1>1. /\ UNCHANGED <<storeVars, callVars, lockVars>> /\ ~gui.reload /\ gui.cursor < Len(feed)
      /\ gui' = IF feed[gui.cursor + 1] = Resync
                THEN [gui EXCEPT !.cursor = gui.cursor + 1, !.reload = TRUE]
                ELSE [gui EXCEPT !.cursor = gui.cursor + 1,
                                 !.stale = gui.stale \cup {feed[gui.cursor + 1].ref}]
  BY DEF GuiPoll
<1>2. plan' = plan /\ feed' = feed /\ shape' = shape
  BY <1>1 DEF storeVars
<1>3. Len(feed) \in Nat /\ DOMAIN feed = 1..Len(feed) /\ gui.cursor \in 0..Len(feed)
  BY ListShape DEF Inv, OnFile, GuiStands
<1>4. PICK entry : entry = feed[gui.cursor + 1] /\ (entry = Resync \/ IsRef(entry.ref))
  BY <1>1, <1>3 DEF Inv, OnFile
<1>5. PICK c, S, R, rows, links :
         /\ gui = [cursor |-> c, stale |-> S, reload |-> R, rows |-> rows, links |-> links]
         /\ c \in 0..Len(feed) /\ R \in BOOLEAN
  BY GuiParts DEF Inv
<1>6. CASE entry = Resync
  <2>1. PICK yes : yes = TRUE
    OBVIOUS
  <2>2. gui' = [gui EXCEPT !.cursor = c + 1, !.reload = yes]
    BY <1>1, <1>4, <1>5, <1>6, <2>1
  <2>3. DOMAIN gui' = {"cursor", "stale", "reload", "rows", "links"} /\ gui' = [f \in DOMAIN gui' |-> gui'[f]]
    BY <1>5, <2>2
  <2>4. gui'.cursor = c + 1 /\ gui'.stale = S /\ gui'.reload = yes /\ gui'.rows = rows /\ gui'.links = links
    BY <1>5, <2>2
  <2>5. gui' = [cursor |-> gui'.cursor, stale |-> gui'.stale, reload |-> gui'.reload,
                rows |-> gui'.rows, links |-> gui'.links]
    BY <2>3
  <2>6. gui'.cursor \in 0..Len(feed)
    BY <1>1, <1>3, <1>5, <2>4
  <2>7. gui'.reload = TRUE
    BY <2>1, <2>4, Zenon
  <2>8. gui'.reload \in BOOLEAN /\ ~(~gui'.reload)
    BY <2>7
  <2>9. GuiStands'
    BY <1>2, <1>5, <2>4, <2>5, <2>6, <2>8 DEF Inv, GuiStands
  <2> QED
    BY <1>1, <2>9, GuiAlone
<1>7. CASE entry # Resync
  <2>1. gui' = [gui EXCEPT !.cursor = c + 1, !.stale = S \cup {entry.ref}]
    BY <1>1, <1>4, <1>5, <1>7
  <2>2. DOMAIN gui' = {"cursor", "stale", "reload", "rows", "links"} /\ gui' = [f \in DOMAIN gui' |-> gui'[f]]
    BY <1>5, <2>1
  <2>3. /\ gui'.cursor = c + 1 /\ gui'.stale = S \cup {entry.ref} /\ gui'.reload = R
        /\ gui'.rows = rows /\ gui'.links = links
    BY <1>5, <2>1
  <2>4. gui' = [cursor |-> gui'.cursor, stale |-> gui'.stale, reload |-> gui'.reload,
                rows |-> gui'.rows, links |-> gui'.links]
    BY <2>2
  <2>5. c + 1 \in 0..Len(feed) /\ IsRef(entry.ref)
    BY <1>1, <1>3, <1>4, <1>5, <1>7
  <2>6. ResyncAhead => ResyncAhead'
    <3> SUFFICES ASSUME ResyncAhead PROVE ResyncAhead'
      OBVIOUS
    <3>1. PICK i \in (c + 1)..Len(feed) : feed[i] = Resync
      BY <1>5 DEF ResyncAhead
    <3>2. i # c + 1
      BY <1>4, <1>5, <1>7, <3>1
    <3>3. i \in ((c + 1) + 1)..Len(feed)
      BY <1>3, <1>5, <3>2
    <3> QED
      BY <1>2, <2>3, <3>1, <3>3 DEF ResyncAhead
  <2>7. Awaited \subseteq Awaited'
    <3>1. Awaited = S \cup {feed[i].ref : i \in (c + 1)..Len(feed)}
      BY <1>5 DEF Awaited
    <3>2. Awaited' = (S \cup {entry.ref}) \cup {feed[i].ref : i \in ((c + 1) + 1)..Len(feed)}
      BY <1>2, <2>3 DEF Awaited
    <3>3. \A i \in (c + 1)..Len(feed) : i = c + 1 \/ i \in ((c + 1) + 1)..Len(feed)
      BY <1>3, <1>5
    <3>4. entry = feed[c + 1]
      BY <1>4, <1>5
    <3> QED
      BY <3>1, <3>2, <3>3, <3>4
  <2>8. Shown => Shown'
    BY <1>2, <1>5, <2>3, <2>7 DEF Shown
  <2>9. GuiStands'
    BY <1>2, <1>5, <2>3, <2>4, <2>5, <2>6, <2>8 DEF Inv, GuiStands
  <2> QED
    BY <1>1, <2>9, GuiAlone
<1> QED
  BY <1>6, <1>7

LEMMA GuiFetchKeeps ==
    ASSUME Inv, NEW r \in gui.stale, GuiFetch(r)
    PROVE  Inv'
<1>1. /\ UNCHANGED <<storeVars, callVars, lockVars>> /\ ~gui.reload
      /\ gui' = IF r[1] = LinkTable
                THEN [gui EXCEPT !.stale = gui.stale \ {r},
                                 !.links = Refetched(gui.links, plan.links, r[2])]
                ELSE [gui EXCEPT !.stale = gui.stale \ {r},
                                 !.rows = Refetched(gui.rows, plan.rows, r)]
  BY DEF GuiFetch
<1>2. plan' = plan /\ feed' = feed /\ shape' = shape
  BY <1>1 DEF storeVars
<1>3. PICK c, S, R, rows, links :
         /\ gui = [cursor |-> c, stale |-> S, reload |-> R, rows |-> rows, links |-> links]
         /\ c \in 0..Len(feed) /\ R \in BOOLEAN
  BY GuiParts DEF Inv
<1>4. IsRef(r) /\ r \in S
  BY <1>3 DEF Inv, GuiStands
<1>5. PICK newRows, newLinks :
         /\ newRows = IF r[1] = LinkTable THEN rows ELSE Refetched(rows, plan.rows, r)
         /\ newLinks = IF r[1] = LinkTable THEN Refetched(links, plan.links, r[2]) ELSE links
  OBVIOUS
<1>6. gui' = [cursor |-> c, stale |-> S \ {r}, reload |-> R, rows |-> newRows, links |-> newLinks]
  <2>1. CASE r[1] = LinkTable
    <3>1. gui' = [gui EXCEPT !.stale = S \ {r}, !.links = newLinks] /\ newRows = rows
      BY <1>1, <1>3, <1>5, <2>1
    <3>2. DOMAIN gui' = {"cursor", "stale", "reload", "rows", "links"} /\ gui' = [f \in DOMAIN gui' |-> gui'[f]]
      BY <1>3, <3>1
    <3>3. /\ gui'.cursor = c /\ gui'.stale = S \ {r} /\ gui'.reload = R
          /\ gui'.rows = newRows /\ gui'.links = newLinks
      BY <1>3, <3>1
    <3> QED
      BY <3>2, <3>3
  <2>2. CASE r[1] # LinkTable
    <3>1. gui' = [gui EXCEPT !.stale = S \ {r}, !.rows = newRows] /\ newLinks = links
      BY <1>1, <1>3, <1>5, <2>2
    <3>2. DOMAIN gui' = {"cursor", "stale", "reload", "rows", "links"} /\ gui' = [f \in DOMAIN gui' |-> gui'[f]]
      BY <1>3, <3>1
    <3>3. /\ gui'.cursor = c /\ gui'.stale = S \ {r} /\ gui'.reload = R
          /\ gui'.rows = newRows /\ gui'.links = newLinks
      BY <1>3, <3>1
    <3> QED
      BY <3>2, <3>3
  <2> QED
    BY <2>1, <2>2
<1>7. IsFcn(links) /\ (\A q \in DOMAIN rows : IsRowRef(q)) /\ \A q \in S : IsRef(q)
  BY <1>3 DEF Inv, GuiStands
<1>8. r[1] = LinkTable => r = <<LinkTable, r[2]>>
  BY <1>4 DEF IsRef, IsRowRef, IsLinkRef
<1>9. r[1] # LinkTable => IsRowRef(r)
  BY <1>4 DEF IsRef, IsLinkRef
<1>10. IsFcn(newLinks) /\ \A q \in DOMAIN newRows : IsRowRef(q)
  <2>1. CASE r[1] = LinkTable
    BY <1>5, <1>7, <2>1 DEF Refetched, Put, Without, IsFcn
  <2>2. CASE r[1] # LinkTable
    <3>1. DOMAIN newRows \subseteq DOMAIN rows \cup {r}
      BY <1>5, <2>2 DEF Refetched, Put, Without, IsFcn
    <3> QED
      BY <1>5, <1>7, <1>9, <2>2, <3>1
  <2> QED
    BY <2>1, <2>2
<1> DEFINE ahead == {feed[i].ref : i \in (c + 1)..Len(feed)}
<1>11. Awaited = S \cup ahead /\ Awaited' = (S \ {r}) \cup ahead /\ (ResyncAhead' <=> ResyncAhead)
  BY <1>2, <1>3, <1>6 DEF Awaited, ResyncAhead
<1> HIDE DEF ahead
<1>12. Shown => Shown'
  <2> SUFFICES ASSUME Shown PROVE Shown'
    OBVIOUS
  <2>1. \A q \in DOMAIN plan.rows : IsRowRef(q)
    BY DEF Inv, OnFile, IsPlan, IsTable
  <2>2. ASSUME NEW q \in DOMAIN newRows \cup DOMAIN plan.rows, q \notin Awaited'
        PROVE  /\ q \in DOMAIN newRows /\ q \in DOMAIN plan.rows
               /\ plan.rows[q] = Broken \/ plan.rows[q] = newRows[q]
    <3>1. IsRowRef(q)
      BY <1>10, <2>1
    <3>2. CASE q = r
      <4>1. r[1] # LinkTable
        BY <3>1, <3>2 DEF IsRowRef
      <4>2. newRows = Refetched(rows, plan.rows, r)
        BY <1>5, <4>1
      <4> QED
        BY <2>2, <3>2, <4>2 DEF Refetched, Put, Without, IsFcn
    <3>3. CASE q # r
      <4>1. q \notin Awaited
        BY <1>11, <2>2, <3>3
      <4>2. q \in DOMAIN newRows => q \in DOMAIN rows
        <5>1. CASE r[1] = LinkTable
          BY <1>5, <5>1
        <5>2. CASE r[1] # LinkTable
          <6>1. newRows = Refetched(rows, plan.rows, r)
            BY <1>5, <5>2
          <6> QED
            BY <3>3, <6>1 DEF Refetched, Put, Without, IsFcn
        <5> QED
          BY <5>1, <5>2
      <4>3. /\ q \in DOMAIN rows /\ q \in DOMAIN plan.rows
            /\ plan.rows[q] = Broken \/ plan.rows[q] = rows[q]
        BY <1>3, <2>2, <4>1, <4>2 DEF Shown
      <4>4. q \in DOMAIN newRows /\ newRows[q] = rows[q]
        <5>1. CASE r[1] = LinkTable
          BY <1>5, <4>3, <5>1
        <5>2. CASE r[1] # LinkTable
          <6>1. newRows = Refetched(rows, plan.rows, r)
            BY <1>5, <5>2
          <6> QED
            BY <3>3, <4>3, <6>1 DEF Refetched, Put, Without, IsFcn
        <5> QED
          BY <5>1, <5>2
      <4> QED
        BY <4>3, <4>4
    <3> QED
      BY <3>2, <3>3
  <2>3. ASSUME NEW l \in DOMAIN newLinks \cup DOMAIN plan.links, <<LinkTable, l>> \notin Awaited'
        PROVE  l \in DOMAIN newLinks /\ l \in DOMAIN plan.links /\ plan.links[l] = newLinks[l]
    <3>1. CASE <<LinkTable, l>> = r
      <4>1. r[1] = LinkTable /\ r[2] = l
        BY <3>1
      <4>2. newLinks = Refetched(links, plan.links, l)
        BY <1>5, <4>1
      <4> QED
        BY <2>3, <4>2 DEF Refetched, Put, Without, IsFcn
    <3>2. CASE <<LinkTable, l>> # r
      <4>1. <<LinkTable, l>> \notin Awaited
        BY <1>11, <2>3, <3>2
      <4>2. r[1] = LinkTable => l # r[2]
        BY <1>8, <3>2
      <4>3. l \in DOMAIN newLinks => l \in DOMAIN links
        <5>1. CASE r[1] # LinkTable
          BY <1>5, <5>1
        <5>2. CASE r[1] = LinkTable
          <6>1. newLinks = Refetched(links, plan.links, r[2]) /\ l # r[2]
            BY <1>5, <4>2, <5>2
          <6> QED
            BY <6>1 DEF Refetched, Put, Without, IsFcn
        <5> QED
          BY <5>1, <5>2
      <4>4. l \in DOMAIN links /\ l \in DOMAIN plan.links /\ plan.links[l] = links[l]
        BY <1>3, <2>3, <4>1, <4>3 DEF Shown
      <4>5. l \in DOMAIN newLinks /\ newLinks[l] = links[l]
        <5>1. CASE r[1] # LinkTable
          BY <1>5, <4>4, <5>1
        <5>2. CASE r[1] = LinkTable
          <6>1. newLinks = Refetched(links, plan.links, r[2]) /\ l # r[2]
            BY <1>5, <4>2, <5>2
          <6> QED
            BY <4>4, <6>1 DEF Refetched, Put, Without, IsFcn
        <5> QED
          BY <5>1, <5>2
      <4> QED
        BY <4>4, <4>5
    <3> QED
      BY <3>1, <3>2
  <2>4. gui'.rows = newRows /\ gui'.links = newLinks
    BY <1>6
  <2> QED
    BY <1>2, <2>2, <2>3, <2>4 DEF Shown
<1>13. /\ gui'.cursor = c /\ gui'.stale = S \ {r} /\ gui'.reload = R
       /\ gui'.rows = newRows /\ gui'.links = newLinks
       /\ gui' = [cursor |-> gui'.cursor, stale |-> gui'.stale, reload |-> gui'.reload,
                  rows |-> gui'.rows, links |-> gui'.links]
  BY <1>6
<1>14. ~gui.reload => shape >= FeedSchema /\ (ResyncAhead \/ Shown)
  BY DEF Inv, GuiStands
<1>15. GuiStands'
  BY <1>1, <1>2, <1>3, <1>7, <1>10, <1>11, <1>12, <1>13, <1>14 DEF GuiStands
<1> QED
  BY <1>1, <1>15, GuiAlone

---------------------------------------------------------------------------
(* The invariants.                                                         *)

LEMMA NextKeeps == Inv /\ [Next]_vars => Inv'
<1> SUFFICES ASSUME Inv, [Next]_vars PROVE Inv'
  OBVIOUS
<1>1. ASSUME NEW s \in Sessions, NEW k \in Keys, ReplayReceipt(s, k) PROVE Inv'
  BY <1>1, AnswerStands DEF ReplayReceipt
<1>2. ASSUME NEW s \in Sessions, NEW k \in Keys, NEW b \in Batches, Call(s, k, b) PROVE Inv'
  BY <1>2, CallKeeps
<1>3. ASSUME NEW s \in Sessions, GiveUp(s) PROVE Inv'
  BY <1>3, AnswerStands DEF GiveUp
<1>4. ASSUME NEW s \in Sessions,
             \/ Begin(s) \/ ApplyNext(s) \/ Abort(s) \/ Commit(s)
             \/ Annotate(s) \/ Deliver(s) \/ Crash(s)
      PROVE  Inv'
  BY <1>4, BeginKeeps, ApplyNextKeeps, AbortKeeps, CommitKeeps, AnnotateKeeps, DeliverKeeps,
     CrashKeeps
<1>5. ASSUME NEW s \in Sessions, NEW target \in {0} \cup SchemaVersions, StartSnapshot(s, target)
      PROVE  Inv'
  BY <1>5, StartSnapshotKeeps
<1>6. ASSUME NEW s \in Sessions, NEW i \in DOMAIN snaps, Restore(s, i) PROVE Inv'
  BY <1>6, RestoreKeeps
<1>7. ASSUME NEW s \in Sessions,
             \/ StoreSnapshot(s) \/ Migrate(s) \/ FailMigration(s)
             \/ Restart(s) \/ Inspect(s) \/ Salvage(s)
      PROVE  Inv'
  BY <1>7, StoreSnapshotKeeps, MigrateKeeps, FailMigrationKeeps, RestartKeeps, InspectKeeps,
     SalvageKeeps
<1>8. ASSUME NEW r \in Readable, Decay(r) PROVE Inv'
  BY <1>8, DecayKeeps
<1>9. CASE GuiReload
  BY <1>9, GuiReloadKeeps
<1>10. CASE GuiPoll
  BY <1>10, GuiPollKeeps
<1>11. ASSUME NEW r \in gui.stale, GuiFetch(r) PROVE Inv'
  BY <1>11, GuiFetchKeeps
<1>12. CASE UNCHANGED vars
  <2>1. UNCHANGED <<storeVars, callVars, lockVars>> /\ UNCHANGED <<plan, shape, feed, gui>>
    BY <1>12 DEF vars, storeVars
  <2>2. GuiStands'
    BY <2>1, ScreenKept DEF Inv
  <2> QED
    BY <2>1, <2>2, GuiAlone
<1> QED
  BY <1>1, <1>2, <1>3, <1>4, <1>5, <1>6, <1>7, <1>8, <1>9, <1>10, <1>11, <1>12 DEF Next

\* Every state of the engine satisfies the invariant.
THEOREM Invariance == Spec => []Inv
<1>1. Init => Inv
  BY InitStands
<1>2. Inv /\ [Next]_vars => Inv'
  BY NextKeeps
<1> QED
  BY <1>1, <1>2, PTL DEF Spec

\* The tables, the calls and the lock have the values they should have.
THEOREM TypeCorrect == Spec => []TypeOK
<1>1. Inv => TypeOK
  BY DEF Inv, OnFile, IsPlan, CallsStand, Stages, LockStands, TypeOK
<1> QED
  BY <1>1, Invariance, PTL

\* The file never claims a schema whose tables it does not have.
THEOREM SchemaIsReal == Spec => []SchemaNeverAhead
<1>1. Inv => SchemaNeverAhead
  BY DEF Inv, OnFile, SchemaNeverAhead
<1> QED
  BY <1>1, Invariance, PTL

\* Every row on file was written under a key whose receipt is still there, so that the
\* retry of what is on file is answered from it.
THEOREM RowsAreAccounted == Spec => []RowsHaveReceipts
<1>1. Inv => RowsHaveReceipts
  BY DEF Inv, Accounted, Covered, RowsHaveReceipts
<1> QED
  BY <1>1, Invariance, PTL

\* A GUI that has read the feed and asked again for what it named shows the plan.
THEOREM GuiShowsThePlan == Spec => []GuiCaughtUp
<1>1. Inv => GuiCaughtUp
  <2> SUFFICES ASSUME Inv, ~gui.reload, gui.stale = {}, gui.cursor = Len(feed)
               PROVE  /\ gui.links = plan.links
                      /\ DOMAIN gui.rows = DOMAIN plan.rows
                      /\ \A r \in Readable : gui.rows[r] = plan.rows[r]
    BY DEF GuiCaughtUp
  <2>1. (gui.cursor + 1)..Len(feed) = {}
    <3>1. Len(feed) \in Nat
      BY ListShape DEF Inv, OnFile
    <3> QED
      BY <3>1
  <2>2. Awaited = {} /\ ~ResyncAhead
    BY <2>1 DEF Awaited, ResyncAhead
  <2>3. Shown
    BY <2>2 DEF Inv, GuiStands
  <2>4. DOMAIN gui.rows = DOMAIN plan.rows /\ \A r \in Readable : gui.rows[r] = plan.rows[r]
    BY <2>2, <2>3 DEF Shown, Readable
  <2>5. /\ IsFcn(gui.links) /\ IsFcn(plan.links) /\ DOMAIN gui.links = DOMAIN plan.links
        /\ \A l \in DOMAIN plan.links : gui.links[l] = plan.links[l]
    BY <2>2, <2>3 DEF Shown, Inv, GuiStands, OnFile, IsPlan
  <2>6. gui.links = plan.links
    BY <2>5 DEF IsFcn
  <2> QED
    BY <2>4, <2>6
<1> QED
  BY <1>1, Invariance, PTL

LEMMA NextKeepsLedger == Inv /\ [Next]_vars => Kept
<1> SUFFICES ASSUME Inv, [Next]_vars PROVE Kept
  OBVIOUS
<1>1. ASSUME NEW s \in Sessions, Commit(s) PROVE Kept
  BY <1>1, CommitKept
<1>2. ASSUME NEW s \in Sessions, Annotate(s) PROVE Kept
  BY <1>2, AnnotateKeeps
<1>3. CASE receipts' = receipts
  BY <1>3 DEF Kept
<1>4. \/ \E s \in Sessions : Commit(s) \/ Annotate(s)
      \/ receipts' = receipts
  BY DEF Next, vars, storeVars, ReplayReceipt, Call, Begin, GiveUp, ApplyNext, Abort, Deliver,
     Crash, StartSnapshot, StoreSnapshot, Migrate, FailMigration, Restore, Restart, Inspect,
     Salvage, Decay, GuiReload, GuiPoll, GuiFetch
<1> QED
  BY <1>1, <1>2, <1>3, <1>4

\* A key keeps its first results for ever.
THEOREM ReceiptsStand == Spec => ReceiptsFinal
<1>1. Inv /\ [Next]_vars => Kept
  BY NextKeepsLedger
<1>2. Inv /\ [Next]_vars =>
        [\A k \in DOMAIN receipts :
            k \in DOMAIN receipts' /\ receipts'[k].results = receipts[k].results]_vars
  BY <1>1 DEF Kept
<1> QED
  BY <1>2, Invariance, PTL DEF Spec, ReceiptsFinal

---------------------------------------------------------------------------
(* The engine implements the atomic store.                                 *)

\* f[n] is the batch b begun on p and applied as far as n, or empty once refused.
IsRun(f, p, b, N) ==
    f = [n \in 0..N |->
            IF n = 0 THEN <<Begun(p)>>
            ELSE IF f[n - 1] = <<>> \/ ~Accepted(f[n - 1][1], b[n]) THEN <<>>
            ELSE <<ApplyOp(f[n - 1][1], b[n])>>]

LEMMA RunExists ==
    ASSUME NEW p, NEW b, NEW N \in Nat
    PROVE  \E f : IsRun(f, p, b, N)
<1> DEFINE S == {n \in Nat : \E f : IsRun(f, p, b, n)}
           Next1(x, n) == IF x = <<>> \/ ~Accepted(x[1], b[n]) THEN <<>>
                          ELSE <<ApplyOp(x[1], b[n])>>
<1>1. 0 \in S
  <2> DEFINE f == [n \in 0..0 |-> <<Begun(p)>>]
  <2>1. f = [n \in 0..0 |-> IF n = 0 THEN <<Begun(p)>> ELSE Next1(f[n - 1], n)]
    <3> HIDE DEF Next1
    <3> QED
      OBVIOUS
  <2>2. IsRun(f, p, b, 0)
    <3> HIDE DEF f
    <3> QED
      BY <2>1, Zenon DEF IsRun
  <2> QED
    BY <2>2
<1>2. ASSUME NEW k \in Nat, k \in S PROVE k + 1 \in S
  <2>1. PICK f : IsRun(f, p, b, k)
    BY <1>2
  <2>2. f = [n \in 0..k |-> IF n = 0 THEN <<Begun(p)>> ELSE Next1(f[n - 1], n)]
    BY <2>1, Zenon DEF IsRun
  <2> DEFINE g == [n \in 0..(k + 1) |-> IF n = k + 1 THEN Next1(f[k], n) ELSE f[n]]
  <2> HIDE DEF Next1
  <2>3. \A n \in 0..k : f[n] = IF n = 0 THEN <<Begun(p)>> ELSE Next1(f[n - 1], n)
    BY <2>2
  <2>4. \A n \in 0..(k + 1) : n # 0 => n - 1 \in 0..k /\ g[n - 1] = f[n - 1]
    OBVIOUS
  <2>5. \A n \in 0..(k + 1) : g[n] = IF n = 0 THEN <<Begun(p)>> ELSE Next1(g[n - 1], n)
    <3> TAKE n \in 0..(k + 1)
    <3>1. CASE n = k + 1
      BY <3>1, <2>4
    <3>2. CASE n # k + 1
      <4>1. n \in 0..k /\ g[n] = f[n]
        BY <3>2
      <4> QED
        BY <4>1, <2>3, <2>4
    <3> QED
      BY <3>1, <3>2
  <2>6. g = [n \in 0..(k + 1) |-> g[n]]
    OBVIOUS
  <2> HIDE DEF g
  <2>7. g = [n \in 0..(k + 1) |-> IF n = 0 THEN <<Begun(p)>> ELSE Next1(g[n - 1], n)]
    BY <2>5, <2>6, Zenon
  <2>8. IsRun(g, p, b, k + 1)
    BY <2>7, Zenon DEF IsRun, Next1
  <2> QED
    BY <2>8
<1> HIDE DEF S
<1>3. Nat \subseteq S
  BY <1>1, <1>2, Induction
<1> QED
  BY <1>3 DEF S

\* The clauses of a run.
LEMMA RunStep ==
    ASSUME NEW f, NEW p, NEW b, NEW N \in Nat, IsRun(f, p, b, N)
    PROVE  /\ f[0] = <<Begun(p)>>
           /\ \A w : \A n \in 0..(N - 1) :
                f[n] = <<w>> /\ Accepted(w, b[n + 1]) => f[n + 1] = <<ApplyOp(w, b[n + 1])>>
<1> DEFINE Next1(x, n) == IF x = <<>> \/ ~Accepted(x[1], b[n]) THEN <<>>
                          ELSE <<ApplyOp(x[1], b[n])>>
<1>1. f = [n \in 0..N |-> IF n = 0 THEN <<Begun(p)>> ELSE Next1(f[n - 1], n)]
  BY Zenon DEF IsRun
<1> HIDE DEF Next1
<1>2. \A n \in 0..N : f[n] = IF n = 0 THEN <<Begun(p)>> ELSE Next1(f[n - 1], n)
  BY <1>1
<1>3. f[0] = <<Begun(p)>>
  <2>1. 0 \in 0..N
    OBVIOUS
  <2> QED
    BY <1>2, <2>1
<1>4. ASSUME NEW n \in 0..(N - 1), NEW w, f[n] = <<w>>, Accepted(w, b[n + 1])
      PROVE  f[n + 1] = <<ApplyOp(w, b[n + 1])>>
  <2>1. n + 1 \in 0..N /\ n + 1 # 0 /\ (n + 1) - 1 = n
    OBVIOUS
  <2>2. f[n + 1] = Next1(<<w>>, n + 1)
    BY <1>2, <1>4, <2>1
  <2>3. <<w>> # <<>> /\ <<w>>[1] = w
    OBVIOUS
  <2> QED
    BY <1>4, <2>2, <2>3 DEF Next1
<1> QED
  BY <1>3, <1>4

\* The atomic store's run of a batch is what any run comes to.
LEMMA RunIsRun ==
    ASSUME NEW b, Len(b) \in Nat, NEW r, \A f : IsRun(f, plan, b, Len(b)) => f[Len(b)] = r
    PROVE  Atomic!Run(b) = r
<1> DEFINE run == CHOOSE f : IsRun(f, plan, b, Len(b))
<1>1. IsRun(run, plan, b, Len(b))
  <2>1. \E f : IsRun(f, plan, b, Len(b))
    BY RunExists
  <2> QED
    BY <2>1, Zenon
<1>2. run[Len(b)] = r
  <2> HIDE DEF run
  <2> QED
    BY <1>1
<1>3. Atomic!Run(b) = run[Len(b)]
  BY Zenon DEF Atomic!Run, IsRun, Begun, Atomic!Begun, Accepted, Atomic!Accepted,
     NewLink, Atomic!NewLink, ApplyOp, Atomic!ApplyOp, ApplyInsertRow, Atomic!ApplyInsertRow,
     ApplyInsertLink, Atomic!ApplyInsertLink, ApplyUpdate, Atomic!ApplyUpdate,
     NextOrdinal, Atomic!NextOrdinal, Max, Atomic!Max, Put, Atomic!Put,
     LinkTable, Atomic!LinkTable
<1> QED
  BY <1>2, <1>3

\* A batch under way is on the way to what the atomic store would do with it.
RunStands ==
    owner \in Sessions =>
        \A f : IsRun(f, plan, request[owner].batch, Len(request[owner].batch))
                  => f[Len(work.results)] = <<work>>

LEMMA RunGoesOn ==
    ASSUME Inv, RunStands, [Next]_vars
    PROVE  RunStands'
<1>1. ASSUME NEW s \in Sessions, Begin(s) PROVE RunStands'
  <2>1. owner' = s /\ work' = Begun(plan) /\ plan' = plan /\ request' = request
    BY <1>1 DEF Begin, storeVars
  <2>2. request[s].batch \in Batches
    BY <1>1 DEF Begin, Inv, CallsStand, CallStands
  <2>3. PICK b : b = request[s].batch
    OBVIOUS
  <2>4. Len(b) \in Nat
    BY <2>2, <2>3, BatchesAreEntries
  <2>5. work'.results = <<>> /\ Len(<<>>) = 0
    BY <2>1 DEF Begun
  <2>6. \A f : IsRun(f, plan, b, Len(b)) => f[0] = <<Begun(plan)>>
    BY <2>4, RunStep
  <2> QED
    BY <2>1, <2>3, <2>5, <2>6 DEF RunStands
<1>2. ASSUME NEW s \in Sessions, ApplyNext(s) PROVE RunStands'
  <2>1. /\ owner' = owner /\ plan' = plan /\ request' = request /\ pc[s] = "applying"
        /\ ~BatchDone(s) /\ Accepted(work, Pending(s)) /\ work' = ApplyOp(work, Pending(s))
    BY <1>2 DEF ApplyNext, storeVars, callVars
  <2>2. owner = s
    BY <2>1 DEF Inv, LockStands
  <2>3. IsWork(work) /\ IsOp(Pending(s)) /\ Len(work.results) + 1 <= Len(request[s].batch)
    BY <2>1, <2>2, PendingIsOp DEF Inv, WorkStands
  <2>4. Len(work'.results) = Len(work.results) + 1
    BY <2>1, <2>3, EntryApplied DEF Advanced
  <2>5. PICK b : b = request[s].batch
    OBVIOUS
  <2>6. Len(b) \in Nat
    <3>1. b \in Batches
      BY <2>1, <2>5 DEF Inv, CallsStand, CallStands
    <3> QED
      BY <3>1, BatchesAreEntries
  <2>7. Len(work.results) \in Nat
    BY <2>3, ListShape DEF IsWork
  <2>8. Len(work.results) \in 0..(Len(b) - 1)
    BY <2>3, <2>5, <2>6, <2>7
  <2>9. Pending(s) = b[Len(work.results) + 1]
    BY <2>5 DEF Pending
  <2>10. ASSUME NEW f, IsRun(f, plan, b, Len(b)) PROVE f[Len(work'.results)] = <<work'>>
    <3>1. f[Len(work.results)] = <<work>>
      BY <2>2, <2>5, <2>10 DEF RunStands
    <3>2. f[Len(work.results) + 1] = <<ApplyOp(work, b[Len(work.results) + 1])>>
      BY <2>1, <2>6, <2>8, <2>9, <2>10, <3>1, RunStep
    <3> QED
      BY <2>1, <2>4, <2>9, <3>2
  <2> QED
    BY <2>1, <2>2, <2>5, <2>10 DEF RunStands
<1>3. ASSUME owner' = owner, work' = work, owner \in Sessions => plan' = plan,
             \A s \in Sessions : pc[s] = "applying" => request'[s] = request[s]
      PROVE  RunStands'
  BY <1>3 DEF Inv, LockStands, RunStands
<1>4. ASSUME owner' = Nobody PROVE RunStands'
  BY <1>4, NobodyIsNoSession DEF RunStands
<1>5. \/ \E s \in Sessions : Begin(s) \/ ApplyNext(s)
      \/ owner' = Nobody
      \/ /\ owner' = owner /\ work' = work /\ (owner \in Sessions => plan' = plan)
         /\ \A s \in Sessions : pc[s] = "applying" => request'[s] = request[s]
  <2> DEFINE Free == owner' = Nobody
             Same == /\ owner' = owner /\ work' = work /\ (owner \in Sessions => plan' = plan)
                     /\ \A s \in Sessions : pc[s] = "applying" => request'[s] = request[s]
  <2>1. ASSUME NEW s \in Sessions, NEW a, pc[s] # "applying", Answer(s, a),
               UNCHANGED <<storeVars, lockVars>>
        PROVE  Same
    BY <2>1 DEF Answer, storeVars, lockVars, Inv, CallsStand
  <2>2. ASSUME NEW s \in Sessions, NEW k \in Keys, ReplayReceipt(s, k) PROVE Same
    BY <2>1, <2>2 DEF ReplayReceipt
  <2>3. ASSUME NEW s \in Sessions, NEW k \in Keys, NEW b \in Batches, Call(s, k, b) PROVE Same
    BY <2>3 DEF Call, storeVars, lockVars, Inv, CallsStand
  <2>4. ASSUME NEW s \in Sessions, GiveUp(s) PROVE Same
    BY <2>1, <2>4 DEF GiveUp
  <2>5. ASSUME NEW s \in Sessions, Abort(s) \/ Commit(s) PROVE Free
    BY <2>5 DEF Abort, Commit, Release
  <2>6. ASSUME NEW s \in Sessions, Annotate(s) \/ Deliver(s) PROVE Same
    BY <2>6 DEF Annotate, Deliver, storeVars, lockVars, callVars
  <2>7. ASSUME NEW s \in Sessions, Crash(s) PROVE Free \/ Same
    BY <2>7 DEF Crash, Release, storeVars, lockVars, Inv, CallsStand, LockStands
  <2>8. ASSUME NEW s \in Sessions, NEW target \in {0} \cup SchemaVersions, StartSnapshot(s, target)
        PROVE  Same
    BY <2>8 DEF StartSnapshot, storeVars, lockVars
  <2>9. ASSUME NEW s \in Sessions,
               \/ StoreSnapshot(s) \/ Migrate(s) \/ FailMigration(s)
               \/ Restart(s) \/ Salvage(s) \/ \E i \in DOMAIN snaps : Restore(s, i)
        PROVE  Free
    BY <2>9 DEF StoreSnapshot, Migrate, FailMigration, Restart, Salvage, Restore, Recovers, lockVars
  <2>10. ASSUME NEW s \in Sessions, Inspect(s) PROVE Same
    BY <2>10 DEF Inspect, storeVars, lockVars
  <2>11. ASSUME NEW r, Decay(r) PROVE Same
    BY <2>11 DEF Decay, lockVars, callVars, Inv, LockStands
  <2>12. ASSUME GuiReload \/ GuiPoll \/ \E r \in gui.stale : GuiFetch(r) PROVE Same
    BY <2>12 DEF GuiReload, GuiPoll, GuiFetch, storeVars, lockVars, callVars
  <2>13. ASSUME UNCHANGED vars PROVE Same
    BY <2>13 DEF vars, storeVars, lockVars, callVars
  <2> HIDE DEF Free, Same
  <2>14. (\E s \in Sessions : Begin(s) \/ ApplyNext(s)) \/ Free \/ Same
    BY <2>2, <2>3, <2>4, <2>5, <2>6, <2>7, <2>8, <2>9, <2>10, <2>11, <2>12, <2>13 DEF Next
  <2> QED
    BY <2>14 DEF Free, Same
<1> QED
  BY <1>1, <1>2, <1>3, <1>4, <1>5

\* Only one session ever reads, or none: what a snapshot then reads, it reads of one plan.
OneReader == (\A s, t \in Sessions : s = t) \/ MaxSnaps = 0

ReadsStand ==
    \A s \in Sessions : pc[s] = "reading" => MaxSnaps # 0 /\ held[s][2] = plan.rows

LEMMA ReadGoesOn ==
    ASSUME OneReader, Inv, ReadsStand, [Next]_vars
    PROVE  ReadsStand'
<1> SUFFICES ASSUME NEW t \in Sessions, pc'[t] = "reading"
             PROVE  MaxSnaps # 0 /\ held'[t][2] = plan'.rows
  BY DEF ReadsStand
<1>1. ASSUME pc[t] = "reading", held'[t] = held[t], plan' = plan
      PROVE  MaxSnaps # 0 /\ held'[t][2] = plan'.rows
  BY <1>1 DEF ReadsStand
<1>2. ASSUME NEW target, StartSnapshot(t, target)
      PROVE  MaxSnaps # 0 /\ held'[t][2] = plan'.rows
  <2>1. Len(snaps) < MaxSnaps /\ held'[t] = <<target, plan.rows>> /\ plan' = plan
    BY <1>2 DEF StartSnapshot, storeVars, Inv, CallsStand
  <2>2. Len(snaps) \in Nat
    BY ListShape DEF Inv, OnFile
  <2> QED
    BY <2>1, <2>2, BoundsAreNumbers
<1>3. ASSUME NEW s \in Sessions, s # t, pc'[t] = pc[t], held'[t] = held[t]
      PROVE  MaxSnaps # 0 /\ held'[t][2] = plan'.rows
  BY <1>3 DEF OneReader, ReadsStand
<1> DEFINE Goal == MaxSnaps # 0 /\ held'[t][2] = plan'.rows
           Stays == pc[t] = "reading" /\ held'[t] = held[t] /\ plan' = plan
           Other(s) == s # t /\ pc'[t] = pc[t] /\ held'[t] = held[t]
<1>4. ASSUME NEW s \in Sessions, NEW k \in Keys, ReplayReceipt(s, k) PROVE Stays
  BY <1>4 DEF ReplayReceipt, Answer, storeVars, Inv, CallsStand
<1>5. ASSUME NEW s \in Sessions, NEW k \in Keys, NEW b \in Batches, Call(s, k, b) PROVE Stays
  BY <1>5 DEF Call, storeVars, Inv, CallsStand
<1>6. ASSUME NEW s \in Sessions, Begin(s) \/ GiveUp(s) \/ ApplyNext(s) \/ Abort(s) PROVE Stays
  BY <1>6 DEF Begin, GiveUp, ApplyNext, Abort, Answer, storeVars, callVars, Inv, CallsStand
<1>7. ASSUME NEW s \in Sessions, Annotate(s) \/ Deliver(s) \/ Crash(s) \/ Inspect(s) PROVE Stays
  BY <1>7 DEF Annotate, Deliver, Crash, Inspect, storeVars, callVars, Inv, CallsStand
<1>8. ASSUME NEW s \in Sessions, Commit(s) \/ StoreSnapshot(s) \/ Migrate(s) PROVE Other(s)
  BY <1>8 DEF Commit, StoreSnapshot, Migrate, Answer, Inv, CallsStand
<1>9. ASSUME NEW s \in Sessions, FailMigration(s) \/ Salvage(s) PROVE Other(s)
  BY <1>9 DEF FailMigration, Salvage, Inv, CallsStand
<1>10. ASSUME NEW s \in Sessions, Restart(s) \/ \E i \in DOMAIN snaps : Restore(s, i) PROVE Other(s)
  BY <1>10 DEF Restart, Restore, Recovers, callVars
<1>11. ASSUME NEW s \in Sessions, NEW target \in {0} \cup SchemaVersions, StartSnapshot(s, target), s # t
       PROVE  Stays
  BY <1>11 DEF StartSnapshot, storeVars, Inv, CallsStand
<1>12. ASSUME NEW r, Decay(r) PROVE FALSE
  BY <1>12 DEF Decay, callVars
<1>13. ASSUME GuiReload \/ GuiPoll \/ \E r \in gui.stale : GuiFetch(r) PROVE Stays
  BY <1>13 DEF GuiReload, GuiPoll, GuiFetch, storeVars, callVars
<1>14. ASSUME UNCHANGED vars PROVE Stays
  BY <1>14 DEF vars, storeVars, callVars
<1>15. Stays => Goal
  BY <1>1
<1>16. \A s \in Sessions : Other(s) => Goal
  BY <1>3
<1> HIDE DEF Stays, Other, Goal
<1>17. Goal
  BY <1>2, <1>4, <1>5, <1>6, <1>7, <1>8, <1>9, <1>10, <1>11, <1>12, <1>13, <1>14, <1>15, <1>16
     DEF Next, Goal
<1> QED
  BY <1>17 DEF Goal

\* The ledger as the atomic store has it.
Ledger == [k \in DOMAIN receipts |-> receipts[k].results]

\* The atomic store's variables are left alone.
LEMMA Stutters ==
    ASSUME UNCHANGED <<plan, snaps, reply>>,
           DOMAIN receipts' = DOMAIN receipts, Kept
    PROVE  UNCHANGED Atomic!vars
BY DEF Atomic!vars, Kept

LEMMA StoreStutters ==
    ASSUME UNCHANGED <<storeVars, reply>>
    PROVE  UNCHANGED Atomic!vars
BY Stutters DEF storeVars, Kept

LEMMA ReplayRefines ==
    ASSUME NEW s \in Sessions, NEW k \in Keys, ReplayReceipt(s, k)
    PROVE  Atomic!Next
<1>1. k \in DOMAIN receipts /\ reply' = [reply EXCEPT ![s] = Answered(k, receipts[k].results, TRUE)]
      /\ plan' = plan /\ receipts' = receipts /\ snaps' = snaps
  BY DEF ReplayReceipt, Answer, storeVars
<1>2. Ledger[k] = receipts[k].results
  BY <1>1 DEF Ledger
<1>3. Atomic!Replay(s, k)
  BY <1>1, <1>2 DEF Atomic!Replay, Atomic!Answered, Answered, Ledger
<1> QED
  BY <1>3 DEF Atomic!Next

LEMMA RefuseRefines ==
    ASSUME NEW s \in Sessions, Answer(s, Unavailable), UNCHANGED storeVars
    PROVE  Atomic!Next
<1>1. Atomic!Refuse(s)
  BY DEF Atomic!Refuse, Answer, storeVars
<1> QED
  BY <1>1 DEF Atomic!Next

LEMMA ForgetRefines ==
    ASSUME NEW s \in Sessions, reply' = [reply EXCEPT ![s] = NoAnswer], UNCHANGED storeVars
    PROVE  Atomic!Next
<1>1. Atomic!Forget(s)
  BY DEF Atomic!Forget, storeVars
<1> QED
  BY <1>1 DEF Atomic!Next

LEMMA WriteRefines ==
    ASSUME Inv, RunStands, NEW s \in Sessions, Commit(s)
    PROVE  Atomic!Next
<1>1. PICK k, b, results : k = request[s].key /\ b = request[s].batch /\ results = work.results
  OBVIOUS
<1>2. /\ pc[s] = "applying" /\ Len(work.results) = Len(b) /\ k \notin DOMAIN receipts
      /\ plan' = work.plan /\ snaps' = snaps
      /\ receipts' = Put(receipts, k, [results |-> results, annotated |-> FALSE])
      /\ reply' = [reply EXCEPT ![s] = Answered(k, results, FALSE)]
  BY <1>1 DEF Commit, BatchDone, KeyUnused, Answer
<1>3. owner = s
  BY <1>2 DEF Inv, LockStands
<1>4. k \in Keys /\ b \in Batches /\ Len(b) \in Nat
  BY <1>1, <1>2, BatchesAreEntries DEF Inv, CallsStand, CallStands
<1>5. Atomic!Run(b) = <<work>>
  <2>1. PICK w : w = <<work>>
    OBVIOUS
  <2>2. \A f : IsRun(f, plan, b, Len(b)) => f[Len(b)] = w
    BY <1>1, <1>2, <1>3, <2>1 DEF RunStands
  <2>3. Atomic!Run(b) = w
    BY <1>4, <2>2, RunIsRun
  <2> QED
    BY <2>1, <2>3
<1>6. <<work>> # <<>> /\ <<work>>[1] = work
  OBVIOUS
<1>7. k \notin DOMAIN Ledger
  BY <1>2 DEF Ledger
<1>8. Ledger' = Put(Ledger, k, results)
  <2>1. DOMAIN receipts' = DOMAIN receipts \cup {k} /\ receipts'[k].results = results
        /\ \A x \in DOMAIN receipts : receipts'[x].results = receipts[x].results
    <3>1. PICK no : no = FALSE
      OBVIOUS
    <3>2. PICK entry : entry = [results |-> results, annotated |-> no]
      OBVIOUS
    <3>3. receipts' = Put(receipts, k, entry)
      BY <1>2, <3>1, <3>2, Zenon
    <3>4. entry.results = results
      BY <3>2
    <3> QED
      BY <1>2, <3>3, <3>4 DEF Put
  <2> QED
    BY <2>1 DEF Ledger, Put
<1>9. Atomic!Write(s, k, b)
  BY <1>1, <1>2, <1>5, <1>6, <1>7, <1>8
     DEF Atomic!Write, Atomic!Put, Put, Atomic!Answered, Answered, Ledger
<1> QED
  BY <1>4, <1>9 DEF Atomic!Next

LEMMA SnapshotRefines ==
    ASSUME Inv, ReadsStand, NEW s \in Sessions, StoreSnapshot(s)
    PROVE  Atomic!Next
<1>1. /\ pc[s] = "reading" /\ snaps' = Append(snaps, [plan EXCEPT !.rows = held[s][2]])
      /\ UNCHANGED <<plan, receipts, reply>>
  BY DEF StoreSnapshot
<1>2. held[s][2] = plan.rows
  BY <1>1 DEF ReadsStand
<1>3. [plan EXCEPT !.rows = plan.rows] = plan
  <2>1. PICK rows, links, n, v :
              plan = [rows |-> rows, links |-> links, nextLink |-> n, schema |-> v]
    BY PlanParts DEF Inv, OnFile
  <2> QED
    BY <2>1
<1>4. Atomic!Snapshot
  BY <1>1, <1>2, <1>3 DEF Atomic!Snapshot
<1> QED
  BY <1>4 DEF Atomic!Next

LEMMA RewindRefines ==
    ASSUME NEW i \in DOMAIN snaps, RestorePayload(snaps[i]), UNCHANGED <<receipts, snaps, reply>>
    PROVE  Atomic!Next
<1>1. Atomic!Rewind(i)
  BY DEF Atomic!Rewind, RestorePayload
<1> QED
  BY <1>1 DEF Atomic!Next

LEMMA ClearRefines ==
    ASSUME NEW s \in Sessions, Restart(s)
    PROVE  Atomic!Next
<1>1. Atomic!Clear
  BY DEF Atomic!Clear, Restart, EmptyPlan, Atomic!EmptyPlan, EmptyFcn, Atomic!EmptyFcn, callVars
<1> QED
  BY <1>1 DEF Atomic!Next

LEMMA UpgradeRefines ==
    ASSUME NEW s \in Sessions, Migrate(s)
    PROVE  Atomic!Next
<1>1. Atomic!Upgrade
  BY DEF Atomic!Upgrade, Migrate, Migratable
<1> QED
  BY <1>1 DEF Atomic!Next

LEMMA DropRefines ==
    ASSUME NEW s \in Sessions, Salvage(s)
    PROVE  Atomic!Next
<1>1. PICK lost : lost = held[s][1] \cap DOMAIN plan.rows
  OBVIOUS
<1>2. Without(plan.rows, held[s][1]) = Without(plan.rows, lost)
  <2>1. DOMAIN plan.rows \ held[s][1] = DOMAIN plan.rows \ lost
    BY <1>1
  <2> QED
    BY <2>1 DEF Without
<1>3. plan' = [plan EXCEPT !.rows = Without(plan.rows, lost)]
      /\ receipts' = receipts /\ snaps' = snaps /\ reply' = reply
  BY <1>2 DEF Salvage
<1>4. Atomic!Drop(lost)
  BY <1>3 DEF Atomic!Drop, Atomic!Without, Without
<1> QED
  BY <1>1, <1>4 DEF Atomic!Next

LEMMA DecayRefines ==
    ASSUME NEW r \in Readable, Decay(r)
    PROVE  Atomic!Next
<1>1. Atomic!Decay(r)
  BY DEF Atomic!Decay, Decay, callVars
<1>2. r \in DOMAIN plan.rows
  BY DEF Readable
<1> QED
  BY <1>1, <1>2 DEF Atomic!Next

\* Every step of the engine is one of the atomic store, or none.
LEMMA StepRefines ==
    ASSUME Inv, RunStands, ReadsStand, [Next]_vars
    PROVE  [Atomic!Next]_(Atomic!vars)
<1> DEFINE Goal == Atomic!Next \/ UNCHANGED Atomic!vars
<1>1. ASSUME NEW s \in Sessions, NEW k \in Keys, ReplayReceipt(s, k) PROVE Goal
  BY <1>1, ReplayRefines
<1>2. ASSUME NEW s \in Sessions, NEW k \in Keys, NEW b \in Batches, Call(s, k, b) PROVE Goal
  BY <1>2, StoreStutters DEF Call
<1>3. ASSUME NEW s \in Sessions, GiveUp(s) \/ Abort(s) PROVE Goal
  BY <1>3, RefuseRefines DEF GiveUp, Abort
<1>4. ASSUME NEW s \in Sessions, Begin(s) PROVE Goal
  BY <1>4, StoreStutters DEF Begin
<1>5. ASSUME NEW s \in Sessions, ApplyNext(s) PROVE Goal
  BY <1>5, StoreStutters DEF ApplyNext, callVars
<1>6. ASSUME NEW s \in Sessions, Commit(s) PROVE Goal
  BY <1>6, WriteRefines
<1>7. ASSUME NEW s \in Sessions, Annotate(s) PROVE Goal
  <2>1. Kept
    BY <1>7, AnnotateKeeps
  <2>2. DOMAIN receipts' = DOMAIN receipts /\ UNCHANGED <<plan, snaps, reply>>
    BY <1>7 DEF Annotate, callVars
  <2> QED
    BY <2>1, <2>2, Stutters
<1>8. ASSUME NEW s \in Sessions, Deliver(s) \/ Crash(s) PROVE Goal
  BY <1>8, ForgetRefines DEF Deliver, Crash
<1>9. ASSUME NEW s \in Sessions, NEW target \in {0} \cup SchemaVersions, StartSnapshot(s, target)
      PROVE  Goal
  BY <1>9, StoreStutters DEF StartSnapshot
<1>10. ASSUME NEW s \in Sessions, StoreSnapshot(s) PROVE Goal
  BY <1>10, SnapshotRefines
<1>11. ASSUME NEW s \in Sessions, Migrate(s) PROVE Goal
  BY <1>11, UpgradeRefines
<1>12. ASSUME NEW s \in Sessions, FailMigration(s) PROVE Goal
  <2>1. held[s][2] \in DOMAIN snaps
    BY <1>12 DEF FailMigration, Inv, CallsStand, CallStands
  <2> QED
    BY <1>12, <2>1, RewindRefines DEF FailMigration
<1>13. ASSUME NEW s \in Sessions, NEW i \in DOMAIN snaps, Restore(s, i) PROVE Goal
  BY <1>13, RewindRefines DEF Restore, callVars
<1>14. ASSUME NEW s \in Sessions, Restart(s) PROVE Goal
  BY <1>14, ClearRefines
<1>15. ASSUME NEW s \in Sessions, Inspect(s) PROVE Goal
  BY <1>15, StoreStutters DEF Inspect
<1>16. ASSUME NEW s \in Sessions, Salvage(s) PROVE Goal
  BY <1>16, DropRefines
<1>17. ASSUME NEW r \in Readable, Decay(r) PROVE Goal
  BY <1>17, DecayRefines
<1>18. ASSUME GuiReload \/ GuiPoll \/ \E r \in gui.stale : GuiFetch(r) PROVE Goal
  BY <1>18, StoreStutters DEF GuiReload, GuiPoll, GuiFetch, callVars
<1>19. ASSUME UNCHANGED vars PROVE Goal
  BY <1>19, StoreStutters DEF vars, callVars
<1> HIDE DEF Goal
<1>20. Goal
  BY <1>1, <1>2, <1>3, <1>4, <1>5, <1>6, <1>7, <1>8, <1>9, <1>10, <1>11, <1>12, <1>13, <1>14,
     <1>15, <1>16, <1>17, <1>18, <1>19 DEF Next
<1> QED
  BY <1>20 DEF Goal

\* What sessions see of the engine is the atomic store: a batch is done at once or not at
\* all, a key is answered as it was the first time, a recovery puts back one instant.  A
\* snapshot is of one instant when no other session writes while it is read.
THEOREM EngineIsAtomic ==
    ASSUME OneReader
    PROVE  Spec => RefinesAtomicStore
<1> DEFINE IInv == Inv /\ RunStands /\ ReadsStand
<1>1. Init => IInv
  BY InitStands, NobodyIsNoSession DEF Init, RunStands, ReadsStand
<1>2. IInv /\ [Next]_vars => IInv'
  BY NextKeeps, RunGoesOn, ReadGoesOn
<1>3. Init => Atomic!Init
  BY DEF Init, Atomic!Init, EmptyPlan, Atomic!EmptyPlan, EmptyFcn, Atomic!EmptyFcn
<1>4. IInv /\ [Next]_vars => [Atomic!Next]_(Atomic!vars)
  BY StepRefines
<1> HIDE DEF IInv
<1> QED
  BY <1>1, <1>2, <1>3, <1>4, PTL DEF Spec, Atomic!Spec, RefinesAtomicStore
===============================================================================
