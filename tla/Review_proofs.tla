------------------------------ MODULE Review_proofs ------------------------------
(***************************************************************************)
(* Theorems of Review, for any methodology, starting plans, words and      *)
(* bounds: that an open finding can be settled (FindingsCanBeSettled),     *)
(* that a gate holds its lock (LocksAreKept), that the last one passes     *)
(* over nothing (TheLastGateIsLast), that an unblocked verdict rests on no *)
(* contested row (VerdictsAreUncontested), that what was set aside stays   *)
(* aside along a lineage (DismissalsFollowLineage) and that a run on       *)
(* record has listed its conditions (ConditionsAreOnRecord).               *)
(*                                                                         *)
(* The invariant says of a run under way that its verdict still stands and *)
(* that its conditions are each in the ledger or still to be raised; of    *)
(* the plan, and of every snapshot it may be rewound to, that its parts    *)
(* refer to each other; and of a finding which of its keys are free.       *)
(***************************************************************************)
EXTENDS Review, ListLemmas

---------------------------------------------------------------------------
(* Findings.                                                               *)

IsFinding(f) ==
    \E r, s, n, e, d :
        f = [on |-> r, state |-> s, resolveBy |-> n, explained |-> e, deferrals |-> d]

\* A finding that was not addressed has not been addressed nor withdrawn.
FindingStands(i) ==
    /\ IsFinding(findings[i])
    /\ findings[i].state \in {"filed", "disputed", "accepted_risk", "addressed"}
    /\ findings[i].state # "addressed" =>
        /\ <<"finding", i, "address">> \notin receipts
        /\ <<"finding", i, "withdraw">> \notin receipts

FindingsInv ==
    /\ IsList(findings)
    /\ \A i \in DOMAIN findings : FindingStands(i)
    /\ \A i, e : <<"finding", i, e>> \in receipts => i \in DOMAIN findings

\* Its receipts tell whether a finding can be settled.
LEMMA FindingsSettle ==
    ASSUME FindingsInv PROVE AlwaysSettleable
<1> SUFFICES ASSUME NEW i \in DOMAIN findings, IsOpen(i)
             PROVE  \E t \in Transitions :
                        /\ t[1] = findings[i].state /\ t[3] \in {"addressed", "accepted_risk"}
                        /\ <<"finding", i, t[2]>> \notin receipts
  BY DEF AlwaysSettleable
<1>1. FindingStands(i)
  BY DEF FindingsInv
<1>2. CASE findings[i].state = "filed"
  <2> DEFINE t == <<"filed", "address", "addressed">>
  <2>1. t \in Transitions /\ t[1] = "filed" /\ t[2] = "address" /\ t[3] = "addressed"
    BY DEF Transitions
  <2> QED
    BY <1>1, <1>2, <2>1 DEF FindingStands
<1>3. CASE findings[i].state = "disputed"
  <2> DEFINE t == <<"disputed", "withdraw", "addressed">>
  <2>1. t \in Transitions /\ t[1] = "disputed" /\ t[2] = "withdraw" /\ t[3] = "addressed"
    BY DEF Transitions
  <2> QED
    BY <1>1, <1>3, <2>1 DEF FindingStands
<1> QED
  BY <1>1, <1>2, <1>3 DEF FindingStands, IsOpen

\* Whoever leaves the findings alone and writes no key of theirs keeps this.
LEMMA FindingsElsewhere ==
    ASSUME FindingsInv, UNCHANGED findings, \A k \in receipts' \ receipts : k[1] # "finding"
    PROVE  FindingsInv'
<1>1. \A i, e : <<"finding", i, e>> \in receipts' => <<"finding", i, e>> \in receipts
  <2> SUFFICES ASSUME NEW i, NEW e, <<"finding", i, e>> \in receipts',
                      <<"finding", i, e>> \notin receipts
               PROVE  FALSE
    OBVIOUS
  <2>1. <<"finding", i, e>>[1] = "finding"
    OBVIOUS
  <2> QED
    BY <2>1
<1>2. ASSUME NEW i \in DOMAIN findings' PROVE FindingStands(i)'
  BY <1>1 DEF FindingsInv, FindingStands
<1> QED
  BY <1>1, <1>2 DEF FindingsInv

\* A finding is filed with its keys free, ...
LEMMA FileKeepsFindings ==
    ASSUME FindingsInv, NEW r, NEW n, FileFinding(r, n)
    PROVE  FindingsInv'
<1>1. PICK f : f = [on |-> r, state |-> "filed", resolveBy |-> n, explained |-> FALSE,
                    deferrals |-> <<>>]
  OBVIOUS
<1>2. IsFinding(f) /\ f.state = "filed"
  BY <1>1 DEF IsFinding
<1>3. PICK k : k = Len(findings) + 1
  OBVIOUS
<1>4. findings' = Append(findings, f) /\ receipts' = receipts \cup {<<"file_finding", r, n>>}
  BY <1>1 DEF FileFinding, Write
<1>5. \A i, e : <<"finding", i, e>> \in receipts' <=> <<"finding", i, e>> \in receipts
  BY <1>4
<1>6. /\ IsList(findings') /\ IsList(findings)
      /\ DOMAIN findings' = DOMAIN findings \cup {k}
      /\ \A i \in DOMAIN findings : findings'[i] = findings[i]
      /\ findings'[k] = f
  BY <1>3, <1>4, ListAppend DEF FindingsInv
<1>7. k \notin DOMAIN findings
  BY <1>3, <1>6, ListShape
<1>8. FindingStands(k)'
  BY <1>2, <1>5, <1>6, <1>7 DEF FindingStands, FindingsInv
<1>9. ASSUME NEW i \in DOMAIN findings PROVE FindingStands(i)'
  BY <1>5, <1>6 DEF FindingStands, FindingsInv
<1> QED
  BY <1>5, <1>6, <1>8, <1>9 DEF FindingsInv

\* ... an event takes its own and moves it as the transitions have it, ...
LEMMA MoveKeepsFindings ==
    ASSUME FindingsInv, NEW i \in DOMAIN findings, NEW event, MoveFinding(i, event)
    PROVE  FindingsInv'
<1>1. PICK t \in Transitions :
        /\ t[1] = findings[i].state /\ t[2] = event
        /\ findings' = [findings EXCEPT ![i].state = t[3],
                                        ![i].explained = @ \/ event # "dispute"]
  BY DEF MoveFinding
<1>2. receipts' = receipts \cup {<<"finding", i, event>>}
  BY DEF MoveFinding, Write
<1>3. FindingStands(i) /\ IsList(findings)
  BY DEF FindingsInv
<1>4. PICK x : x = (findings[i].explained \/ event # "dispute")
  OBVIOUS
<1>4a. PICK g : g = [findings[i] EXCEPT !.state = t[3]]
  OBVIOUS
<1>4b. PICK f : f = [g EXCEPT !.explained = x]
  OBVIOUS
<1>5. IsFinding(f) /\ f.state = t[3]
  <2>1. PICK r, s, n, e, d : findings[i] =
            [on |-> r, state |-> s, resolveBy |-> n, explained |-> e, deferrals |-> d]
    BY <1>3 DEF FindingStands, IsFinding
  <2>1a. g = [on |-> r, state |-> t[3], resolveBy |-> n, explained |-> e, deferrals |-> d]
    BY <1>4a, <2>1
  <2>2. f = [on |-> r, state |-> t[3], resolveBy |-> n, explained |-> x,
             deferrals |-> d]
    BY <1>4b, <2>1a
  <2> QED
    BY <2>2 DEF IsFinding
<1>6. /\ IsList(findings') /\ DOMAIN findings' = DOMAIN findings
      /\ \A j \in DOMAIN findings : findings'[j] = IF j = i THEN f ELSE findings[j]
  <2>1. findings' = [findings EXCEPT ![i] = f]
    BY <1>1, <1>4, <1>4a, <1>4b
  <2> QED
    BY <1>3, <2>1, ListUpdate
<1>7. \A j, e : <<"finding", j, e>> \in receipts' <=>
                    <<"finding", j, e>> \in receipts \/ (j = i /\ e = event)
  BY <1>2
<1>8. t[3] \in {"filed", "disputed", "accepted_risk", "addressed"}
  BY DEF Transitions
<1>9. t[3] # "addressed" => event \notin {"address", "withdraw"} /\ t[1] # "addressed"
  BY <1>1 DEF Transitions
<1>10. FindingStands(i)'
  BY <1>1, <1>3, <1>5, <1>6, <1>7, <1>8, <1>9 DEF FindingStands
<1>11. ASSUME NEW j \in DOMAIN findings, j # i PROVE FindingStands(j)'
  BY <1>6, <1>7, <1>11 DEF FindingStands, FindingsInv
<1> QED
  BY <1>6, <1>7, <1>10, <1>11 DEF FindingsInv

\* ... and a deferral leaves it where it was.
LEMMA ReallocateKeepsFindings ==
    ASSUME FindingsInv, NEW i \in DOMAIN findings, NEW n, ReallocateFinding(i, n)
    PROVE  FindingsInv'
<1>1. PICK m : m = <<findings[i].resolveBy, n>>
  OBVIOUS
<1>2. /\ receipts' = receipts \cup {<<"reallocate_finding", i, n>>}
      /\ findings' = [findings EXCEPT ![i].resolveBy = n, ![i].deferrals = Append(@, m)]
  BY <1>1 DEF ReallocateFinding, Write
<1>3. FindingStands(i) /\ IsList(findings)
  BY DEF FindingsInv
<1>4. PICK x : x = Append(findings[i].deferrals, m)
  OBVIOUS
<1>4a. PICK g : g = [findings[i] EXCEPT !.resolveBy = n]
  OBVIOUS
<1>4b. PICK f : f = [g EXCEPT !.deferrals = x]
  OBVIOUS
<1>5. IsFinding(f) /\ f.state = findings[i].state
  <2>1. PICK r, s, k, e, d : findings[i] =
            [on |-> r, state |-> s, resolveBy |-> k, explained |-> e, deferrals |-> d]
    BY <1>3 DEF FindingStands, IsFinding
  <2>1a. g = [on |-> r, state |-> s, resolveBy |-> n, explained |-> e, deferrals |-> d]
    BY <1>4a, <2>1
  <2>2. f = [on |-> r, state |-> s, resolveBy |-> n, explained |-> e,
             deferrals |-> x]
    BY <1>4b, <2>1a
  <2>3. f.state = s /\ findings[i].state = s
    BY <2>1, <2>2
  <2>4. IsFinding(f)
    BY <2>2 DEF IsFinding
  <2> QED
    BY <2>3, <2>4
<1>6. /\ IsList(findings') /\ DOMAIN findings' = DOMAIN findings
      /\ \A j \in DOMAIN findings : findings'[j] = IF j = i THEN f ELSE findings[j]
  <2>1. findings' = [findings EXCEPT ![i] = f]
    BY <1>2, <1>4, <1>4a, <1>4b
  <2> QED
    BY <1>3, <2>1, ListUpdate
<1>7. \A j, e : <<"finding", j, e>> \in receipts' <=> <<"finding", j, e>> \in receipts
  BY <1>2
<1>8. ASSUME NEW j \in DOMAIN findings PROVE FindingStands(j)'
  BY <1>3, <1>5, <1>6, <1>7, <1>8 DEF FindingStands, FindingsInv
<1> QED
  BY <1>6, <1>7, <1>8 DEF FindingsInv

---------------------------------------------------------------------------
(* Plans, and the snapshots of them.                                       *)

IsPlan(p) ==
    \E r, l, o, c, w :
        p = [rows |-> r, links |-> l, overlay |-> o, conflicts |-> c, warnings |-> w]

IsRow(x) ==
    \E t, c, s, k, o, l :
        x = [table |-> t, content |-> c, says |-> s, kind |-> k, root |-> o, live |-> l]

IsWarning(x) ==
    \E s, n : x = [state |-> s, names |-> n] /\ s \in {"active", "suppressed", "resolved"}

\* A row is of the lineage its first row began.
RowsStand(rows) ==
    /\ IsList(rows)
    /\ \A r \in DOMAIN rows :
        /\ IsRow(rows[r])
        /\ rows[r].root \in DOMAIN rows /\ rows[rows[r].root].root = rows[r].root
        /\ IsFiniteSet(Untouched(rows[r].content))

\* A gap is told by its rule, a lineage or none, and what else there is.
IsGap(rows, g) ==
    /\ g = <<g[1], g[2], g[3]>>
    /\ g[2] # 0 => g[2] \in DOMAIN rows /\ rows[g[2]].root = g[2]

PlanStands(p) ==
    /\ IsPlan(p)
    /\ RowsStand(p.rows)
    /\ \A l \in p.links : {l[1], l[2]} \subseteq DOMAIN p.rows
    /\ \A g \in DOMAIN p.overlay : IsGap(p.rows, g)
    /\ DOMAIN p.conflicts \subseteq DOMAIN p.rows
    /\ IsFiniteSet(DOMAIN p.warnings)
    /\ \A k \in DOMAIN p.warnings : IsWarning(p.warnings[k])

\* An update of one field of a plan leaves the others.
LEMMA SetRows ==
    ASSUME NEW p, IsPlan(p), NEW v, NEW q, q = [p EXCEPT !.rows = v]
    PROVE  /\ IsPlan(q) /\ q.rows = v
           /\ q.links = p.links /\ q.overlay = p.overlay
           /\ q.conflicts = p.conflicts /\ q.warnings = p.warnings
<1>1. PICK r, l, o, c, w :
        p = [rows |-> r, links |-> l, overlay |-> o, conflicts |-> c, warnings |-> w]
  BY DEF IsPlan
<1>2. q = [rows |-> v, links |-> l, overlay |-> o, conflicts |-> c, warnings |-> w]
  BY <1>1
<1>3. IsPlan(q)
  BY <1>2 DEF IsPlan
<1> QED
  BY <1>1, <1>2, <1>3

\* The same of its links, ...
LEMMA SetLinks ==
    ASSUME NEW p, IsPlan(p), NEW v, NEW q, q = [p EXCEPT !.links = v]
    PROVE  /\ IsPlan(q) /\ q.links = v
           /\ q.rows = p.rows /\ q.overlay = p.overlay
           /\ q.conflicts = p.conflicts /\ q.warnings = p.warnings
<1>1. PICK r, l, o, c, w :
        p = [rows |-> r, links |-> l, overlay |-> o, conflicts |-> c, warnings |-> w]
  BY DEF IsPlan
<1>2. q = [rows |-> r, links |-> v, overlay |-> o, conflicts |-> c, warnings |-> w]
  BY <1>1
<1>3. IsPlan(q)
  BY <1>2 DEF IsPlan
<1> QED
  BY <1>1, <1>2, <1>3

\* ... its overlay, ...
LEMMA SetOverlay ==
    ASSUME NEW p, IsPlan(p), NEW v, NEW q, q = [p EXCEPT !.overlay = v]
    PROVE  /\ IsPlan(q) /\ q.overlay = v
           /\ q.rows = p.rows /\ q.links = p.links
           /\ q.conflicts = p.conflicts /\ q.warnings = p.warnings
<1>1. PICK r, l, o, c, w :
        p = [rows |-> r, links |-> l, overlay |-> o, conflicts |-> c, warnings |-> w]
  BY DEF IsPlan
<1>2. q = [rows |-> r, links |-> l, overlay |-> v, conflicts |-> c, warnings |-> w]
  BY <1>1
<1>3. IsPlan(q)
  BY <1>2 DEF IsPlan
<1> QED
  BY <1>1, <1>2, <1>3

\* ... its conflicts ...
LEMMA SetConflicts ==
    ASSUME NEW p, IsPlan(p), NEW v, NEW q, q = [p EXCEPT !.conflicts = v]
    PROVE  /\ IsPlan(q) /\ q.conflicts = v
           /\ q.rows = p.rows /\ q.links = p.links
           /\ q.overlay = p.overlay /\ q.warnings = p.warnings
<1>1. PICK r, l, o, c, w :
        p = [rows |-> r, links |-> l, overlay |-> o, conflicts |-> c, warnings |-> w]
  BY DEF IsPlan
<1>2. q = [rows |-> r, links |-> l, overlay |-> o, conflicts |-> v, warnings |-> w]
  BY <1>1
<1>3. IsPlan(q)
  BY <1>2 DEF IsPlan
<1> QED
  BY <1>1, <1>2, <1>3

\* ... and its warnings.
LEMMA SetWarnings ==
    ASSUME NEW p, IsPlan(p), NEW v, NEW q, q = [p EXCEPT !.warnings = v]
    PROVE  /\ IsPlan(q) /\ q.warnings = v
           /\ q.rows = p.rows /\ q.links = p.links
           /\ q.overlay = p.overlay /\ q.conflicts = p.conflicts
<1>1. PICK r, l, o, c, w :
        p = [rows |-> r, links |-> l, overlay |-> o, conflicts |-> c, warnings |-> w]
  BY DEF IsPlan
<1>2. q = [rows |-> r, links |-> l, overlay |-> o, conflicts |-> c, warnings |-> v]
  BY <1>1
<1>3. IsPlan(q)
  BY <1>2 DEF IsPlan
<1> QED
  BY <1>1, <1>2, <1>3

\* What rows are replaced with keeps every lineage and link, and every gap.
RowsFollow(old, new) ==
    /\ RowsStand(new)
    /\ DOMAIN old \subseteq DOMAIN new
    /\ \A r \in DOMAIN old : new[r].root = old[r].root

\* A gap of a lineage stays one.
LEMMA GapsStay ==
    ASSUME NEW old, NEW new, RowsFollow(old, new), NEW g, IsGap(old, g)
    PROVE  IsGap(new, g)
BY DEF RowsFollow, IsGap

\* A plan follows one that stands if its parts do.
LEMMA PlanFollows ==
    ASSUME NEW p, NEW q, PlanStands(p), IsPlan(q), RowsFollow(p.rows, q.rows),
           \A l \in q.links : l \in p.links \/ {l[1], l[2]} \subseteq DOMAIN q.rows,
           \A g \in DOMAIN q.overlay : g \in DOMAIN p.overlay \/ IsGap(q.rows, g),
           DOMAIN q.conflicts \subseteq DOMAIN q.rows,
           IsFiniteSet(DOMAIN q.warnings),
           \A k \in DOMAIN q.warnings : IsWarning(q.warnings[k])
    PROVE  PlanStands(q)
<1>1. \A l \in q.links : {l[1], l[2]} \subseteq DOMAIN q.rows
  BY DEF PlanStands, RowsFollow
<1>2. \A g \in DOMAIN q.overlay : IsGap(q.rows, g)
  BY GapsStay DEF PlanStands
<1> QED
  BY <1>1, <1>2 DEF PlanStands, RowsFollow

\* Rows one of which changes in what is not its lineage nor its content ...
LEMMA RowChanges ==
    ASSUME NEW rows, RowsStand(rows), NEW r \in DOMAIN rows, NEW x,
           IsRow(x), x.root = rows[r].root, x.content = rows[r].content
    PROVE  RowsFollow(rows, [rows EXCEPT ![r] = x])
<1>1. PICK new : new = [rows EXCEPT ![r] = x]
  OBVIOUS
<1>2. /\ IsList(new) /\ DOMAIN new = DOMAIN rows
      /\ \A q \in DOMAIN rows : new[q] = IF q = r THEN x ELSE rows[q]
  BY <1>1, ListUpdate DEF RowsStand
<1>3. \A q \in DOMAIN rows : new[q].root = rows[q].root /\ new[q].content = rows[q].content
  BY <1>2
<1>4. ASSUME NEW q \in DOMAIN new
      PROVE  /\ IsRow(new[q])
             /\ new[q].root \in DOMAIN new /\ new[new[q].root].root = new[q].root
             /\ IsFiniteSet(Untouched(new[q].content))
  BY <1>2, <1>3 DEF RowsStand
<1> QED
  BY <1>1, <1>2, <1>3, <1>4 DEF RowsFollow, RowsStand

\* ... or to which one is added, of its own lineage or one there is.
LEMMA RowIsAdded ==
    ASSUME NEW rows, RowsStand(rows), NEW x, IsRow(x),
           x.root = Len(rows) + 1 \/ (\E r \in DOMAIN rows : x.root = rows[r].root),
           IsFiniteSet(Untouched(x.content))
    PROVE  RowsFollow(rows, Append(rows, x))
<1>1. PICK new, n : new = Append(rows, x) /\ n = Len(rows) + 1
  OBVIOUS
<1>2. /\ IsList(new) /\ DOMAIN new = DOMAIN rows \cup {n}
      /\ \A q \in DOMAIN rows : new[q] = rows[q]
      /\ new[n] = x
  BY <1>1, ListAppend DEF RowsStand
<1>3. x.root \in DOMAIN new /\ new[x.root].root = x.root
  BY <1>1, <1>2 DEF RowsStand
<1>4. ASSUME NEW q \in DOMAIN new
      PROVE  /\ IsRow(new[q])
             /\ new[q].root \in DOMAIN new /\ new[new[q].root].root = new[q].root
             /\ IsFiniteSet(Untouched(new[q].content))
  BY <1>2, <1>3 DEF RowsStand
<1> QED
  BY <1>1, <1>2, <1>4 DEF RowsFollow, RowsStand

\* One change of rows after another is a change of rows.
LEMMA Follows ==
    ASSUME NEW a, NEW b, NEW c, RowsFollow(a, b), RowsFollow(b, c)
    PROVE  RowsFollow(a, c)
BY DEF RowsFollow

\* A row is filed live, of the lineage it is given.
LEMMA RowIsRow ==
    ASSUME NEW c, NEW root
    PROVE  /\ IsRow(Row(c, root))
           /\ Row(c, root).root = root /\ Row(c, root).content = c.content
           /\ Row(c, root).table = c.table
<1>1. PICK yes : yes = TRUE
  OBVIOUS
<1>2. Row(c, root) = [table |-> c.table, content |-> c.content, says |-> c.says,
                      kind |-> c.kind, root |-> root, live |-> yes]
  BY <1>1 DEF Row
<1>3. IsRow(Row(c, root))
  BY <1>2 DEF IsRow
<1> QED
  BY <1>2, <1>3

\* A row that is no longer live, or an assumption decided.
LEMMA RowDies ==
    ASSUME NEW x, IsRow(x), NEW v, NEW y, y = [x EXCEPT !.live = v]
    PROVE  IsRow(y) /\ y.root = x.root /\ y.content = x.content /\ y.table = x.table
<1>1. PICK t, c, s, k, o, l :
        x = [table |-> t, content |-> c, says |-> s, kind |-> k, root |-> o, live |-> l]
  BY DEF IsRow
<1>2. y = [table |-> t, content |-> c, says |-> s, kind |-> k, root |-> o, live |-> v]
  BY <1>1
<1>3. IsRow(y)
  BY <1>2 DEF IsRow
<1> QED
  BY <1>1, <1>2, <1>3

\* An assumption decided is the same row otherwise.
LEMMA RowDecided ==
    ASSUME NEW x, IsRow(x), NEW v, NEW y, y = [x EXCEPT !.kind = v]
    PROVE  IsRow(y) /\ y.root = x.root /\ y.content = x.content /\ y.table = x.table
<1>1. PICK t, c, s, k, o, l :
        x = [table |-> t, content |-> c, says |-> s, kind |-> k, root |-> o, live |-> l]
  BY DEF IsRow
<1>2. y = [table |-> t, content |-> c, says |-> s, kind |-> v, root |-> o, live |-> l]
  BY <1>1
<1>3. IsRow(y)
  BY <1>2 DEF IsRow
<1> QED
  BY <1>1, <1>2, <1>3

\* Every gap derived is of the lineage of a row there is, or of none.
LEMMA KeyIsGap ==
    ASSUME NEW p, RowsStand(p.rows), NEW rule, NEW r, r = 0 \/ r \in DOMAIN p.rows, NEW x
    PROVE  IsGap(p.rows, GapKey(p, rule, r, x))
BY DEF GapKey, IsGap, RowsStand

\* So a gap derived is one.
LEMMA DerivedAreGaps ==
    ASSUME NEW p, RowsStand(p.rows), NEW rule \in Rules, NEW g \in Derived(p, rule)
    PROVE  IsGap(p.rows, g)
<1>1. LiveRows(p) \subseteq DOMAIN p.rows
  BY DEF LiveRows
<1>2. /\ \A t : Live(p, t) \subseteq DOMAIN p.rows
      /\ Asked(p, rule) \subseteq DOMAIN p.rows
      /\ OpenAssumptions(p) \subseteq DOMAIN p.rows
  BY <1>1 DEF Live, Asked, OpenAssumptions
<1>3. \E r, x : (r = 0 \/ r \in DOMAIN p.rows) /\ g = GapKey(p, rule, r, x)
  <2>1. CASE rule.type = "empty_table"
    <3>1. Derived(p, rule) = IF Live(p, rule.table) = {} THEN {GapKey(p, rule, 0, {})} ELSE {}
      BY <2>1, Zenon DEF Derived
    <3> QED
      BY <3>1
  <2>2. CASE rule.type = "missing_field"
    <3>1. Derived(p, rule) = Lacking(p, rule)
      BY <2>2 DEF Derived
    <3> QED
      BY <3>1, <1>2 DEF Lacking
  <2>3. CASE rule.type = "untraced"
    <3>1. Derived(p, rule) = Untraced(p, rule)
      BY <2>3 DEF Derived
    <3> QED
      BY <3>1, <1>2 DEF Untraced
  <2>4. CASE rule.type = "open_assumption"
    <3>1. Derived(p, rule) = OpenAssumption(p, rule)
      BY <2>4 DEF Derived
    <3> QED
      BY <3>1, <1>2 DEF OpenAssumption
  <2>5. CASE rule.type = "uncited_section"
    <3>1. Derived(p, rule) = UncitedSection(p, rule)
      BY <2>5 DEF Derived
    <3> QED
      BY <3>1, <1>2 DEF UncitedSection
  <2>6. CASE rule.type = "no_glossary"
    <3>1. Derived(p, rule) = IF Defined = {} /\ LiveRows(p) # {} THEN {GapKey(p, rule, 0, {})} ELSE {}
      BY <2>6 DEF Derived
    <3> QED
      BY <3>1
  <2>7. CASE rule.type = "unsettled_term"
    <3>1. Derived(p, rule) = {GapKey(p, rule, 0, {w}) : w \in Awaiting}
      BY <2>7 DEF Derived
    <3> QED
      BY <3>1
  <2> QED
    BY <2>1, <2>2, <2>3, <2>4, <2>5, <2>6, <2>7, RulesAreKnown
<1> QED
  BY <1>3, KeyIsGap

---------------------------------------------------------------------------
(* What an operation makes of the plan.                                    *)

\* A row filed begins a lineage.
LEMMA SubmitKeepsPlan ==
    ASSUME PlanStands(plan), NEW c \in Contents, NEW targets \in SUBSET DOMAIN plan.rows,
           SubmitRow(c, targets)
    PROVE  PlanStands(plan')
<1>1. PICK rows, n : rows = plan.rows /\ n = Len(rows) + 1
  OBVIOUS
<1>2. PICK x : x = Row(c, n)
  OBVIOUS
<1>3. PICK links : links = plan.links \cup ({n} \X targets)
  OBVIOUS
<1>3a. PICK added : added = Append(rows, x)
  OBVIOUS
<1>4. PICK p : p = [plan EXCEPT !.rows = added]
  OBVIOUS
<1>5. plan' = [p EXCEPT !.links = links]
  BY <1>1, <1>2, <1>3, <1>3a, <1>4 DEF SubmitRow
<1>6. /\ IsPlan(p) /\ p.rows = added /\ p.links = plan.links
      /\ p.overlay = plan.overlay /\ p.conflicts = plan.conflicts /\ p.warnings = plan.warnings
  <2>1. IsPlan(plan)
    BY DEF PlanStands
  <2> QED
    BY <1>4, <2>1, SetRows
<1>7. /\ IsPlan(plan') /\ plan'.rows = Append(rows, x) /\ plan'.links = links
      /\ plan'.overlay = plan.overlay /\ plan'.conflicts = plan.conflicts
      /\ plan'.warnings = plan.warnings
  BY <1>3a, <1>5, <1>6, SetLinks
<1>8. RowsFollow(rows, Append(rows, x))
  <2>1. RowsStand(rows)
    BY <1>1 DEF PlanStands
  <2>2. IsRow(x) /\ x.root = n /\ x.content = c.content
    BY <1>2, RowIsRow
  <2>3. IsFiniteSet(Untouched(x.content))
    BY <2>2, ContentsAreFinite
  <2> QED
    BY <1>1, <2>1, <2>2, <2>3, RowIsAdded
<1>9. DOMAIN Append(rows, x) = DOMAIN rows \cup {n}
  BY <1>1, ListAppend DEF PlanStands, RowsStand
<1>10. \A l \in plan'.links : l \in plan.links \/ {l[1], l[2]} \subseteq DOMAIN plan'.rows
  <2> SUFFICES ASSUME NEW l \in {n} \X targets PROVE {l[1], l[2]} \subseteq DOMAIN rows \cup {n}
    BY <1>3, <1>7, <1>9
  <2> QED
    BY <1>1
<1> QED
  BY <1>1, <1>7, <1>8, <1>9, <1>10, PlanFollows DEF PlanStands

\* A step that only changes rows, as RowsFollow has it.
LEMMA RowsKeepPlan ==
    ASSUME NEW p, PlanStands(p), NEW rows, RowsFollow(p.rows, rows), NEW q,
           q = [p EXCEPT !.rows = rows]
    PROVE  PlanStands(q)
<1>1. /\ IsPlan(q) /\ q.rows = rows /\ q.links = p.links /\ q.overlay = p.overlay
      /\ q.conflicts = p.conflicts /\ q.warnings = p.warnings
  BY SetRows DEF PlanStands
<1>2. /\ DOMAIN q.conflicts \subseteq DOMAIN q.rows /\ IsFiniteSet(DOMAIN q.warnings)
      /\ \A k \in DOMAIN q.warnings : IsWarning(q.warnings[k])
  BY <1>1 DEF PlanStands, RowsFollow
<1> QED
  BY <1>1, <1>2, PlanFollows

\* A replacement continues the lineage of what it replaces.
LEMMA SupersedeKeepsPlan ==
    ASSUME PlanStands(plan), NEW c \in Contents, NEW r \in DOMAIN plan.rows, SupersedeRow(r, c)
    PROVE  PlanStands(plan')
<1>1. PICK rows : rows = plan.rows
  OBVIOUS
<1>2. PICK no : no = FALSE
  OBVIOUS
<1>3. PICK y : y = [rows[r] EXCEPT !.live = no]
  OBVIOUS
<1>4. PICK between : between = [rows EXCEPT ![r] = y]
  OBVIOUS
<1>5. PICK x : x = Row(c, rows[r].root)
  OBVIOUS
<1>6. plan' = [plan EXCEPT !.rows = Append(between, x)]
  BY <1>1, <1>2, <1>3, <1>4, <1>5 DEF SupersedeRow
<1>7. RowsStand(rows) /\ r \in DOMAIN rows
  BY <1>1 DEF PlanStands
<1>8. IsRow(y) /\ y.root = rows[r].root /\ y.content = rows[r].content
  BY <1>3, <1>7, RowDies DEF RowsStand
<1>9. RowsFollow(rows, between)
  BY <1>4, <1>7, <1>8, RowChanges
<1>10. IsRow(x) /\ x.root = between[r].root /\ IsFiniteSet(Untouched(x.content))
  <2>1. IsRow(x) /\ x.root = rows[r].root /\ x.content = c.content
    BY <1>5, RowIsRow
  <2> QED
    BY <2>1, <1>7, <1>9, ContentsAreFinite DEF RowsFollow
<1>11. RowsFollow(between, Append(between, x))
  BY <1>7, <1>9, <1>10, RowIsAdded DEF RowsFollow
<1>12. RowsFollow(rows, Append(between, x))
  BY <1>9, <1>11, Follows
<1> QED
  BY <1>1, <1>6, <1>12, RowsKeepPlan

\* A retired row stays where it was.
LEMMA RetireKeepsPlan ==
    ASSUME PlanStands(plan), NEW r \in DOMAIN plan.rows, RetireRow(r)
    PROVE  PlanStands(plan')
<1>1. PICK rows, no : rows = plan.rows /\ no = FALSE
  OBVIOUS
<1>2. PICK y : y = [rows[r] EXCEPT !.live = no]
  OBVIOUS
<1>3. plan' = [plan EXCEPT !.rows = [rows EXCEPT ![r] = y]]
  BY <1>1, <1>2 DEF RetireRow
<1>4. RowsStand(rows) /\ r \in DOMAIN rows
  BY <1>1 DEF PlanStands
<1>5. IsRow(y) /\ y.root = rows[r].root /\ y.content = rows[r].content
  BY <1>2, <1>4, RowDies DEF RowsStand
<1>6. RowsFollow(rows, [rows EXCEPT ![r] = y])
  BY <1>4, <1>5, RowChanges
<1> QED
  BY <1>1, <1>3, <1>6, RowsKeepPlan

\* So does an assumption resolved.
LEMMA ResolutionKeepsPlan ==
    ASSUME PlanStands(plan), NEW r \in DOMAIN plan.rows, ResolveAssumption(r)
    PROVE  PlanStands(plan')
<1>1. PICK rows : rows = plan.rows
  OBVIOUS
<1>2. PICK y : y = [rows[r] EXCEPT !.kind = "decided"]
  OBVIOUS
<1>3. plan' = [plan EXCEPT !.rows = [rows EXCEPT ![r] = y]]
  BY <1>1, <1>2 DEF ResolveAssumption
<1>4. RowsStand(rows) /\ r \in DOMAIN rows
  BY <1>1 DEF PlanStands
<1>5. IsRow(y) /\ y.root = rows[r].root /\ y.content = rows[r].content
  BY <1>2, <1>4, RowDecided DEF RowsStand
<1>6. RowsFollow(rows, [rows EXCEPT ![r] = y])
  BY <1>4, <1>5, RowChanges
<1> QED
  BY <1>1, <1>3, <1>6, RowsKeepPlan

\* Rows that stand follow themselves.
LEMMA Stand ==
    ASSUME NEW rows, RowsStand(rows) PROVE RowsFollow(rows, rows)
BY DEF RowsFollow

\* An overlay of gaps, ...
LEMMA OverlayKeepsPlan ==
    ASSUME NEW p, PlanStands(p), NEW o, NEW q, q = [p EXCEPT !.overlay = o],
           \A g \in DOMAIN o : g \in DOMAIN p.overlay \/ IsGap(p.rows, g)
    PROVE  PlanStands(q)
<1>1. /\ IsPlan(q) /\ q.rows = p.rows /\ q.links = p.links /\ q.overlay = o
      /\ q.conflicts = p.conflicts /\ q.warnings = p.warnings
  BY SetOverlay DEF PlanStands
<1> QED
  BY <1>1, PlanFollows, Stand DEF PlanStands

\* ... conflicts over rows ...
LEMMA ConflictsKeepPlan ==
    ASSUME NEW p, PlanStands(p), NEW c, NEW q, q = [p EXCEPT !.conflicts = c],
           DOMAIN c \subseteq DOMAIN p.rows
    PROVE  PlanStands(q)
<1>1. /\ IsPlan(q) /\ q.rows = p.rows /\ q.links = p.links /\ q.overlay = p.overlay
      /\ q.conflicts = c /\ q.warnings = p.warnings
  BY SetConflicts DEF PlanStands
<1> QED
  BY <1>1, PlanFollows, Stand DEF PlanStands

\* ... or warnings are all a plan is asked to have of these.
LEMMA WarningsKeepPlan ==
    ASSUME NEW p, PlanStands(p), NEW w, NEW q, q = [p EXCEPT !.warnings = w],
           IsFiniteSet(DOMAIN w), \A k \in DOMAIN w : IsWarning(w[k])
    PROVE  PlanStands(q)
<1>1. /\ IsPlan(q) /\ q.rows = p.rows /\ q.links = p.links /\ q.overlay = p.overlay
      /\ q.conflicts = p.conflicts /\ q.warnings = w
  BY SetWarnings DEF PlanStands
<1> QED
  BY <1>1, PlanFollows, Stand DEF PlanStands

\* A gap set aside is one that was derived.
LEMMA DismissalKeepsPlan ==
    ASSUME PlanStands(plan), NEW rule \in Rules, NEW g \in Derived(plan, rule), DismissGap(g)
    PROVE  PlanStands(plan')
<1>1. PICK o : o = Put(plan.overlay, g, "dismissed")
  OBVIOUS
<1>2. plan' = [plan EXCEPT !.overlay = o]
  BY <1>1 DEF DismissGap
<1>3. DOMAIN o = DOMAIN plan.overlay \cup {g}
  BY <1>1 DEF Put
<1>4. IsGap(plan.rows, g)
  BY DerivedAreGaps DEF PlanStands
<1> QED
  BY <1>2, <1>3, <1>4, OverlayKeepsPlan

\* A gap is reopened where it was.
LEMMA ReopeningKeepsPlan ==
    ASSUME PlanStands(plan), NEW g, ReopenGap(g)
    PROVE  PlanStands(plan')
<1>1. PICK o : o = [plan.overlay EXCEPT ![g] = "open"]
  OBVIOUS
<1>2. plan' = [plan EXCEPT !.overlay = o]
  BY <1>1 DEF ReopenGap
<1>3. DOMAIN o = DOMAIN plan.overlay
  BY <1>1
<1> QED
  BY <1>2, <1>3, OverlayKeepsPlan

\* A conflict is over a row there is.
LEMMA ContestKeepsPlan ==
    ASSUME PlanStands(plan), NEW r \in DOMAIN plan.rows, RaiseConflict(r) \/ ResolveConflict(r)
    PROVE  PlanStands(plan')
<1>1. PICK a, b : a = Put(plan.conflicts, r, "open") /\ b = [plan.conflicts EXCEPT ![r] = "resolved"]
  OBVIOUS
<1>2. \/ plan' = [plan EXCEPT !.conflicts = a]
      \/ plan' = [plan EXCEPT !.conflicts = b]
  BY <1>1 DEF RaiseConflict, ResolveConflict
<1>3. DOMAIN a = DOMAIN plan.conflicts \cup {r} /\ DOMAIN b = DOMAIN plan.conflicts
  BY <1>1 DEF Put
<1> QED
  BY <1>2, <1>3, ConflictsKeepPlan DEF PlanStands

\* A warning moved, or raised.
LEMMA MovedKeepsPlan ==
    ASSUME PlanStands(plan), NEW k, NEW s \in {"active", "suppressed", "resolved"},
           plan' = Moved(k, s)
    PROVE  /\ PlanStands(plan') /\ plan'.rows = plan.rows /\ plan'.links = plan.links
           /\ plan'.conflicts = plan.conflicts /\ plan'.overlay = plan.overlay
           /\ DOMAIN plan'.warnings = DOMAIN plan.warnings
<1>1. PICK x : x = [plan.warnings[k] EXCEPT !.state = s]
  OBVIOUS
<1>2. PICK w : w = [plan.warnings EXCEPT ![k] = x]
  OBVIOUS
<1>3. plan' = [plan EXCEPT !.warnings = w]
  BY <1>1, <1>2 DEF Moved
<1>4. ASSUME NEW j \in DOMAIN w PROVE IsWarning(w[j])
  <2>1. j \in DOMAIN plan.warnings /\ IsWarning(plan.warnings[j])
    BY <1>2, <1>4 DEF PlanStands
  <2>2. CASE j = k
    <3>1. PICK t, n : plan.warnings[k] = [state |-> t, names |-> n]
      BY <2>1, <2>2 DEF IsWarning
    <3>2. x = [state |-> s, names |-> n]
      BY <1>1, <3>1
    <3>3. w[j] = x
      BY <1>2, <2>1, <2>2
    <3> QED
      BY <3>2, <3>3 DEF IsWarning
  <2>3. CASE j # k
    BY <1>2, <2>1, <2>3
  <2> QED
    BY <2>2, <2>3
<1>5. PlanStands(plan')
  <2>1. DOMAIN w = DOMAIN plan.warnings
    BY <1>2
  <2>2. IsFiniteSet(DOMAIN w)
    BY <2>1 DEF PlanStands
  <2> QED
    BY <1>3, <1>4, <2>2, WarningsKeepPlan
<1> QED
  BY <1>2, <1>3, <1>5, SetWarnings DEF PlanStands

\* A warning raised or reworded is a warning.
LEMMA RaisedKeepsPlan ==
    ASSUME PlanStands(plan), NEW c, NEW w, w = Raised(c),
           plan' = [plan EXCEPT !.warnings = w]
    PROVE  /\ PlanStands(plan') /\ plan'.rows = plan.rows /\ plan'.links = plan.links
           /\ plan'.conflicts = plan.conflicts /\ plan'.overlay = plan.overlay
           /\ DOMAIN plan'.warnings = DOMAIN plan.warnings \cup {c[1]}
<1>1. PICK x : x = [state |-> "active", names |-> c[2]]
  OBVIOUS
<1>2. w = Put(plan.warnings, c[1], x)
  BY <1>1 DEF Raised
<1>4. /\ DOMAIN w = DOMAIN plan.warnings \cup {c[1]}
      /\ \A j \in DOMAIN w : w[j] = IF j = c[1] THEN x ELSE plan.warnings[j]
  BY <1>2 DEF Put
<1>5. IsWarning(x)
  BY <1>1 DEF IsWarning
<1>6. \A j \in DOMAIN w : IsWarning(w[j])
  BY <1>4, <1>5 DEF PlanStands
<1>7. PlanStands(plan')
  <2>1. IsFiniteSet({c[1]}) /\ IsFiniteSet(DOMAIN plan.warnings)
    BY FS_Singleton DEF PlanStands
  <2>2. IsFiniteSet(DOMAIN plan.warnings \cup {c[1]})
    BY <2>1, FS_Union
  <2>3. IsFiniteSet(DOMAIN w)
    BY <1>4, <2>2
  <2> QED
    BY <1>6, <2>3, WarningsKeepPlan
<1> QED
  BY <1>4, <1>7, SetWarnings DEF PlanStands

\* A draft to start from stands.
LEMMA StartsStand ==
    ASSUME NEW p \in Starts PROVE PlanStands(p)
<1>1. IsPlan(p)
  BY StartsAreDrafts DEF IsPlan
<1>2. IsList(p.rows)
  BY StartsAreDrafts DEF IsList
<1>3. ASSUME NEW r \in DOMAIN p.rows PROVE IsRow(p.rows[r])
  <2>1. PICK x, y : x = p.rows[r] /\ y = Row(x, x.root)
    OBVIOUS
  <2>2. x = [y EXCEPT !.live = x.live]
    BY <2>1, StartsAreDrafts
  <2>3. IsRow(y)
    BY <2>1, RowIsRow
  <2> QED
    BY <2>1, <2>2, <2>3, RowDies
<1>4. RowsStand(p.rows)
  BY <1>2, <1>3, StartsAreDrafts DEF RowsStand
<1> QED
  BY <1>1, <1>4, StartsAreDrafts, FS_EmptySet DEF PlanStands

---------------------------------------------------------------------------
(* What there is to warn of is finitely much: it can be put in order.      *)

\* What finitely many things are mapped to are finitely many.
LEMMA ImageIsFinite ==
    ASSUME NEW S, IsFiniteSet(S), NEW f, S \subseteq DOMAIN f
    PROVE  IsFiniteSet({f[x] : x \in S})
<1> DEFINE T == {f[x] : x \in S}
           g == [x \in S |-> f[x]]
<1>1. g \in [S -> T] /\ \A t \in T : \E x \in S : g[x] = t
  OBVIOUS
<1>2. g \in Surjection(S, T)
  BY <1>1 DEF Surjection
<1> QED
  BY <1>2, FS_Surjection

\* Rows are finitely many.
LEMMA RowsAreFinite ==
    ASSUME NEW p, RowsStand(p.rows)
    PROVE  /\ IsFiniteSet(DOMAIN p.rows) /\ IsFiniteSet(LiveRows(p))
           /\ IsFiniteSet(OpenAssumptions(p))
<1>1. PICK n \in Nat : DOMAIN p.rows = 1..n
  BY ListShape DEF RowsStand
<1> 1 \in Int /\ n \in Int
  OBVIOUS
<1>2. IsFiniteSet(DOMAIN p.rows)
  BY <1>1, FS_Interval
<1>3. LiveRows(p) \subseteq DOMAIN p.rows /\ OpenAssumptions(p) \subseteq DOMAIN p.rows
  BY DEF LiveRows, OpenAssumptions
<1> QED
  BY <1>2, <1>3, FS_Subset

\* A rule finds finitely many gaps ...
LEMMA DerivedAreFinite ==
    ASSUME NEW p, RowsStand(p.rows), DOMAIN words = Words, NEW rule \in Rules
    PROVE  IsFiniteSet(Derived(p, rule))
<1>1. LiveRows(p) \subseteq DOMAIN p.rows
  BY DEF LiveRows
<1>2. /\ \A t : Live(p, t) \subseteq DOMAIN p.rows
      /\ Asked(p, rule) \subseteq DOMAIN p.rows
      /\ OpenAssumptions(p) \subseteq DOMAIN p.rows
  BY <1>1 DEF Live, Asked, OpenAssumptions
<1>3. IsFiniteSet(DOMAIN p.rows)
  BY RowsAreFinite
<1>4. \A x : IsFiniteSet({x})
  BY FS_Singleton
<1>5. IsFiniteSet({})
  BY FS_EmptySet
<1>6. CASE rule.type = "empty_table"
  <2>1. Derived(p, rule) = IF Live(p, rule.table) = {} THEN {GapKey(p, rule, 0, {})} ELSE {}
    BY <1>6, Zenon DEF Derived
  <2> QED
    BY <2>1, <1>4, <1>5
<1>7. CASE rule.type = "missing_field"
  <2>1. Derived(p, rule) = Lacking(p, rule)
    BY <1>7 DEF Derived
  <2> DEFINE S == {q \in Asked(p, rule) : ~(rule.fields \subseteq Filled(p, q))}
  <2>2. PICK f : f = [r \in DOMAIN p.rows |-> GapKey(p, rule, r, rule.fields \ Filled(p, r))]
    OBVIOUS
  <2>3. DOMAIN f = DOMAIN p.rows
    BY <2>2
  <2>4. IsFiniteSet(S) /\ S \subseteq DOMAIN f
    BY <1>2, <1>3, <2>3, FS_Subset
  <2>5. Lacking(p, rule) = {f[r] : r \in S}
    BY <1>2, <2>2 DEF Lacking
  <2> HIDE DEF S
  <2> QED
    BY <2>1, <2>4, <2>5, ImageIsFinite
<1>8. CASE rule.type = "untraced"
  <2>1. Derived(p, rule) = Untraced(p, rule)
    BY <1>8 DEF Derived
  <2> DEFINE S == Asked(p, rule) \ Linked(p, {rule.toTable}, rule.direction)
  <2>2. PICK f : f = [r \in DOMAIN p.rows |-> GapKey(p, rule, r, {})]
    OBVIOUS
  <2>3. DOMAIN f = DOMAIN p.rows
    BY <2>2
  <2>4. IsFiniteSet(S) /\ S \subseteq DOMAIN f
    BY <1>2, <1>3, <2>3, FS_Subset
  <2>5. Untraced(p, rule) = {f[r] : r \in S}
    BY <1>2, <2>2 DEF Untraced
  <2> HIDE DEF S
  <2> QED
    BY <2>1, <2>4, <2>5, ImageIsFinite
<1>9. CASE rule.type = "open_assumption"
  <2>1. Derived(p, rule) = OpenAssumption(p, rule)
    BY <1>9 DEF Derived
  <2> DEFINE S == {q \in OpenAssumptions(p) : p.rows[q].kind = rule.kind}
  <2>2. PICK f : f = [r \in DOMAIN p.rows |-> GapKey(p, rule, r, {})]
    OBVIOUS
  <2>3. DOMAIN f = DOMAIN p.rows
    BY <2>2
  <2>4. IsFiniteSet(S) /\ S \subseteq DOMAIN f
    BY <1>2, <1>3, <2>3, FS_Subset
  <2>5. OpenAssumption(p, rule) = {f[r] : r \in S}
    BY <1>2, <2>2 DEF OpenAssumption
  <2> HIDE DEF S
  <2> QED
    BY <2>1, <2>4, <2>5, ImageIsFinite
<1>10. CASE rule.type = "uncited_section"
  <2>1. Derived(p, rule) = UncitedSection(p, rule)
    BY <1>10 DEF Derived
  <2> DEFINE S == {q \in Live(p, rule.table) : "untouched" \in Filled(p, q)}
             H(r) == p.rows[r].content.untouched \ rule.ignore
  <2>2. PICK F : F = [r \in DOMAIN p.rows |-> {GapKey(p, rule, r, {h}) : h \in H(r)}]
    OBVIOUS
  <2>3. DOMAIN F = DOMAIN p.rows
    BY <2>2
  <2>4. IsFiniteSet(S) /\ S \subseteq DOMAIN F
    BY <1>2, <1>3, <2>3, FS_Subset
  <2>5. ASSUME NEW r \in S PROVE IsFiniteSet(F[r])
    <3>1. r \in DOMAIN p.rows /\ "untouched" \in DOMAIN p.rows[r].content
      BY <2>3, <2>4 DEF Filled
    <3>2. IsFiniteSet(p.rows[r].content.untouched)
      BY <3>1 DEF RowsStand, Untouched
    <3>3. IsFiniteSet(H(r))
      BY <3>2, FS_Subset
    <3>4. PICK f : f = [h \in H(r) |-> GapKey(p, rule, r, {h})]
      OBVIOUS
    <3>5. DOMAIN f = H(r)
      BY <3>4
    <3>6. F[r] = {f[h] : h \in H(r)}
      BY <2>2, <3>1, <3>4
    <3> HIDE DEF H
    <3> QED
      BY <3>3, <3>5, <3>6, ImageIsFinite
  <2>6. IsFiniteSet({F[r] : r \in S})
    <3> HIDE DEF S
    <3> QED
      BY <2>4, ImageIsFinite
  <2>7. UncitedSection(p, rule) = UNION {F[r] : r \in S}
    <3>1. \A r \in S : F[r] = {GapKey(p, rule, r, {h}) : h \in H(r)}
      BY <2>2, <2>3, <2>4
    <3> DEFINE G(r) == {GapKey(p, rule, r, {h}) : h \in H(r)}
    <3>2. UncitedSection(p, rule) = UNION {G(r) : r \in S}
      BY Zenon DEF UncitedSection
    <3>3. \A r \in S : F[r] = G(r)
      BY <3>1
    <3> HIDE DEF S, G
    <3> QED
      BY ONLY <3>2, <3>3
  <2>8. \A T \in {F[r] : r \in S} : IsFiniteSet(T)
    BY <2>5
  <2> HIDE DEF S
  <2> QED
    BY <2>1, <2>6, <2>7, <2>8, FS_UNION
<1>11. CASE rule.type = "no_glossary"
  <2>1. Derived(p, rule) = IF Defined = {} /\ LiveRows(p) # {} THEN {GapKey(p, rule, 0, {})} ELSE {}
    BY <1>11 DEF Derived
  <2> QED
    BY <2>1, <1>4, <1>5
<1>12. CASE rule.type = "unsettled_term"
  <2>1. Derived(p, rule) = {GapKey(p, rule, 0, {w}) : w \in Awaiting}
    BY <1>12 DEF Derived
  <2>2. PICK f : f = [w \in Words |-> GapKey(p, rule, 0, {w})]
    OBVIOUS
  <2>3. DOMAIN f = Words /\ Awaiting \subseteq Words
    BY <2>2 DEF Awaiting, Defined
  <2>4. IsFiniteSet(Awaiting)
    BY <2>3, ContentsAreFinite, FS_Subset
  <2>5. Derived(p, rule) = {f[w] : w \in Awaiting}
    BY <2>1, <2>2, <2>3
  <2> QED
    BY <2>3, <2>4, <2>5, ImageIsFinite
<1> QED
  BY <1>6, <1>7, <1>8, <1>9, <1>10, <1>11, <1>12, RulesAreKnown

\* ... and there are finitely many rules, rows and words to warn of.
LEMMA ConditionsAreFinite ==
    ASSUME NEW p, RowsStand(p.rows), DOMAIN words = Words, NEW packages
    PROVE  IsFiniteSet(Conditions(p, packages))
<1> DEFINE root(r) == p.rows[r].root
           gaps == {h \in OpenGaps(p, packages) : h[1] \notin AssumptionRules}
           A == {<<<<"gap", g>>, 0>> : g \in gaps}
           B == {<<<<"assumption", root(r)>>, r>> : r \in OpenAssumptions(p)}
           C == {<<<<"term", root(u[1]), u[2]>>, u[1]>> : u \in RetiredUses(p)}
<1>1. Conditions(p, packages) = A \cup B \cup C
  BY Zenon DEF Conditions
<1>2. IsFiniteSet(gaps)
  <2> DEFINE S == {q \in Rules : q.package \in packages \cup {0}}
  <2>1. PICK F : F = [rule \in Rules |-> Derived(p, rule)]
    OBVIOUS
  <2>2. DOMAIN F = Rules /\ \A rule \in Rules : IsFiniteSet(F[rule])
    BY <2>1, DerivedAreFinite
  <2>3. IsFiniteSet(S) /\ S \subseteq DOMAIN F
    BY <2>2, RulesAreKnown, FS_Subset
  <2>4. gaps \subseteq UNION {F[rule] : rule \in S}
    BY <2>1 DEF OpenGaps
  <2> HIDE DEF S
  <2>5. IsFiniteSet({F[rule] : rule \in S})
    BY <2>3, ImageIsFinite
  <2>6. IsFiniteSet(UNION {F[rule] : rule \in S})
    BY <2>2, <2>3, <2>5, FS_UNION
  <2> QED
    BY <2>4, <2>6, FS_Subset
<1>3. IsFiniteSet(A)
  <2>1. PICK f : f = [g \in gaps |-> <<<<"gap", g>>, 0>>]
    OBVIOUS
  <2>2. DOMAIN f = gaps /\ A = {f[g] : g \in gaps}
    BY <2>1
  <2> HIDE DEF gaps, A
  <2> QED
    BY <1>2, <2>2, ImageIsFinite
<1>4. IsFiniteSet(B)
  <2>1. PICK f : f = [r \in OpenAssumptions(p) |-> <<<<"assumption", root(r)>>, r>>]
    OBVIOUS
  <2>2. DOMAIN f = OpenAssumptions(p) /\ B = {f[r] : r \in OpenAssumptions(p)}
    BY <2>1
  <2> HIDE DEF B
  <2> QED
    BY RowsAreFinite, <2>2, ImageIsFinite
<1>5. IsFiniteSet(C)
  <2>1. IsFiniteSet(Retired)
    <3>1. Retired \subseteq Words
      BY DEF Retired, Defined
    <3> QED
      BY <3>1, ContentsAreFinite, FS_Subset
  <2>2. IsFiniteSet(LiveRows(p) \X Retired)
    BY <2>1, RowsAreFinite, FS_Product
  <2>3. IsFiniteSet(RetiredUses(p))
    BY <2>2, FS_Subset DEF RetiredUses
  <2>4. PICK f : f = [u \in RetiredUses(p) |-> <<<<"term", root(u[1]), u[2]>>, u[1]>>]
    OBVIOUS
  <2>5. DOMAIN f = RetiredUses(p) /\ C = {f[u] : u \in RetiredUses(p)}
    BY <2>4
  <2> HIDE DEF C
  <2> QED
    BY <2>3, <2>5, ImageIsFinite
<1> HIDE DEF A, B, C
<1>6. IsFiniteSet(A \cup B)
  BY <1>3, <1>4, FS_Union
<1> QED
  BY <1>1, <1>5, <1>6, FS_Union

---------------------------------------------------------------------------
(* A run moves warnings, which no criterion and no condition reads.        *)

Unjudged == /\ plan'.rows = plan.rows /\ plan'.links = plan.links
             /\ plan'.conflicts = plan.conflicts
             /\ UNCHANGED <<findings, tried>>

\* What the rows, links, conflicts, findings and spikes decide stays as it is: which
\* rows are live, ...
LEMMA LiveStays ==
    ASSUME Unjudged
    PROVE  /\ LiveRows(plan)' = LiveRows(plan)
           /\ OpenConflicts(plan)' = OpenConflicts(plan)
           /\ OpenAssumptions(plan)' = OpenAssumptions(plan)
           /\ \A t : Live(plan, t)' = Live(plan, t)
           /\ \A r : Filled(plan, r)' = Filled(plan, r)
<1>1. LiveRows(plan)' = LiveRows(plan)
  BY DEF Unjudged, LiveRows
<1>2. OpenConflicts(plan)' = OpenConflicts(plan)
  BY DEF Unjudged, OpenConflicts
<1>3. \A t : Live(plan, t)' = Live(plan, t)
  BY <1>1 DEF Unjudged, Live
<1>4. \A r : Filled(plan, r)' = Filled(plan, r)
  BY DEF Unjudged, Filled
<1>5. OpenAssumptions(plan)' = OpenAssumptions(plan)
  BY <1>1 DEF Unjudged, OpenAssumptions
<1> QED
  BY <1>1, <1>2, <1>3, <1>4, <1>5

\* ... which a criterion asks about, ...
LEMMA AskedStays ==
    ASSUME Unjudged, NEW c
    PROVE  Asked(plan, c)' = Asked(plan, c)
BY LiveStays DEF Asked

\* ... which are linked ...
LEMMA LinkedStays ==
    ASSUME Unjudged, NEW t, NEW d
    PROVE  Linked(plan, t, d)' = Linked(plan, t, d)
BY DEF Linked, Unjudged

\* ... and which are whose children.
LEMMA ChildrenStay ==
    ASSUME Unjudged, NEW r, NEW t
    PROVE  Children(plan, r, t)' = Children(plan, r, t)
BY LiveStays DEF Children, Unjudged

\* A criterion finds the same holes, ...
LEMMA OwnHolesStay ==
    ASSUME Unjudged, NEW c
    PROVE  OwnHoles(plan, c)' = OwnHoles(plan, c)
<1>1. NonEmpty(plan, c)' = NonEmpty(plan, c)
  BY LiveStays DEF NonEmpty
<1>2. RequiredFields(plan, c)' = RequiredFields(plan, c)
  BY LiveStays, AskedStays DEF RequiredFields
<1>3. ConditionalFields(plan, c)' = ConditionalFields(plan, c)
  BY LiveStays DEF ConditionalFields, Unjudged
<1>4. Traced(plan, c)' = Traced(plan, c)
  BY AskedStays, LinkedStays DEF Traced, Unjudged
<1>5. CoversAll(plan, c)' = CoversAll(plan, c)
  BY LiveStays, ChildrenStay DEF CoversAll, Unjudged
<1>6. MatrixComplete(plan, c)' = MatrixComplete(plan, c)
  BY LiveStays, ChildrenStay DEF MatrixComplete, Unjudged
<1>7. UnbackedAssumption(plan, c)' = UnbackedAssumption(plan, c)
  BY LiveStays DEF UnbackedAssumption, Unjudged
<1>8. FindingsExist(c)' = FindingsExist(c) /\ FindingsResolved(c)' = FindingsResolved(c)
  BY DEF FindingsExist, FindingsResolved, Unjudged, IsOpen
<1> QED
  BY <1>1, <1>2, <1>3, <1>4, <1>5, <1>6, <1>7, <1>8, LiveStays, Zenon DEF OwnHoles

\* ... those of a criterion that folds in others included, ...
LEMMA HolesStay ==
    ASSUME Unjudged, NEW c
    PROVE  Holes(plan, c)' = Holes(plan, c)
BY OwnHolesStay DEF Holes, PriorGatesGreen

\* ... its lock holds back the same findings ...
LEMMA LockStays ==
    ASSUME Unjudged, NEW n
    PROVE  ResolveByLock(n)' = ResolveByLock(n)
BY DEF ResolveByLock, OpenAllocatedTo, IsOpen, Unjudged

\* ... and a verdict that was right remains so.
LEMMA GreenStays ==
    ASSUME Unjudged, NEW n
    PROVE  Green(plan, n)' <=> Green(plan, n)
BY HolesStay, LockStays DEF Green

\* Moving warnings changes no condition of theirs.
Unwarned == /\ plan'.rows = plan.rows /\ plan'.links = plan.links
            /\ plan'.overlay = plan.overlay /\ UNCHANGED words

\* Nor the gaps.
LEMMA DerivedStay ==
    ASSUME Unwarned, NEW rule
    PROVE  Derived(plan, rule)' = Derived(plan, rule)
<1>1. LiveRows(plan)' = LiveRows(plan)
  BY DEF Unwarned, LiveRows
<1>2. \A t : Live(plan, t)' = Live(plan, t)
  BY <1>1 DEF Unwarned, Live
<1>3. \A r : Filled(plan, r)' = Filled(plan, r)
  BY DEF Unwarned, Filled
<1>4. OpenAssumptions(plan)' = OpenAssumptions(plan)
  BY <1>1 DEF Unwarned, OpenAssumptions
<1>5. Asked(plan, rule)' = Asked(plan, rule)
  BY <1>2, <1>3 DEF Asked
<1>6. \A r, x : GapKey(plan, rule, r, x)' = GapKey(plan, rule, r, x)
  BY DEF GapKey, Unwarned
<1>7. Lacking(plan, rule)' = Lacking(plan, rule)
  BY <1>3, <1>5, <1>6 DEF Lacking
<1>8. \A t, d : Linked(plan, t, d)' = Linked(plan, t, d)
  BY DEF Linked, Unwarned
<1>9. Untraced(plan, rule)' = Untraced(plan, rule)
  BY <1>5, <1>6, <1>8 DEF Untraced
<1>10. OpenAssumption(plan, rule)' = OpenAssumption(plan, rule)
  BY <1>4, <1>6 DEF OpenAssumption, Unwarned
<1>11. UncitedSection(plan, rule)' = UncitedSection(plan, rule)
  <2> DEFINE S == {q \in Live(plan, rule.table) : "untouched" \in Filled(plan, q)}
             H(r) == {GapKey(plan, rule, r, {h}) :
                         h \in plan.rows[r].content.untouched \ rule.ignore}
  <2>1. S' = S
    BY <1>2, <1>3
  <2>2. \A r : H(r)' = H(r)
    BY <1>6 DEF Unwarned
  <2>3. UncitedSection(plan, rule) = UNION {H(r) : r \in S}
    BY DEF UncitedSection
  <2>4. UncitedSection(plan, rule)' = UNION {H(r)' : r \in S'}
    BY DEF UncitedSection
  <2> HIDE DEF S, H
  <2> QED
    BY <2>1, <2>2, <2>3, <2>4
<1>12. Defined' = Defined /\ Awaiting' = Awaiting
  BY DEF Defined, Awaiting, Unwarned
<1> QED
  BY <1>1, <1>2, <1>6, <1>7, <1>9, <1>10, <1>11, <1>12, Zenon DEF Derived

\* Nor do the conditions change.
LEMMA ConditionsStay ==
    ASSUME Unwarned, NEW packages
    PROVE  Conditions(plan, packages)' = Conditions(plan, packages)
<1>1. OpenGaps(plan, packages)' = OpenGaps(plan, packages)
  BY DerivedStay DEF OpenGaps, Dismissed, Unwarned
<1>2. LiveRows(plan)' = LiveRows(plan)
  BY DEF Unwarned, LiveRows
<1>3. OpenAssumptions(plan)' = OpenAssumptions(plan)
  BY <1>2 DEF Unwarned, OpenAssumptions
<1>4. RetiredUses(plan)' = RetiredUses(plan)
  BY <1>2 DEF RetiredUses, Retired, Defined, Unwarned
<1> DEFINE A == {<<<<"gap", g>>, 0>> :
                    g \in {h \in OpenGaps(plan, packages) : h[1] \notin AssumptionRules}}
           B == {<<<<"assumption", plan.rows[r].root>>, r>> : r \in OpenAssumptions(plan)}
           C == {<<<<"term", plan.rows[u[1]].root, u[2]>>, u[1]>> : u \in RetiredUses(plan)}
<1>5. Conditions(plan, packages) = A \cup B \cup C
  BY Zenon DEF Conditions
<1>6. Conditions(plan, packages)' = A' \cup B' \cup C'
  BY Zenon DEF Conditions
<1>7. A' = A
  BY <1>1
<1>8. B' = B
  BY <1>3 DEF Unwarned
<1>9. C' = C
  BY <1>4 DEF Unwarned
<1> HIDE DEF A, B, C
<1> QED
  BY <1>5, <1>6, <1>7, <1>8, <1>9

\* A run under way: what it still has to do, a verdict that stands, and conditions each in
\* the ledger or still to be raised.
IsRun(c) ==
    \E s, n, p, t : c = [step |-> s, package |-> n, passed |-> p, todo |-> t]

Listed(c) == c[1] \in DOMAIN plan.warnings \/ (call.step = "raise" /\ c \in Range(call.todo))

RunStands ==
    /\ IsRun(call) /\ call.step \in {"raise", "settle"}
    /\ IsList(call.todo)
    /\ call.passed => Green(plan, call.package)
    /\ \A c \in Conditions(plan, {call.package}) : Listed(c)

CallInv == call # NoCall => RunStands

\* What is on a list is its head or further down.
LEMMA TailOfRange ==
    ASSUME NEW s, IsList(s), s # <<>>
    PROVE  IsList(Tail(s)) /\ \A x : x \in Range(s) <=> x = Head(s) \/ x \in Range(Tail(s))
<1>1. /\ Range(s) = {s[i] : i \in DOMAIN s}
      /\ Range(Tail(s)) = {Tail(s)[i] : i \in DOMAIN Tail(s)}
  BY Zenon DEF Range
<1> QED
  BY <1>1, ListTail

\* A run goes on to what is next.
LEMMA RunNext ==
    ASSUME IsRun(call), IsList(call.todo), call.todo # <<>>, OnWithIt
    PROVE  /\ IsRun(call') /\ IsList(call'.todo) /\ call'.step = call.step
           /\ call'.package = call.package /\ call'.passed = call.passed
           /\ \A x : x \in Range(call.todo) <=> x = Head(call.todo) \/ x \in Range(call'.todo)
<1>1. PICK s, n, p, t : call = [step |-> s, package |-> n, passed |-> p, todo |-> t]
  BY DEF IsRun
<1>2. PICK u : u = Tail(t)
  OBVIOUS
<1>3. call' = [call EXCEPT !.todo = u]
  BY <1>1, <1>2 DEF OnWithIt
<1>4. call' = [step |-> s, package |-> n, passed |-> p, todo |-> u]
  BY <1>1, <1>3
<1>5. IsRun(call')
  BY <1>4 DEF IsRun
<1>6. call.todo = t /\ call'.todo = u
  BY <1>1, <1>4
<1>7. IsList(u) /\ \A x : x \in Range(t) <=> x = Head(t) \/ x \in Range(u)
  BY <1>2, <1>6, TailOfRange
<1> QED
  BY <1>1, <1>4, <1>5, <1>6, <1>7

\* A run begins with its verdict and all its conditions to be raised, ...
LEMMA RunBegins ==
    ASSUME PlanStands(plan), DOMAIN words = Words, NEW n \in Packages, RunGate(n)
    PROVE  CallInv'
<1>1. PICK b : b = Green(plan, n)
  OBVIOUS
<1>2. PICK t : t = SetToSeq(Conditions(plan, {n}))
  OBVIOUS
<1>3. call' = [step |-> "raise", package |-> n, passed |-> b, todo |-> t]
  BY <1>1, <1>2 DEF RunGate
<1>4. IsList(t) /\ Range(t) = Conditions(plan, {n})
  <2>1. IsFiniteSet(Conditions(plan, {n}))
    BY ConditionsAreFinite DEF PlanStands
  <2> QED
    BY <1>2, <2>1, ListOfSet
<1>5. IsRun(call')
  BY <1>3 DEF IsRun
<1>6. /\ call'.step = "raise" /\ call'.package = n /\ call'.passed = b /\ call'.todo = t
  BY <1>3
<1>7. Unjudged /\ Unwarned
  BY DEF RunGate, Unjudged, Unwarned, ledgers
<1>8. Green(plan, n)' <=> Green(plan, n)
  BY <1>7, GreenStays
<1>9. (call.passed => Green(plan, call.package))'
  <2>1. (call.passed)' => b
    BY <1>6
  <2>2. (call.package)' = n
    BY <1>6
  <2>3. b => Green(plan, n)'
    BY <1>1, <1>8, Zenon
  <2> QED
    BY <2>1, <2>2, <2>3, Zenon
<1>10. Conditions(plan, {n})' = Conditions(plan, {n})
  BY <1>7, ConditionsStay
<1>11. \A c \in Conditions(plan, {call.package})' : Listed(c)'
  BY <1>4, <1>6, <1>10 DEF Listed
<1> QED
  BY <1>4, <1>5, <1>6, <1>9, <1>11 DEF CallInv, RunStands

\* ... raises them one by one, which moves only warnings, ...
LEMMA RunRaises ==
    ASSUME PlanStands(plan), CallInv, RaiseNext
    PROVE  CallInv' /\ PlanStands(plan')
<1> DEFINE h == Head(call.todo)
<1>1. call # NoCall /\ RunStands
  BY DEF RaiseNext, NoCall, CallInv
<1>2. /\ IsRun(call') /\ IsList(call'.todo) /\ call'.step = call.step
      /\ call'.package = call.package /\ call'.passed = call.passed
      /\ \A x : x \in Range(call.todo) <=> x = h \/ x \in Range(call'.todo)
  BY <1>1, RunNext DEF RaiseNext, RunStands
<1>3. /\ PlanStands(plan') /\ plan'.rows = plan.rows /\ plan'.links = plan.links
      /\ plan'.conflicts = plan.conflicts /\ plan'.overlay = plan.overlay
      /\ DOMAIN plan'.warnings = DOMAIN plan.warnings \cup {h[1]}
  <2>1. \/ plan' = [plan EXCEPT !.warnings = Raised(h)]
        \/ h[1] \in DOMAIN plan.warnings /\ UNCHANGED plan
    BY DEF RaiseNext
  <2>2. CASE plan' = [plan EXCEPT !.warnings = Raised(h)]
    <3>1. PICK w : w = Raised(h)
      OBVIOUS
    <3>2. plan' = [plan EXCEPT !.warnings = w]
      BY <2>2, <3>1
    <3> HIDE DEF h
    <3> QED
      BY <3>1, <3>2, RaisedKeepsPlan
  <2>3. CASE h[1] \in DOMAIN plan.warnings /\ UNCHANGED plan
    BY <2>3
  <2> QED
    BY <2>1, <2>2, <2>3
<1>4. Unjudged /\ Unwarned
  BY <1>3 DEF RaiseNext, Unjudged, Unwarned, ledgers
<1>5. (call.passed => Green(plan, call.package))'
  <2>1. PICK n : n = call.package
    OBVIOUS
  <2>2. Green(plan, n)' <=> Green(plan, n)
    BY <1>4, GreenStays
  <2>3. call.passed => Green(plan, n)
    BY <1>1, <2>1 DEF RunStands
  <2>4. (call.package)' = n /\ (call.passed)' = call.passed
    BY <1>2, <2>1
  <2> QED
    BY <2>2, <2>3, <2>4, Zenon
<1>6. \A c \in Conditions(plan, {call.package})' : Listed(c)'
  <2>1. PICK n : n = call.package
    OBVIOUS
  <2>2. Conditions(plan, {n})' = Conditions(plan, {n})
    BY <1>4, ConditionsStay
  <2>3. SUFFICES ASSUME NEW c \in Conditions(plan, {n}) PROVE Listed(c)'
    BY <1>2, <2>1, <2>2
  <2>4. Listed(c)
    BY <1>1, <2>1 DEF RunStands
  <2> QED
    BY <1>2, <1>3, <2>4 DEF Listed, RaiseNext
<1> QED
  BY <1>1, <1>2, <1>3, <1>5, <1>6 DEF CallInv, RunStands

\* ... and takes none off the list by settling it.
LEMMA RunSettles ==
    ASSUME PlanStands(plan), CallInv, SettleNext
    PROVE  CallInv' /\ PlanStands(plan')
<1>1. call # NoCall /\ RunStands
  BY DEF SettleNext, NoCall, CallInv
<1>2. /\ IsRun(call') /\ IsList(call'.todo) /\ call'.step = call.step
      /\ call'.package = call.package /\ call'.passed = call.passed
  BY <1>1, RunNext DEF SettleNext, RunStands
<1>3. /\ PlanStands(plan') /\ plan'.rows = plan.rows /\ plan'.links = plan.links
      /\ plan'.conflicts = plan.conflicts /\ plan'.overlay = plan.overlay
      /\ DOMAIN plan'.warnings = DOMAIN plan.warnings
  <2>1. plan' = Moved(Head(call.todo), "resolved") \/ UNCHANGED plan
    BY DEF SettleNext
  <2> QED
    BY <2>1, MovedKeepsPlan
<1>4. Unjudged /\ Unwarned
  BY <1>3 DEF SettleNext, Unjudged, Unwarned, ledgers
<1>5. (call.passed => Green(plan, call.package))'
  <2>1. PICK n : n = call.package
    OBVIOUS
  <2>2. Green(plan, n)' <=> Green(plan, n)
    BY <1>4, GreenStays
  <2>3. call.passed => Green(plan, n)
    BY <1>1, <2>1 DEF RunStands
  <2>4. (call.package)' = n /\ (call.passed)' = call.passed
    BY <1>2, <2>1
  <2> QED
    BY <2>2, <2>3, <2>4, Zenon
<1>6. \A c \in Conditions(plan, {call.package})' : Listed(c)'
  <2>1. PICK n : n = call.package
    OBVIOUS
  <2>2. Conditions(plan, {n})' = Conditions(plan, {n})
    BY <1>4, ConditionsStay
  <2>3. SUFFICES ASSUME NEW c \in Conditions(plan, {n}) PROVE Listed(c)'
    BY <1>2, <2>1, <2>2
  <2>4. Listed(c) /\ call.step = "settle"
    BY <1>1, <2>1 DEF RunStands, SettleNext
  <2> QED
    BY <1>2, <1>3, <2>4 DEF Listed
<1> QED
  BY <1>1, <1>2, <1>3, <1>5, <1>6 DEF CallInv, RunStands

\* ... has listed them all when it turns to those that were outlived, ...
LEMMA RunTurns ==
    ASSUME PlanStands(plan), CallInv, StartSettling
    PROVE  CallInv'
<1>1. call # NoCall /\ RunStands
  BY DEF StartSettling, NoCall, CallInv
<1>2. PICK s, n, p, t : call = [step |-> s, package |-> n, passed |-> p, todo |-> t]
  BY <1>1 DEF RunStands, IsRun
<1>3. PICK u : u = SetToSeq(Outlived)
  OBVIOUS
<1>4. PICK c1 : c1 = [call EXCEPT !.step = "settle"]
  OBVIOUS
<1>5. call' = [c1 EXCEPT !.todo = u]
  BY <1>3, <1>4 DEF StartSettling
<1>6. c1 = [step |-> "settle", package |-> n, passed |-> p, todo |-> t]
  BY <1>2, <1>4
<1>7. call' = [step |-> "settle", package |-> n, passed |-> p, todo |-> u]
  BY <1>5, <1>6
<1>8. IsRun(call')
  BY <1>7 DEF IsRun
<1>9. call'.step = "settle" /\ call'.package = n /\ call'.passed = p /\ call'.todo = u
  BY <1>7
<1>10. call.package = n /\ call.passed = p /\ call.todo = <<>>
  BY <1>2 DEF StartSettling
<1>11. Unjudged /\ Unwarned /\ UNCHANGED plan
  BY DEF StartSettling, Unjudged, Unwarned, ledgers
<1>12. (call.passed => Green(plan, call.package))'
  <2>1. Green(plan, n)' <=> Green(plan, n)
    BY <1>11, GreenStays
  <2>2. call.passed => Green(plan, call.package)
    BY <1>1 DEF RunStands
  <2>3. (call.package)' = n /\ (call.passed)' = p
    BY <1>9
  <2> QED
    BY <1>10, <2>1, <2>2, <2>3, Zenon
<1>13. \A c \in Conditions(plan, {call.package})' : Listed(c)'
  <2>1. Conditions(plan, {n})' = Conditions(plan, {n})
    BY <1>11, ConditionsStay
  <2>2. SUFFICES ASSUME NEW c \in Conditions(plan, {n}) PROVE Listed(c)'
    BY <1>9, <2>1
  <2>3. Listed(c)
    BY <1>1, <1>10 DEF RunStands
  <2>4. c \notin Range(call.todo)
    BY <1>10 DEF Range
  <2> QED
    BY <1>11, <2>3, <2>4 DEF Listed
<1>14. IsList(u)
  <2>1. IsFiniteSet(Outlived)
    BY FS_Subset DEF PlanStands, Outlived
  <2> QED
    BY <1>3, <2>1, ListOfSet
<1> QED
  BY <1>8, <1>9, <1>12, <1>13, <1>14 DEF CallInv, RunStands

---------------------------------------------------------------------------
(* The invariant.                                                          *)

PlansInv ==
    /\ PlanStands(plan)
    /\ IsList(snaps) /\ \A i \in DOMAIN snaps : PlanStands(snaps[i])

ReviewInv ==
    /\ FindingsInv
    /\ PlansInv
    /\ DOMAIN words = Words
    /\ IsList(gateRuns)
    /\ CallInv

\* What is on record so far is a list of nothing in particular.
LEMMA EmptyList == IsList(<<>>)
<1>1. <<>> \in Seq({})
  OBVIOUS
<1> QED
  BY <1>1 DEF IsList

\* A review starts so, ...
LEMMA InitReviewed == Init => ReviewInv
<1> SUFFICES ASSUME Init PROVE ReviewInv
  OBVIOUS
<1>1. FindingsInv
  BY EmptyList DEF Init, FindingsInv
<1>2. PlansInv
  BY EmptyList, StartsStand DEF Init, PlansInv
<1>3. CallInv
  BY DEF Init, CallInv
<1> QED
  BY <1>1, <1>2, <1>3, EmptyList DEF Init, ReviewInv

\* Edits, gaps, conflicts and the owner's moves are made between runs.
LEMMA EditReviewed ==
    ASSUME ReviewInv, Edit
    PROVE  ReviewInv'
<1>1. call' = NoCall /\ UNCHANGED <<findings, receipts, gateRuns>>
  BY DEF Edit, SubmitRow, SupersedeRow, RetireRow, ResolveAssumption, SpikeInconclusive,
         MarkWord, TakeSnapshot, Rewind, ledgers, Idle
<1>2. FindingsInv' /\ CallInv' /\ IsList(gateRuns')
  <2>1. FindingsInv'
    BY <1>1, FindingsElsewhere DEF ReviewInv
  <2> QED
    BY <1>1, <2>1 DEF ReviewInv, CallInv
<1>3. DOMAIN words' = Words
  BY DEF Edit, SubmitRow, SupersedeRow, RetireRow, ResolveAssumption, SpikeInconclusive,
         MarkWord, TakeSnapshot, Rewind, ledgers, ReviewInv
<1>4. PlansInv'
  <2>1. \A c \in Contents, targets \in SUBSET DOMAIN plan.rows :
            SubmitRow(c, targets) => PlanStands(plan') /\ UNCHANGED snaps
    BY SubmitKeepsPlan DEF ReviewInv, PlansInv, SubmitRow
  <2>2. \A c \in Contents, r \in DOMAIN plan.rows :
            SupersedeRow(r, c) => PlanStands(plan') /\ UNCHANGED snaps
    BY SupersedeKeepsPlan DEF ReviewInv, PlansInv, SupersedeRow
  <2>3. \A r \in DOMAIN plan.rows : RetireRow(r) => PlanStands(plan') /\ UNCHANGED snaps
    BY RetireKeepsPlan DEF ReviewInv, PlansInv, RetireRow
  <2>4. \A r \in DOMAIN plan.rows : ResolveAssumption(r) => PlanStands(plan') /\ UNCHANGED snaps
    BY ResolutionKeepsPlan DEF ReviewInv, PlansInv, ResolveAssumption
  <2>5. \A r : SpikeInconclusive(r) => PlanStands(plan') /\ UNCHANGED snaps
    BY DEF ReviewInv, PlansInv, SpikeInconclusive
  <2>6. \A w : MarkWord(w) => PlanStands(plan') /\ UNCHANGED snaps
    BY DEF ReviewInv, PlansInv, MarkWord
  <2>7. Rewind => PlanStands(plan') /\ UNCHANGED snaps
    <3> SUFFICES ASSUME Rewind PROVE PlanStands(plan') /\ UNCHANGED snaps
      OBVIOUS
    <3>1. snaps # <<>> /\ plan' = snaps[Len(snaps)] /\ UNCHANGED snaps
      BY DEF Rewind, Rewound, Last
    <3>2. IsList(snaps) /\ \A i \in DOMAIN snaps : PlanStands(snaps[i])
      BY DEF ReviewInv, PlansInv
    <3>3. Len(snaps) \in DOMAIN snaps
      <4>1. PICK S : snaps \in Seq(S)
        BY <3>2 DEF IsList
      <4> QED
        BY <3>1, <4>1
    <3> QED
      BY <3>1, <3>2, <3>3
  <2>8. CASE PlanStands(plan') /\ UNCHANGED snaps
    BY <2>8 DEF ReviewInv, PlansInv
  <2>9. CASE TakeSnapshot
    <3>1. snaps' = Append(snaps, plan) /\ UNCHANGED plan
      BY <2>9 DEF TakeSnapshot
    <3>2. /\ IsList(snaps') /\ DOMAIN snaps' = DOMAIN snaps \cup {Len(snaps) + 1}
          /\ \A i \in DOMAIN snaps : snaps'[i] = snaps[i]
          /\ snaps'[Len(snaps) + 1] = plan
      BY <3>1, ListAppend DEF ReviewInv, PlansInv
    <3> QED
      BY <3>1, <3>2 DEF ReviewInv, PlansInv
  <2> QED
    BY <2>1, <2>2, <2>3, <2>4, <2>5, <2>6, <2>7, <2>8, <2>9 DEF Edit
<1> QED
  BY <1>2, <1>3, <1>4 DEF ReviewInv

\* Whatever else is done between runs leaves the words, the snapshots and the record.
LEMMA BetweenRuns ==
    ASSUME ReviewInv, call' = NoCall, UNCHANGED <<snaps, words, gateRuns>>,
           PlanStands(plan'), FindingsInv'
    PROVE  ReviewInv'
BY DEF ReviewInv, PlansInv, CallInv

\* ... marks and moves of the owner, ...
LEMMA MarkReviewed ==
    ASSUME ReviewInv,
           \/ Overlay
           \/ \E r \in DOMAIN plan.rows : RaiseConflict(r) \/ ResolveConflict(r)
           \/ \E k \in DOMAIN plan.warnings : SuppressWarning(k) \/ ResolveWarning(k)
    PROVE  ReviewInv'
<1>1. /\ call' = NoCall /\ UNCHANGED <<snaps, words, gateRuns, findings>>
      /\ \E k : k[1] # "finding" /\ receipts' = receipts \cup {k}
  <2>1. \A g, r : /\ <<"dismissed", g>>[1] # "finding" /\ <<"reopen", g>>[1] # "finding"
                  /\ <<"conflict", r>>[1] # "finding" /\ <<"resolve_conflict", r>>[1] # "finding"
                  /\ <<"suppress_warning", r>>[1] # "finding"
                  /\ <<"resolve_warning", r>>[1] # "finding"
    OBVIOUS
  <2> QED
    BY <2>1 DEF Overlay, DismissGap, ReopenGap, RaiseConflict, ResolveConflict, SuppressWarning,
                ResolveWarning, Write, ledgers, Idle
<1>2. FindingsInv'
  BY <1>1, FindingsElsewhere DEF ReviewInv
<1>3. PlanStands(plan')
  <2>1. PlanStands(plan)
    BY DEF ReviewInv, PlansInv
  <2>2. \A rule \in Rules : \A g \in Derived(plan, rule) : DismissGap(g) => PlanStands(plan')
    BY <2>1, DismissalKeepsPlan
  <2>3. \A g : ReopenGap(g) => PlanStands(plan')
    BY <2>1, ReopeningKeepsPlan
  <2>4. \A r \in DOMAIN plan.rows : RaiseConflict(r) \/ ResolveConflict(r) => PlanStands(plan')
    BY <2>1, ContestKeepsPlan
  <2>5. \A k : SuppressWarning(k) => plan' = Moved(k, "suppressed")
    BY DEF SuppressWarning
  <2>6. \A k : ResolveWarning(k) => plan' = Moved(k, "resolved")
    BY DEF ResolveWarning
  <2>7. \A k : SuppressWarning(k) \/ ResolveWarning(k) => PlanStands(plan')
    BY <2>1, <2>5, <2>6, MovedKeepsPlan
  <2> QED
    BY <2>2, <2>3, <2>4, <2>7 DEF Overlay
<1> QED
  BY <1>1, <1>2, <1>3, BetweenRuns

\* ... findings ...
LEMMA FindingReviewed ==
    ASSUME ReviewInv,
           \/ \E r \in DOMAIN plan.rows, n \in Packages : FileFinding(r, n)
           \/ \E i \in DOMAIN findings : \/ \E event \in Events : MoveFinding(i, event)
                                         \/ \E n \in Packages : ReallocateFinding(i, n)
    PROVE  ReviewInv'
<1>1. call' = NoCall /\ UNCHANGED <<snaps, words, gateRuns, plan>>
  BY DEF FileFinding, MoveFinding, ReallocateFinding, Idle
<1>2. FindingsInv'
  BY FileKeepsFindings, MoveKeepsFindings, ReallocateKeepsFindings DEF ReviewInv
<1>3. PlanStands(plan')
  BY <1>1 DEF ReviewInv, PlansInv
<1> QED
  BY <1>1, <1>2, <1>3, BetweenRuns

\* ... and runs keep it, ...
LEMMA RunReviewed ==
    ASSUME ReviewInv,
           \/ \E n \in Packages : RunGate(n)
           \/ RaiseNext \/ RaiseFails \/ StartSettling \/ SettleNext \/ RecordRun \/ Crash
    PROVE  ReviewInv'
<1>1. PlanStands(plan) /\ CallInv /\ DOMAIN words = Words /\ FindingsInv
  BY DEF ReviewInv, PlansInv
<1>2. CASE \E n \in Packages : RunGate(n)
  <2>1. CallInv'
    BY <1>1, <1>2, RunBegins
  <2>2. UNCHANGED <<plan, snaps, words, gateRuns, findings, receipts>>
    BY <1>2 DEF RunGate, ledgers
  <2>3. FindingsInv'
    BY <1>1, <2>2, FindingsElsewhere
  <2> QED
    BY <2>1, <2>2, <2>3 DEF ReviewInv, PlansInv
<1>3. CASE RaiseNext
  <2>1. CallInv' /\ PlanStands(plan')
    BY <1>1, <1>3, RunRaises
  <2>2. /\ UNCHANGED <<snaps, words, gateRuns, findings>>
        /\ receipts' = receipts \/ \E k : k[1] # "finding" /\ receipts' = receipts \cup {k}
    <3>1. \A c : <<"raise_warning", c>>[1] # "finding" /\ <<"reword_warning", c>>[1] # "finding"
      OBVIOUS
    <3> QED
      BY <1>3, <3>1 DEF RaiseNext, Write, ledgers
  <2>3. FindingsInv'
    BY <1>1, <2>2, FindingsElsewhere
  <2> QED
    BY <2>1, <2>2, <2>3 DEF ReviewInv, PlansInv
<1>4. CASE RaiseFails \/ Crash
  <2>1. call' = NoCall /\ UNCHANGED <<plan, snaps, words, gateRuns, findings, receipts>>
    BY <1>4 DEF RaiseFails, Crash, ledgers
  <2>2. FindingsInv'
    BY <1>1, <2>1, FindingsElsewhere
  <2> QED
    BY <1>1, <2>1, <2>2, BetweenRuns
<1>5. CASE StartSettling
  <2>1. CallInv'
    BY <1>1, <1>5, RunTurns
  <2>2. UNCHANGED <<plan, snaps, words, gateRuns, findings, receipts>>
    BY <1>5 DEF StartSettling, ledgers
  <2>3. FindingsInv'
    BY <1>1, <2>2, FindingsElsewhere
  <2> QED
    BY <2>1, <2>2, <2>3 DEF ReviewInv, PlansInv
<1>6. CASE SettleNext
  <2>1. CallInv' /\ PlanStands(plan')
    BY <1>1, <1>6, RunSettles
  <2>2. /\ UNCHANGED <<snaps, words, gateRuns, findings>>
        /\ receipts' = receipts \/ \E k : k[1] # "finding" /\ receipts' = receipts \cup {k}
    <3>1. \A c : <<"settle_warning", c>>[1] # "finding"
      OBVIOUS
    <3> QED
      BY <1>6, <3>1 DEF SettleNext, Write, ledgers
  <2>3. FindingsInv'
    BY <1>1, <2>2, FindingsElsewhere
  <2> QED
    BY <2>1, <2>2, <2>3 DEF ReviewInv, PlansInv
<1>7. CASE RecordRun
  <2>1. /\ call' = NoCall /\ UNCHANGED <<plan, snaps, words, findings>>
        /\ \E k : k[1] # "finding" /\ receipts' = receipts \cup {k}
        /\ \E run : gateRuns' = Append(gateRuns, run)
    <3>1. \A n, s : <<"gate_run", n, s>>[1] # "finding"
      OBVIOUS
    <3> QED
      BY <1>7, <3>1 DEF RecordRun, Write
  <2>2. FindingsInv'
    BY <1>1, <2>1, FindingsElsewhere
  <2>3. IsList(gateRuns')
    BY <2>1, ListAppend DEF ReviewInv
  <2> QED
    BY <2>1, <2>2, <2>3 DEF ReviewInv, PlansInv, CallInv
<1> QED
  BY <1>2, <1>3, <1>4, <1>5, <1>6, <1>7

\* ... and so does every step.
LEMMA StepReviewed == ReviewInv /\ [Next]_vars => ReviewInv'
<1> SUFFICES ASSUME ReviewInv, [Next]_vars PROVE ReviewInv'
  OBVIOUS
<1>1. CASE UNCHANGED vars
  <2>1. UNCHANGED <<plan, snaps, words, gateRuns, findings, receipts, call, tried>>
    BY <1>1 DEF vars, ledgers
  <2>2. FindingsInv'
    BY <2>1, FindingsElsewhere DEF ReviewInv
  <2>3. CallInv'
    <3> SUFFICES ASSUME call # NoCall PROVE RunStands'
      BY <2>1 DEF CallInv
    <3>1. RunStands
      BY DEF ReviewInv, CallInv
    <3>2. Unjudged /\ Unwarned
      BY <2>1 DEF Unjudged, Unwarned
    <3>3. PICK n : n = call.package
      OBVIOUS
    <3>4. Green(plan, n)' <=> Green(plan, n)
      BY <3>2, GreenStays
    <3>5. Conditions(plan, {n})' = Conditions(plan, {n})
      BY <3>2, ConditionsStay
    <3>6. (call.passed => Green(plan, call.package))'
      <4>1. call.passed => Green(plan, n)
        BY <3>1, <3>3 DEF RunStands
      <4>2. (call.package)' = n /\ (call.passed)' = call.passed
        BY <2>1, <3>3
      <4> QED
        BY <3>4, <4>1, <4>2, Zenon
    <3> QED
      BY <2>1, <3>1, <3>3, <3>5, <3>6 DEF RunStands, Listed
  <2> QED
    BY <2>1, <2>2, <2>3 DEF ReviewInv, PlansInv
<1> QED
  BY <1>1, EditReviewed, MarkReviewed, FindingReviewed, RunReviewed DEF Next

---------------------------------------------------------------------------
(* What the invariant says.                                                *)

\* A run that goes on record is one that stands, at its end.
LEMMA JudgedRun ==
    ASSUME ReviewInv, [Next]_vars, NEW n, Judged(n)
    PROVE  /\ RunStands /\ call.step = "settle" /\ call.package = n
           /\ JudgedGreen(n) => call.passed
<1>1. IsList(gateRuns)
  BY DEF ReviewInv
<1>2. gateRuns' # gateRuns
  <2>1. Len(gateRuns) \in Nat
    BY <1>1, ListShape
  <2> QED
    BY <2>1 DEF Judged
<1>3. RecordRun
  BY <1>2 DEF Next, vars, ledgers, Edit, Overlay, SubmitRow, SupersedeRow, RetireRow,
              ResolveAssumption, SpikeInconclusive, MarkWord, TakeSnapshot, Rewind, DismissGap,
              ReopenGap, RaiseConflict, ResolveConflict, FileFinding, MoveFinding,
              ReallocateFinding, SuppressWarning, ResolveWarning, RunGate, RaiseNext,
              RaiseFails, StartSettling, SettleNext, Crash
<1>4. PICK run : /\ run = [package |-> call.package, passed |-> call.passed]
                 /\ gateRuns' = Append(gateRuns, run)
  BY <1>3 DEF RecordRun
<1>5. Last(gateRuns') = run
  BY <1>1, <1>4, ListAppend DEF Last
<1>6. run.package = call.package /\ run.passed = call.passed
  BY <1>4
<1>7. call # NoCall /\ call.step = "settle"
  BY <1>3 DEF RecordRun, NoCall
<1>8. RunStands
  BY <1>7 DEF ReviewInv, CallInv
<1> QED
  BY <1>5, <1>6, <1>7, <1>8 DEF Judged, JudgedGreen

\* No gate is green while a finding allocated to it is open.
LEMMA GreenIsUnlocked ==
    ASSUME NEW p, NEW n, Green(p, n), NEW i \in DOMAIN findings, IsOpen(i)
    PROVE  findings[i].resolveBy # n
<1>1. CASE \E c \in CriteriaFor(n) : c.type = "findings_resolved"
  <2>1. PICK c \in CriteriaFor(n) : c.type = "findings_resolved"
    BY <1>1
  <2>2. Holes(p, c) = {} /\ Holes(p, c) = OwnHoles(p, c)
    BY <2>1 DEF Green, Holes
  <2>3. OwnHoles(p, c) = FindingsResolved(c)
    BY <2>1 DEF OwnHoles
  <2> QED
    BY <2>2, <2>3 DEF FindingsResolved
<1>2. CASE ~\E c \in CriteriaFor(n) : c.type = "findings_resolved"
  BY <1>2 DEF Green, ResolveByLock, OpenAllocatedTo
<1> QED
  BY <1>1, <1>2

\* The verdict on record was green over the findings there are.
LEMMA LocksAreHeld ==
    ASSUME ReviewInv, [Next]_vars
    PROVE  \A n \in Packages : JudgedGreen(n) =>
               \A i \in DOMAIN findings : IsOpen(i) => findings[i].resolveBy # n
<1> SUFFICES ASSUME NEW n \in Packages, JudgedGreen(n), NEW i \in DOMAIN findings, IsOpen(i)
             PROVE  findings[i].resolveBy # n
  OBVIOUS
<1>1. Judged(n)
  BY DEF JudgedGreen
<1>2. Green(plan, n)
  BY <1>1, JudgedRun DEF RunStands
<1> QED
  BY <1>2, GreenIsUnlocked

\* When the last gate is green, every gate is, and nothing is open.
LEMMA LastIsGreen ==
    ASSUME NEW p, Green(p, Terminal)
    PROVE  /\ \A i \in DOMAIN findings : ~IsOpen(i)
           /\ OpenConflicts(p) = {}
           /\ \A n \in Packages : Green(p, n)
<1>1. ASSUME NEW n \in Packages, n # Terminal, NEW d \in CriteriaFor(n)
      PROVE  Holes(p, d) = {}
  <2>1. PICK c \in CriteriaFor(Terminal) : c.type = "prior_gates_green"
    BY LastGateAsksForAll DEF CriteriaFor
  <2>2. Holes(p, c) = {} /\ Holes(p, c) = PriorGatesGreen(p, c) /\ c.package = Terminal
    BY <2>1, Zenon DEF Green, Holes, CriteriaFor
  <2>3. n \in 1..(c.package - 1)
    BY <1>1, <2>2, PackagesAreThere DEF Packages
  <2>4. OwnHoles(p, d) = {}
    BY <2>2, <2>3 DEF PriorGatesGreen
  <2>5. d.type # "prior_gates_green"
    BY <1>1, OnlyTheLastFoldsIn DEF CriteriaFor
  <2> QED
    BY <2>4, <2>5 DEF Holes
<1>2. ASSUME NEW n \in Packages, NEW d \in CriteriaFor(n) PROVE Holes(p, d) = {}
  BY <1>1 DEF Green
<1>3. \A i \in DOMAIN findings : ~IsOpen(i)
  <2>1. PICK c \in Criteria : c.type = "findings_resolved"
    BY LastGateAsksForAll
  <2>2. c.package \in Packages /\ c \in CriteriaFor(c.package)
    BY CriteriaAreFormed DEF Packages, CriteriaFor
  <2>3. Holes(p, c) = {} /\ Holes(p, c) = OwnHoles(p, c)
    BY <1>2, <2>1, <2>2 DEF Holes
  <2>4. OwnHoles(p, c) = FindingsResolved(c)
    BY <2>1 DEF OwnHoles
  <2> QED
    BY <2>3, <2>4 DEF FindingsResolved
<1>4. OpenConflicts(p) = {}
  <2>1. PICK c \in CriteriaFor(Terminal) : c.type = "no_open_conflicts"
    BY LastGateAsksForAll DEF CriteriaFor
  <2>2. Holes(p, c) = {} /\ Holes(p, c) = OwnHoles(p, c)
    BY <2>1 DEF Green, Holes
  <2>3. OwnHoles(p, c) = OpenConflicts(p)
    BY <2>1 DEF OwnHoles
  <2> QED
    BY <2>2, <2>3
<1>5. \A n \in Packages : Green(p, n)
  BY <1>2, <1>3 DEF Green, ResolveByLock, OpenAllocatedTo
<1> QED
  BY <1>3, <1>4, <1>5

\* So is that of the last gate.
LEMMA LastMeansDone ==
    ASSUME ReviewInv, [Next]_vars, JudgedGreen(Terminal)
    PROVE  /\ \A i \in DOMAIN findings : ~IsOpen(i)
           /\ OpenConflicts(plan) = {}
           /\ \A n \in Packages : Green(plan, n)
<1>1. Judged(Terminal)
  BY DEF JudgedGreen
<1>2. Green(plan, Terminal)
  BY <1>1, JudgedRun DEF RunStands
<1> QED
  BY <1>2, LastIsGreen

\* Gaps of one rule with nothing to tell them apart are of different lineages.
LEMMA DismissalsFollow ==
    ASSUME ReviewInv PROVE DismissalFollowsLineage
<1> SUFFICES ASSUME NEW g \in DOMAIN plan.overlay, NEW h \in OpenGaps(plan, Packages),
                    Dismissed(plan, g), g[1] = h[1], g[3] = h[3]
             PROVE  g[2] # h[2] /\ (0 \notin {g[2], h[2]} =>
                        plan.rows[g[2]].root # plan.rows[h[2]].root)
  BY DEF DismissalFollowsLineage
<1>1. PlanStands(plan)
  BY DEF ReviewInv, PlansInv
<1>2. IsGap(plan.rows, g)
  BY <1>1 DEF PlanStands
<1>3. IsGap(plan.rows, h) /\ ~Dismissed(plan, h)
  <2>1. PICK rule \in Rules : h \in Derived(plan, rule)
    BY DEF OpenGaps
  <2> QED
    BY <1>1, <2>1, DerivedAreGaps DEF PlanStands, OpenGaps
<1>4. g[2] # h[2]
  <2> SUFFICES ASSUME g[2] = h[2] PROVE FALSE
    OBVIOUS
  <2>1. g = h
    BY <1>2, <1>3 DEF IsGap
  <2> QED
    BY <1>3, <2>1
<1> QED
  BY <1>2, <1>3, <1>4 DEF IsGap

\* A gate's conditions are among those of all.
LEMMA ConditionsOfOne ==
    ASSUME NEW p, NEW n \in Packages
    PROVE  Conditions(p, {n}) \subseteq Conditions(p, Packages)
<1>1. OpenGaps(p, {n}) \subseteq OpenGaps(p, Packages)
  BY DEF OpenGaps
<1> DEFINE root(r) == p.rows[r].root
           A(P) == {<<<<"gap", g>>, 0>> : g \in {h \in OpenGaps(p, P) : h[1] \notin AssumptionRules}}
           B == {<<<<"assumption", root(r)>>, r>> : r \in OpenAssumptions(p)}
           C == {<<<<"term", root(u[1]), u[2]>>, u[1]>> : u \in RetiredUses(p)}
<1>2. /\ Conditions(p, {n}) = A({n}) \cup B \cup C
      /\ Conditions(p, Packages) = A(Packages) \cup B \cup C
  BY Zenon DEF Conditions
<1>3. A({n}) \subseteq A(Packages)
  BY <1>1
<1> HIDE DEF A, B, C
<1> QED
  BY <1>2, <1>3

\* A run on record has listed its conditions, and none was unlisted since.
LEMMA ConditionsAreListed ==
    ASSUME ReviewInv, [Next]_vars
    PROVE  \A n \in Packages : Judged(n) =>
               \A c \in Conditions(plan, {n}) :
                   /\ c[1] \in DOMAIN plan.warnings
                   /\ plan.warnings[c[1]].state = "resolved" \/ c[1] \in ActiveWarnings(TRUE)
<1> SUFFICES ASSUME NEW n \in Packages, Judged(n), NEW c \in Conditions(plan, {n})
             PROVE  /\ c[1] \in DOMAIN plan.warnings
                    /\ plan.warnings[c[1]].state = "resolved" \/ c[1] \in ActiveWarnings(TRUE)
  OBVIOUS
<1>1. RunStands /\ call.step = "settle" /\ call.package = n
  BY JudgedRun
<1>2. c[1] \in DOMAIN plan.warnings
  BY <1>1 DEF RunStands, Listed
<1>3. plan.warnings[c[1]].state \in {"active", "suppressed", "resolved"}
  <2>1. IsWarning(plan.warnings[c[1]])
    BY <1>2 DEF ReviewInv, PlansInv, PlanStands
  <2> QED
    BY <2>1 DEF IsWarning
<1>4. c[1] \in LiveWarningKeys(plan)
  BY ConditionsOfOne DEF LiveWarningKeys
<1> QED
  BY <1>2, <1>3, <1>4 DEF ActiveWarnings

\* The invariant holds of every review.
THEOREM Invariance == Spec => []ReviewInv
<1> QED
  BY InitReviewed, StepReviewed, PTL DEF Spec

\* An open finding has a way to an outcome that was not gone before.
THEOREM FindingsCanBeSettled == Spec => []AlwaysSettleable
<1>1. ReviewInv => AlwaysSettleable
  BY FindingsSettle DEF ReviewInv
<1> QED
  BY <1>1, Invariance, PTL

\* No gate passes while a finding allocated to it is open.
THEOREM LocksAreKept == Spec => LocksHold
<1>1. ReviewInv /\ [Next]_vars =>
        [\A n \in Packages : JudgedGreen(n) =>
            \A i \in DOMAIN findings : IsOpen(i) => findings[i].resolveBy # n]_vars
  BY LocksAreHeld
<1> QED
  BY <1>1, Invariance, PTL DEF Spec, LocksHold

\* When the last gate passes no finding and no conflict is open, and all gates are
\* green.
THEOREM TheLastGateIsLast == Spec => LastGateMeansDone
<1>1. ReviewInv /\ [Next]_vars =>
        [JudgedGreen(Terminal) =>
            /\ \A i \in DOMAIN findings : ~IsOpen(i)
            /\ OpenConflicts(plan) = {}
            /\ \A n \in Packages : Green(plan, n)]_vars
  BY LastMeansDone
<1> QED
  BY <1>1, Invariance, PTL DEF Spec, LastGateMeansDone

\* A gap set aside stays aside when its row is replaced by one that has it too.
THEOREM DismissalsFollowLineage == Spec => []DismissalFollowsLineage
<1>1. ReviewInv => DismissalFollowsLineage
  BY DismissalsFollow
<1> QED
  BY <1>1, Invariance, PTL

\* A run on record has every condition of its package in the ledger, where readers find
\* it unless it was resolved.
THEOREM ConditionsAreOnRecord == Spec => ConditionsOnRecord
<1>1. ReviewInv /\ [Next]_vars =>
        [\A n \in Packages : Judged(n) =>
            \A c \in Conditions(plan, {n}) :
                /\ c[1] \in DOMAIN plan.warnings
                /\ plan.warnings[c[1]].state = "resolved" \/ c[1] \in ActiveWarnings(TRUE)]_vars
  BY ConditionsAreListed
<1> QED
  BY <1>1, Invariance, PTL DEF Spec, ConditionsOnRecord

---------------------------------------------------------------------------
(* A plan with a row taken out.                                            *)

\* q is p without its row r.
Without(p, r, q) ==
    /\ r \in DOMAIN p.rows /\ DOMAIN q.rows = DOMAIN p.rows
    /\ \A x \in DOMAIN p.rows : /\ q.rows[x].table = p.rows[x].table
                                /\ q.rows[x].content = p.rows[x].content
                                /\ q.rows[x].live <=> (p.rows[x].live /\ x # r)
    /\ \A l \in p.links : {l[1], l[2]} \subseteq DOMAIN p.rows
    /\ q.links = {l \in p.links : r \notin {l[1], l[2]}}
    /\ q.conflicts = p.conflicts

\* What of the plan is not of its table reads the same, ...
LEMMA LiveWithout ==
    ASSUME NEW p, NEW r, NEW q, Without(p, r, q), NEW t, t # p.rows[r].table
    PROVE  /\ Live(q, t) = Live(p, t)
           /\ \A x \in Live(p, t) : /\ x # r /\ Filled(q, x) = Filled(p, x)
                                    /\ q.rows[x].content = p.rows[x].content
BY DEF Without, Live, LiveRows, Filled

\* ... the rows asked about too, ...
LEMMA AskedWithout ==
    ASSUME NEW p, NEW r, NEW q, Without(p, r, q), NEW c, c.table # p.rows[r].table
    PROVE  Asked(q, c) = Asked(p, c) /\ Asked(p, c) \subseteq Live(p, c.table)
BY LiveWithout DEF Asked

\* ... whose children stay, ...
LEMMA ChildrenWithout ==
    ASSUME NEW p, NEW r, NEW q, Without(p, r, q), NEW t, t # p.rows[r].table, NEW x, x # r
    PROVE  Children(q, x, t) = Children(p, x, t) /\ Children(p, x, t) \subseteq Live(p, t)
<1>1. ASSUME NEW k \in Live(p, t), <<k, x>> \in p.links PROVE <<k, x>> \in q.links
  <2>1. k # r /\ <<k, x>>[1] = k /\ <<k, x>>[2] = x
    BY LiveWithout
  <2> QED
    BY <1>1, <2>1 DEF Without
<1>2. \A k : <<k, x>> \in q.links => <<k, x>> \in p.links
  BY DEF Without
<1> QED
  BY <1>1, <1>2, LiveWithout DEF Children

\* ... and so do the links, ...
LEMMA LinkedWithout ==
    ASSUME NEW p, NEW r, NEW q, Without(p, r, q), NEW T, p.rows[r].table \notin T, NEW d,
           NEW x, x # r
    PROVE  x \in Linked(q, T, d) <=> x \in Linked(p, T, d)
<1>1. ASSUME NEW l \in p.links
      PROVE  /\ q.rows[l[1]].table = p.rows[l[1]].table
             /\ q.rows[l[2]].table = p.rows[l[2]].table
  BY DEF Without
<1>2. ASSUME NEW l \in p.links, l[2] = x, p.rows[l[1]].table \in T PROVE l \in q.links
  BY <1>2 DEF Without
<1>3. ASSUME NEW l \in p.links, l[1] = x, p.rows[l[2]].table \in T PROVE l \in q.links
  BY <1>3 DEF Without
<1>4. q.links \subseteq p.links
  BY DEF Without
<1> QED
  BY <1>1, <1>2, <1>3, <1>4 DEF Linked

\* ... so that a criterion that depends on other tables finds the same.
LEMMA HolesWithout ==
    ASSUME NEW p, NEW r, NEW q, Without(p, r, q), NEW c \in Criteria,
           p.rows[r].table \notin TablesOf(c),
           c.type \notin {"unbacked_assumption", "prior_gates_green"}
    PROVE  Holes(p, c) = Holes(q, c)
<1>1. Holes(p, c) = OwnHoles(p, c) /\ Holes(q, c) = OwnHoles(q, c)
  BY DEF Holes
<1>2. /\ "table" \in DOMAIN c => c.table # p.rows[r].table
      /\ "child" \in DOMAIN c => c.child # p.rows[r].table
      /\ "escape" \in DOMAIN c => p.rows[r].table \notin c.escape
      /\ "toTables" \in DOMAIN c => p.rows[r].table \notin c.toTables
  BY DEF TablesOf
<1>3. CASE c.type = "non_empty"
  <2>1. \A t \in {c.table} \cup c.escape : Live(q, t) = Live(p, t)
    BY <1>2, <1>3, CriteriaAreFormed, LiveWithout
  <2>2. OwnHoles(p, c) = NonEmpty(p, c) /\ OwnHoles(q, c) = NonEmpty(q, c)
    BY <1>3 DEF OwnHoles
  <2> QED
    BY <1>1, <2>1, <2>2 DEF NonEmpty
<1>4. CASE c.type = "required_fields"
  <2>1. c.table # p.rows[r].table
    BY <1>2, <1>4, CriteriaAreFormed
  <2> PICK t : t = c.table
    OBVIOUS
  <2>2. Asked(q, c) = Asked(p, c) /\ \A x \in Asked(p, c) : Filled(q, x) = Filled(p, x)
    <3>1. \A x \in Live(p, t) : Filled(q, x) = Filled(p, x)
      BY <2>1, LiveWithout
    <3> QED
      BY <2>1, <3>1, AskedWithout
  <2>3. OwnHoles(p, c) = RequiredFields(p, c) /\ OwnHoles(q, c) = RequiredFields(q, c)
    BY <1>4 DEF OwnHoles
  <2> QED
    BY <1>1, <2>2, <2>3 DEF RequiredFields
<1>5. CASE c.type = "conditional_fields"
  <2>1. c.table # p.rows[r].table
    BY <1>2, <1>5, CriteriaAreFormed
  <2>2. /\ Live(q, c.table) = Live(p, c.table)
        /\ \A x \in Live(p, c.table) : /\ Filled(q, x) = Filled(p, x)
                                       /\ q.rows[x].content = p.rows[x].content
    <3>1. PICK t : t = c.table
      OBVIOUS
    <3>2. t # p.rows[r].table
      BY <2>1, <3>1
    <3> QED
      BY <3>1, <3>2, LiveWithout
  <2>3. OwnHoles(p, c) = ConditionalFields(p, c) /\ OwnHoles(q, c) = ConditionalFields(q, c)
    BY <1>5 DEF OwnHoles
  <2>4. ConditionalFields(p, c) = ConditionalFields(q, c)
    BY <2>2 DEF ConditionalFields
  <2> QED
    BY <1>1, <2>3, <2>4
<1>6. CASE c.type = "traced"
  <2>1. c.table # p.rows[r].table /\ p.rows[r].table \notin c.toTables
    BY <1>2, <1>6, CriteriaAreFormed
  <2>2. Asked(q, c) = Asked(p, c) /\ \A x \in Asked(p, c) : x # r
    BY <2>1, AskedWithout, LiveWithout
  <2>3. \A x \in Asked(p, c) :
            x \in Linked(q, c.toTables, c.direction) <=> x \in Linked(p, c.toTables, c.direction)
    BY <2>1, <2>2, LinkedWithout
  <2>4. OwnHoles(p, c) = Traced(p, c) /\ OwnHoles(q, c) = Traced(q, c)
    BY <1>6 DEF OwnHoles
  <2> QED
    BY <1>1, <2>2, <2>3, <2>4 DEF Traced
<1>7. CASE c.type \in {"covers_all", "matrix_complete"}
  <2>1. c.table # p.rows[r].table /\ c.child # p.rows[r].table
    BY <1>2, <1>7, CriteriaAreFormed
  <2>2. /\ Live(q, c.table) = Live(p, c.table)
        /\ \A x \in Live(p, c.table) : /\ x # r /\ Filled(q, x) = Filled(p, x)
                                       /\ q.rows[x].content = p.rows[x].content
    <3>1. PICK t : t = c.table
      OBVIOUS
    <3>2. t # p.rows[r].table
      BY <2>1, <3>1
    <3> QED
      BY <3>1, <3>2, LiveWithout
  <2>3. \A x \in Live(p, c.table) :
            /\ Children(q, x, c.child) = Children(p, x, c.child)
            /\ \A k \in Children(p, x, c.child) : /\ Filled(q, k) = Filled(p, k)
                                                  /\ q.rows[k].content = p.rows[k].content
    <3>1. PICK t : t = c.child
      OBVIOUS
    <3>2. t # p.rows[r].table
      BY <2>1, <3>1
    <3>3. \A k \in Live(p, t) : /\ Filled(q, k) = Filled(p, k)
                               /\ q.rows[k].content = p.rows[k].content
      BY <3>2, LiveWithout
    <3>4. \A x \in Live(p, c.table) :
              Children(q, x, t) = Children(p, x, t) /\ Children(p, x, t) \subseteq Live(p, t)
      BY <2>2, <3>2, ChildrenWithout
    <3> QED
      BY <3>1, <3>3, <3>4
  <2>4. CASE c.type = "covers_all"
    <3>1. OwnHoles(p, c) = CoversAll(p, c) /\ OwnHoles(q, c) = CoversAll(q, c)
      BY <2>4 DEF OwnHoles
    <3>2. CoversAll(p, c) = CoversAll(q, c)
      BY <2>2, <2>3 DEF CoversAll
    <3> QED
      BY <1>1, <3>1, <3>2
  <2>5. CASE c.type = "matrix_complete"
    <3>1. OwnHoles(p, c) = MatrixComplete(p, c) /\ OwnHoles(q, c) = MatrixComplete(q, c)
      BY <2>5 DEF OwnHoles
    <3>2. MatrixComplete(p, c) = MatrixComplete(q, c)
      BY <2>2, <2>3 DEF MatrixComplete
    <3> QED
      BY <1>1, <3>1, <3>2
  <2> QED
    BY <1>7, <2>4, <2>5
<1>8. CASE c.type \in {"findings_exist", "findings_resolved", "no_open_conflicts"}
  <2>1. OpenConflicts(q) = OpenConflicts(p)
    BY DEF OpenConflicts, Without
  <2> QED
    BY <1>1, <1>8, <2>1 DEF OwnHoles
<1> QED
  BY <1>3, <1>4, <1>5, <1>6, <1>7, <1>8, CriteriaAreFormed

\* The tables of a criterion are in the scope of its gate.
LEMMA ScopeHasTables ==
    ASSUME NEW n \in Packages, NEW c \in CriteriaFor(n)
    PROVE  TablesOf(c) \subseteq Scope(n)
BY DEF Scope

\* What does not block a gate is of no table its criteria read.
LEMMA VerdictsUncontested ==
    ASSUME ReviewInv PROVE UncontestedVerdicts
<1> SUFFICES ASSUME NEW n \in Packages, NEW r \in OpenConflicts(plan), r \notin Blocking(plan, n),
                    NEW c \in CriteriaFor(n),
                    c.type \notin {"unbacked_assumption", "prior_gates_green"}
             PROVE  Holes(plan, c) =
                    Holes([plan EXCEPT !.rows[r].live = FALSE,
                                       !.links = {l \in @ : r \notin {l[1], l[2]}}], c)
  BY DEF UncontestedVerdicts
<1>1. PICK rows, no : rows = plan.rows /\ no = FALSE
  OBVIOUS
<1>2. PICK x : x = [rows[r] EXCEPT !.live = no]
  OBVIOUS
<1>3. PICK fewer : fewer = [rows EXCEPT ![r] = x]
  OBVIOUS
<1>4. PICK links : links = {l \in plan.links : r \notin {l[1], l[2]}}
  OBVIOUS
<1>5. PICK p : p = [plan EXCEPT !.rows = fewer]
  OBVIOUS
<1>6. PICK q : q = [p EXCEPT !.links = links]
  OBVIOUS
<1>7. q = [plan EXCEPT !.rows[r].live = FALSE, !.links = {l \in @ : r \notin {l[1], l[2]}}]
  BY <1>1, <1>2, <1>3, <1>4, <1>5, <1>6
<1>8. PlanStands(plan)
  BY DEF ReviewInv, PlansInv
<1>9. /\ IsPlan(p) /\ p.rows = fewer /\ p.links = plan.links /\ p.conflicts = plan.conflicts
  <2>1. IsPlan(plan)
    BY <1>8 DEF PlanStands
  <2> QED
    BY <1>5, <2>1, SetRows
<1>10. q.links = links /\ q.rows = fewer /\ q.conflicts = plan.conflicts
  BY <1>6, <1>9, SetLinks
<1>11. r \in DOMAIN rows
  BY <1>1, <1>8 DEF PlanStands, OpenConflicts
<1>12. \A y \in DOMAIN rows : IsRow(rows[y])
  BY <1>1, <1>8 DEF PlanStands, RowsStand
<1>13. /\ x.table = rows[r].table /\ x.content = rows[r].content /\ x.live = no
  <2>1. PICK t, d, s, k, o, v : rows[r] =
            [table |-> t, content |-> d, says |-> s, kind |-> k, root |-> o, live |-> v]
    BY <1>11, <1>12 DEF IsRow
  <2>2. x = [table |-> t, content |-> d, says |-> s, kind |-> k, root |-> o, live |-> no]
    BY <1>2, <2>1
  <2> QED
    BY <2>1, <2>2
<1>14. /\ DOMAIN fewer = DOMAIN rows /\ fewer[r] = x
       /\ \A y \in DOMAIN rows : y # r => fewer[y] = rows[y]
  BY <1>3, <1>11
<1>15. Without(plan, r, q)
  <2>1. \A y \in DOMAIN rows : /\ fewer[y].table = rows[y].table
                               /\ fewer[y].content = rows[y].content
    BY <1>13, <1>14
  <2>2. \A y \in DOMAIN rows : fewer[y].live <=> (rows[y].live /\ y # r)
    BY <1>1, <1>13, <1>14, Zenon
  <2>3. \A l \in plan.links : {l[1], l[2]} \subseteq DOMAIN plan.rows
    BY <1>8 DEF PlanStands
  <2> QED
    BY <1>1, <1>4, <1>10, <1>11, <1>14, <2>1, <2>2, <2>3 DEF Without
<1>16. plan.rows[r].table \notin TablesOf(c)
  BY ScopeHasTables DEF Blocking, Covers
<1>17. c \in Criteria
  BY DEF CriteriaFor
<1> QED
  BY <1>7, <1>15, <1>16, <1>17, HolesWithout

\* What a gate that no conflict blocks finds, assumptions aside, is the same without the
\* contested row.
THEOREM VerdictsAreUncontested == Spec => []UncontestedVerdicts
<1>1. ReviewInv => UncontestedVerdicts
  BY VerdictsUncontested
<1> QED
  BY <1>1, Invariance, PTL
===============================================================================
