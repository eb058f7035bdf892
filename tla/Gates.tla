--------------------------------- MODULE Gates ---------------------------------
(***************************************************************************)
(* What the methodology reads in a plan: the criteria of a gate            *)
(* (engine/gates.py) and the gaps of the interview (engine/gaps.py), as    *)
(* the engine interprets them.  The methodology is data and a parameter;   *)
(* no definition here writes anything.                                     *)
(*                                                                         *)
(* A plan is [rows, links, overlay, conflicts, warnings].  A row is its    *)
(* position in rows: [table, content, says, root, live, kind], content     *)
(* mapping the fields that are filled to their values, says the words it   *)
(* uses, root the first row of its lineage and kind the kind of assumption *)
(* it still is, "decided" for none.  links are <<source, target>>; overlay *)
(* maps gaps, conflicts rows and warnings keys to what is recorded of      *)
(* them.  A hole is the row, finding or package it names, 0 if none.       *)
(***************************************************************************)
EXTENDS Naturals, FiniteSets, Sequences

CONSTANTS
    Terminal,      \* the packages are 1..Terminal
    Manifest,      \* package -> the tables the manifest assigns to it
    Criteria,      \* [package, type, ...], the rest as the type demands
    Rules          \* [id, package, type, ...], package 0 for any

ASSUME PackagesAreThere == Terminal \in Nat \ {0} /\ DOMAIN Manifest = 1..Terminal
\* The gate that folds in every other is the last one, and no other is such.
ASSUME OnlyTheLastFoldsIn ==
    \A c \in Criteria : c.type = "prior_gates_green" => c.package = Terminal
\* Any other type of criterion or rule is refused, and each has the entries of its type.
ASSUME CriteriaAreFormed ==
    \A c \in Criteria :
        /\ c.package \in 1..Terminal
        /\ c.type \in {"non_empty", "required_fields", "conditional_fields", "traced",
                       "covers_all", "matrix_complete", "unbacked_assumption", "findings_exist",
                       "findings_resolved", "no_open_conflicts", "prior_gates_green"}
        /\ c.type \in {"non_empty", "required_fields", "conditional_fields", "traced",
                       "covers_all", "matrix_complete"} => "table" \in DOMAIN c
        /\ c.type = "non_empty" => "escape" \in DOMAIN c
        /\ c.type = "traced" => "toTables" \in DOMAIN c
        /\ c.type \in {"covers_all", "matrix_complete"} => "child" \in DOMAIN c
ASSUME RulesAreKnown ==
    /\ IsFiniteSet(Rules)
    /\ \A rule \in Rules :
           rule.type \in {"empty_table", "missing_field", "untraced", "open_assumption",
                         "uncited_section", "no_glossary", "unsettled_term"}
\* gate_criteria.yaml - the last gate asks for the others and for the conflicts, and one
\* of them for the findings.
ASSUME LastGateAsksForAll ==
    /\ {"prior_gates_green", "no_open_conflicts"} \subseteq
           {c.type : c \in {d \in Criteria : d.package = Terminal}}
    /\ \E c \in Criteria : c.type = "findings_resolved"

VARIABLES
    findings,      \* [on, state, resolveBy, explained, deferrals]
    tried,         \* the rows some spike has an outcome for
    words          \* the glossary: word -> its marks, of defined, approved, banned

Packages == 1..Terminal

CriteriaFor(n) == {c \in Criteria : c.package = n}

LiveRows(p) == {r \in DOMAIN p.rows : p.rows[r].live}

Live(p, t) == {r \in LiveRows(p) : p.rows[r].table = t}

OpenAssumptions(p) == {r \in LiveRows(p) : p.rows[r].kind # "decided"}

Filled(p, r) == DOMAIN p.rows[r].content

\* The rows a criterion or a rule asks about: when_field, unless_field.
Asked(p, c) ==
    {r \in Live(p, c.table) : c.when \subseteq Filled(p, r) /\ c.unless \cap Filled(p, r) = {}}

\* The rows with a link from, or to, a row of the tables, live or not.
Linked(p, tables, direction) ==
    IF direction = "in" THEN {l[2] : l \in {m \in p.links : p.rows[m[1]].table \in tables}}
                        ELSE {l[1] : l \in {m \in p.links : p.rows[m[2]].table \in tables}}

Children(p, parent, t) == {r \in Live(p, t) : <<r, parent>> \in p.links}

IsOpen(i) == findings[i].state \notin {"addressed", "accepted_risk"}

OpenConflicts(p) == {r \in DOMAIN p.conflicts : p.conflicts[r] = "open"}

---------------------------------------------------------------------------
(* The criteria: the holes each finds.                                     *)

NonEmpty(p, c) ==
    IF \A t \in {c.table} \cup c.escape : Live(p, t) = {} THEN {0} ELSE {}

RequiredFields(p, c) == {r \in Asked(p, c) : ~(c.fields \subseteq Filled(p, r))}

ConditionalFields(p, c) ==
    {r \in Live(p, c.table) : \E case \in c.cases :
        /\ case.field \in Filled(p, r)
        /\ p.rows[r].content[case.field] \in case.values
        /\ ~(case.require \subseteq Filled(p, r))}

Traced(p, c) == Asked(p, c) \ Linked(p, c.toTables, c.direction)

CoversAll(p, c) ==
    {r \in Live(p, c.table) : \E v \in c.values : \A k \in Children(p, r, c.child) :
        c.field \in Filled(p, k) => p.rows[k].content[c.field] # v}

\* The state x event grid; a parent without one of its axes is not asked.
MatrixComplete(p, c) ==
    {r \in {q \in Live(p, c.table) : {c.axes[1], c.axes[2]} \subseteq Filled(p, q)} :
        \E a \in p.rows[r].content[c.axes[1]], b \in p.rows[r].content[c.axes[2]] :
            \A k \in Children(p, r, c.child) :
                \/ ~({c.cell[1], c.cell[2]} \subseteq Filled(p, k))
                \/ p.rows[k].content[c.cell[1]] # a
                \/ p.rows[k].content[c.cell[2]] # b}

\* Tried without a verdict, the assumption rides on an accepted risk that names it.
UnbackedAssumption(p, c) ==
    {r \in {q \in OpenAssumptions(p) : p.rows[q].kind = c.kind} :
        \/ r \notin tried
        \/ ~\E i \in DOMAIN findings :
                findings[i].on = r /\ findings[i].state = "accepted_risk"}

FindingsExist(c) == IF findings = <<>> THEN {0} ELSE {}

FindingsResolved(c) == {i \in DOMAIN findings : IsOpen(i) \/ ~findings[i].explained}

OwnHoles(p, c) ==
    CASE c.type = "non_empty"           -> NonEmpty(p, c)
      [] c.type = "required_fields"     -> RequiredFields(p, c)
      [] c.type = "conditional_fields"  -> ConditionalFields(p, c)
      [] c.type = "traced"              -> Traced(p, c)
      [] c.type = "covers_all"          -> CoversAll(p, c)
      [] c.type = "matrix_complete"     -> MatrixComplete(p, c)
      [] c.type = "unbacked_assumption" -> UnbackedAssumption(p, c)
      [] c.type = "findings_exist"      -> FindingsExist(c)
      [] c.type = "findings_resolved"   -> FindingsResolved(c)
      [] c.type = "no_open_conflicts"   -> OpenConflicts(p)

\* The mutated form of a definition precedes it and is named after it: a plausible
\* bug, which no specification uses.
PriorGatesGreen_lastOnly(p, c) ==
    {n \in {c.package - 1} \cap Packages : \E d \in CriteriaFor(n) : OwnHoles(p, d) # {}}

\* It evaluates the criteria of the earlier gates, and neither runs nor locks them.
PriorGatesGreen(p, c) ==
    {n \in 1..(c.package - 1) : \E d \in CriteriaFor(n) : OwnHoles(p, d) # {}}

Holes(p, c) == IF c.type = "prior_gates_green" THEN PriorGatesGreen(p, c) ELSE OwnHoles(p, c)

OpenAllocatedTo(n) == {i \in DOMAIN findings : IsOpen(i) /\ findings[i].resolveBy = n}

ResolveByLock_filedOnly(n) ==
    IF \E c \in CriteriaFor(n) : c.type = "findings_resolved" THEN {}
    ELSE {i \in DOMAIN findings : findings[i].state = "filed" /\ findings[i].resolveBy = n}

\* A gate with findings_resolved refuses every open finding already.
ResolveByLock(n) ==
    IF \E c \in CriteriaFor(n) : c.type = "findings_resolved" THEN {}
    ELSE OpenAllocatedTo(n)

\* What run_gate calls passed.
Green(p, n) == ResolveByLock(n) = {} /\ \A c \in CriteriaFor(n) : Holes(p, c) = {}

TablesOf_tableOnly(c) == IF "table" \in DOMAIN c THEN {c.table} ELSE {}

\* Whatever the type, from the entries that name tables.
TablesOf(c) ==
    UNION {IF "table" \in DOMAIN c THEN {c.table} ELSE {},
           IF "child" \in DOMAIN c THEN {c.child} ELSE {},
           IF "escape" \in DOMAIN c THEN c.escape ELSE {},
           IF "toTables" \in DOMAIN c THEN c.toTables ELSE {}}

\* The tables a gate depends on; the last folds in the others.
Scope(n) ==
    UNION {Manifest[m] \cup UNION {TablesOf(c) : c \in CriteriaFor(m)} :
              m \in IF n = Terminal THEN Packages ELSE {n}}

Covers(scope, p, r) == p.rows[r].table \in scope

Blocking(p, n) == LET scope == Scope(n) IN {r \in OpenConflicts(p) : Covers(scope, p, r)}

---------------------------------------------------------------------------
(* The gaps.  A gap is <<rule, root of the lineage or 0, what else tells   *)
(* it from the others of that rule and root>>.                             *)

GapKey_byRow(p, rule, r, extra) == <<rule.id, r, extra>>

GapKey(p, rule, r, extra) == <<rule.id, IF r = 0 THEN 0 ELSE p.rows[r].root, extra>>

Lacking(p, rule) ==
    {GapKey(p, rule, r, rule.fields \ Filled(p, r)) :
        r \in {q \in Asked(p, rule) : ~(rule.fields \subseteq Filled(p, q))}}

Untraced(p, rule) ==
    {GapKey(p, rule, r, {}) :
        r \in Asked(p, rule) \ Linked(p, {rule.toTable}, rule.direction)}

OpenAssumption(p, rule) ==
    {GapKey(p, rule, r, {}) : r \in {q \in OpenAssumptions(p) : p.rows[q].kind = rule.kind}}

\* The sections of a source no extract was drawn from are a field of its row here.
UncitedSection(p, rule) ==
    UNION {{GapKey(p, rule, r, {h}) : h \in p.rows[r].content.untouched \ rule.ignore} :
              r \in {q \in Live(p, rule.table) : "untouched" \in Filled(p, q)}}

Defined == {w \in DOMAIN words : "defined" \in words[w]}

Awaiting == {w \in Defined : "approved" \notin words[w]}

Retired == {w \in Defined : "banned" \in words[w]}

Derived(p, rule) ==
    CASE rule.type = "empty_table"     -> IF Live(p, rule.table) = {} THEN {GapKey(p, rule, 0, {})} ELSE {}
      [] rule.type = "missing_field"   -> Lacking(p, rule)
      [] rule.type = "untraced"        -> Untraced(p, rule)
      [] rule.type = "open_assumption" -> OpenAssumption(p, rule)
      [] rule.type = "uncited_section" -> UncitedSection(p, rule)
      [] rule.type = "no_glossary"     -> IF Defined = {} /\ LiveRows(p) # {}
                                          THEN {GapKey(p, rule, 0, {})} ELSE {}
      [] rule.type = "unsettled_term"  -> {GapKey(p, rule, 0, {w}) : w \in Awaiting}

Dismissed(p, g) == g \in DOMAIN p.overlay /\ p.overlay[g] = "dismissed"

\* Of a package and of none in particular, or of all.
OpenGaps(p, packages) ==
    {g \in UNION {Derived(p, rule) : rule \in {q \in Rules : q.package \in packages \cup {0}}} :
        ~Dismissed(p, g)}

AssumptionRules == {rule.id : rule \in {q \in Rules : q.type = "open_assumption"}}

RetiredUses(p) == {u \in LiveRows(p) \X Retired : u[2] \in p.rows[u[1]].says}

\* What a gate warns of: <<key of the warning, the row its message names>>.
Conditions(p, packages) ==
    LET root(r) == p.rows[r].root
    IN  {<<<<"gap", g>>, 0>> : g \in {h \in OpenGaps(p, packages) : h[1] \notin AssumptionRules}}
        \cup {<<<<"assumption", root(r)>>, r>> : r \in OpenAssumptions(p)}
        \cup {<<<<"term", root(u[1]), u[2]>>, u[1]>> : u \in RetiredUses(p)}

\* live_warning_keys: the gaps of the assumptions are in it and match no warning.
LiveWarningKeys(p) == {c[1] : c \in Conditions(p, Packages)}
===============================================================================
