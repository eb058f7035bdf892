--------------------------------- MODULE Review --------------------------------
(***************************************************************************)
(* The review of a draft plan: the gates that judge it (engine/gates.py),  *)
(* the warnings they raise and settle (engine/warnings.py), the gaps set   *)
(* aside meanwhile (engine/gaps.py), the findings filed against its rows   *)
(* (engine/findings.py) and the conflicts that hold its gates back, over   *)
(* rows that are edited and snapshots that bring them back.                *)
(*                                                                         *)
(* A run of a gate is a transaction for each warning and one for its       *)
(* record; `call` is what remains of the run under way.  Every other       *)
(* operation is one transaction, under a key made of what it is about.     *)
(*                                                                         *)
(* A warning is inserted once under its key and known by it, not by an id. *)
(***************************************************************************)
EXTENDS Gates, Idempotency, SequencesExt

CONSTANTS
    Starts,        \* the plans a review may start from
    Contents,      \* what a row may be filed or replaced with: [table, content, says, kind]
    Words,         \* the words of the glossary
    MaxRows, MaxFindings, MaxSnaps, MaxRuns
                   \* bounds: rows, findings, snapshots, recorded runs

ASSUME ReviewBounds == {MaxRows, MaxFindings, MaxSnaps, MaxRuns} \subseteq Nat

VARIABLES
    plan,          \* what a snapshot covers, see Gates
    snaps,         \* the snapshots taken
    gateRuns,      \* the verdicts on record: [package, passed]
    call           \* what remains of the run under way

ledgers == <<findings, tried, words, gateRuns>>

vars == <<plan, snaps, ledgers, receipts, call>>

NoCall == [step |-> "none"]

Init ==
    /\ plan \in Starts
    /\ findings = <<>> /\ tried = {}
    /\ words = [w \in Words |-> {}]
    /\ snaps = <<>> /\ gateRuns = <<>>
    /\ receipts = {}
    /\ call = NoCall

Idle == call = NoCall

Put(f, k, v) == [x \in DOMAIN f \cup {k} |-> IF x = k THEN v ELSE f[x]]

---------------------------------------------------------------------------
(* What the plan says: its rows, its glossary, its snapshots.  Modules     *)
(* RowService, Glossary and StorageEngine have these in detail.            *)

Row(c, root) == [table |-> c.table, content |-> c.content, says |-> c.says,
                 kind |-> c.kind, root |-> root, live |-> TRUE]

Untouched(content) == IF "untouched" \in DOMAIN content THEN content.untouched ELSE {}

\* A review starts with nothing set aside, contested or warned of.
ASSUME StartsAreDrafts ==
    \A p \in Starts :
        /\ p = [rows |-> p.rows, links |-> p.links, overlay |-> p.overlay,
                conflicts |-> p.conflicts, warnings |-> p.warnings]
        /\ DOMAIN p.overlay = {} /\ DOMAIN p.conflicts = {} /\ DOMAIN p.warnings = {}
        /\ p.rows \in Seq(Range(p.rows))
        /\ \A l \in p.links : {l[1], l[2]} \subseteq DOMAIN p.rows
        /\ \A r \in DOMAIN p.rows :
            LET row == p.rows[r] IN
            /\ row = [Row(row, row.root) EXCEPT !.live = row.live]
            /\ row.root \in DOMAIN p.rows /\ p.rows[row.root].root = row.root
            /\ IsFiniteSet(Untouched(row.content))
ASSUME ContentsAreFinite ==
    IsFiniteSet(Words) /\ \A c \in Contents : IsFiniteSet(Untouched(c.content))

SubmitRow(c, targets) ==
    /\ Idle
    /\ Len(plan.rows) < MaxRows
    /\ plan' = [plan EXCEPT !.rows = Append(@, Row(c, Len(@) + 1)),
                            !.links = @ \cup ({Len(plan.rows) + 1} \X targets)]
    /\ UNCHANGED <<snaps, ledgers, receipts, call>>

\* The replacement is of the same table and lineage and brings no links.
SupersedeRow(r, c) ==
    /\ Idle
    /\ Len(plan.rows) < MaxRows
    /\ r \in LiveRows(plan) /\ c.table = plan.rows[r].table
    /\ plan' = [plan EXCEPT !.rows = Append([@ EXCEPT ![r].live = FALSE],
                                            Row(c, plan.rows[r].root))]
    /\ UNCHANGED <<snaps, ledgers, receipts, call>>

RetireRow(r) ==
    /\ Idle
    /\ r \in LiveRows(plan)
    /\ plan' = [plan EXCEPT !.rows[r].live = FALSE]
    /\ UNCHANGED <<snaps, ledgers, receipts, call>>

ResolveAssumption(r) ==
    /\ Idle
    /\ r \in OpenAssumptions(plan)
    /\ plan' = [plan EXCEPT !.rows[r].kind = "decided"]
    /\ UNCHANGED <<snaps, ledgers, receipts, call>>

\* A spike ends with an outcome that leaves the assumption open.
SpikeInconclusive(r) ==
    /\ Idle
    /\ r \in OpenAssumptions(plan) \ tried
    /\ plan.rows[r].kind = "world"
    /\ tried' = tried \cup {r}
    /\ UNCHANGED <<plan, snaps, findings, words, gateRuns, receipts, call>>

\* define_term, approve_term, retire_term and redefine_term, as far as gaps and
\* warnings can tell.
MarkWord(w) ==
    /\ Idle
    /\ \E marks \in {{"defined"}} \cup
            {words[w] \cup {m} : m \in {n \in {"approved", "banned"} : "defined" \in words[w]}} :
        words' = [words EXCEPT ![w] = marks]
    /\ UNCHANGED <<plan, snaps, findings, tried, gateRuns, receipts, call>>

TakeSnapshot ==
    /\ Idle
    /\ Len(snaps) < MaxSnaps
    /\ snaps' = Append(snaps, plan)
    /\ UNCHANGED <<plan, ledgers, receipts, call>>

\* Rows, links, overlay, conflicts and warnings, and nothing else.
Rewound == Last(snaps)

Rewind ==
    /\ Idle
    /\ snaps # <<>>
    /\ plan' = Rewound
    /\ UNCHANGED <<snaps, ledgers, receipts, call>>

---------------------------------------------------------------------------
(* Gaps and conflicts.                                                     *)

DismissGap(g) ==
    /\ Idle
    /\ Write(<<"dismissed", g>>)
    /\ plan' = [plan EXCEPT !.overlay = Put(@, g, "dismissed")]
    /\ UNCHANGED <<snaps, ledgers, call>>

ReopenGap(g) ==
    /\ Idle
    /\ Dismissed(plan, g)
    /\ Write(<<"reopen", g>>)
    /\ plan' = [plan EXCEPT !.overlay[g] = "open"]
    /\ UNCHANGED <<snaps, ledgers, call>>

RaiseConflict(r) ==
    /\ Idle
    /\ Write(<<"conflict", r>>)
    /\ plan' = [plan EXCEPT !.conflicts = Put(@, r, "open")]
    /\ UNCHANGED <<snaps, ledgers, call>>

ResolveConflict(r) ==
    /\ Idle
    /\ r \in OpenConflicts(plan)
    /\ Write(<<"resolve_conflict", r>>)
    /\ plan' = [plan EXCEPT !.conflicts[r] = "resolved"]
    /\ UNCHANGED <<snaps, ledgers, call>>

---------------------------------------------------------------------------
(* Findings.                                                               *)

\* Any row there is, live or not; the same finding twice is one finding.
FileFinding(r, n) ==
    /\ Idle
    /\ Len(findings) < MaxFindings
    /\ Write(<<"file_finding", r, n>>)
    /\ findings' = Append(findings,
           [on |-> r, state |-> "filed", resolveBy |-> n, explained |-> FALSE,
            deferrals |-> <<>>])
    /\ UNCHANGED <<plan, snaps, tried, words, gateRuns, call>>

Transitions_returning ==
    {<<"filed", "dispute", "disputed">>, <<"filed", "address", "addressed">>,
     <<"filed", "accept_risk", "accepted_risk">>, <<"disputed", "uphold", "filed">>,
     <<"disputed", "withdraw", "filed">>, <<"accepted_risk", "dispute", "disputed">>,
     <<"accepted_risk", "address", "addressed">>}

Transitions ==
    {<<"filed", "dispute", "disputed">>, <<"filed", "address", "addressed">>,
     <<"filed", "accept_risk", "accepted_risk">>, <<"disputed", "uphold", "filed">>,
     <<"disputed", "withdraw", "addressed">>, <<"accepted_risk", "dispute", "disputed">>,
     <<"accepted_risk", "address", "addressed">>}

Events == {t[2] : t \in Transitions}

\* resolve_finding, dispute_finding and uphold_finding.  A dispute records an argument;
\* every other event records why.
MoveFinding(i, event) ==
    /\ Idle
    /\ Write(<<"finding", i, event>>)
    /\ \E t \in Transitions :
        /\ t[1] = findings[i].state /\ t[2] = event
        /\ findings' = [findings EXCEPT ![i].state = t[3],
                                        ![i].explained = @ \/ event # "dispute"]
    /\ UNCHANGED <<plan, snaps, tried, words, gateRuns, call>>

\* Only an open finding, only to a later gate, and never without a trace.
ReallocateFinding(i, n) ==
    /\ Idle
    /\ IsOpen(i)
    /\ n > findings[i].resolveBy
    /\ Write(<<"reallocate_finding", i, n>>)
    /\ findings' = [findings EXCEPT ![i].resolveBy = n,
                        ![i].deferrals = Append(@, <<findings[i].resolveBy, n>>)]
    /\ UNCHANGED <<plan, snaps, tried, words, gateRuns, call>>

---------------------------------------------------------------------------
(* Warnings, as the owner moves them.                                      *)

WarningIs(k, states) == k \in DOMAIN plan.warnings /\ plan.warnings[k].state \in states

Moved(k, state) == [plan EXCEPT !.warnings[k].state = state]

SuppressWarning(k) ==
    /\ Idle
    /\ WarningIs(k, {"active", "suppressed"})
    /\ Write(<<"suppress_warning", k>>)
    /\ plan' = Moved(k, "suppressed")
    /\ UNCHANGED <<snaps, ledgers, call>>

ResolveWarning(k) ==
    /\ Idle
    /\ WarningIs(k, {"active", "suppressed"})
    /\ Write(<<"resolve_warning", k>>)
    /\ plan' = Moved(k, "resolved")
    /\ UNCHANGED <<snaps, ledgers, call>>

---------------------------------------------------------------------------
(* A run of a gate.                                                        *)

\* The verdict is reached before anything is written; a gate that a conflict blocks
\* raises BlockedByConflict and writes nothing.
RunGate(n) ==
    /\ Idle
    /\ Len(gateRuns) < MaxRuns
    /\ Blocking(plan, n) = {}
    /\ call' = [step |-> "raise", package |-> n, passed |-> Green(plan, n),
                todo |-> SetToSeq(Conditions(plan, {n}))]
    /\ UNCHANGED <<plan, snaps, ledgers, receipts>>

Raised(c) == Put(plan.warnings, c[1], [state |-> "active", names |-> c[2]])

OnWithIt == call' = [call EXCEPT !.todo = Tail(@)]

RaiseNext_believing ==
    LET c == Head(call.todo) IN
    /\ call.step = "raise" /\ call.todo # <<>>
    /\ IF c[1] \notin DOMAIN plan.warnings /\ <<"raise_warning", c[1]>> \notin receipts
       THEN /\ Write(<<"raise_warning", c[1]>>)
            /\ plan' = [plan EXCEPT !.warnings = Raised(c)]
       ELSE UNCHANGED <<plan, receipts>>
    /\ OnWithIt
    /\ UNCHANGED <<snaps, ledgers>>

\* raise_warning: inserted when there is none, reworded when it is active and names
\* another row by now, and otherwise left as it is.
RaiseNext ==
    LET c == Head(call.todo) IN
    /\ call.step = "raise" /\ call.todo # <<>>
    /\ IF c[1] \notin DOMAIN plan.warnings
       THEN /\ Write(<<"raise_warning", c[1]>>)
            /\ plan' = [plan EXCEPT !.warnings = Raised(c)]
       ELSE IF /\ plan.warnings[c[1]].state = "active"
               /\ plan.warnings[c[1]].names # c[2]
               /\ <<"reword_warning", c>> \notin receipts
            THEN /\ Write(<<"reword_warning", c>>)
                 /\ plan' = [plan EXCEPT !.warnings = Raised(c)]
            ELSE UNCHANGED <<plan, receipts>>
    /\ OnWithIt
    /\ UNCHANGED <<snaps, ledgers>>

\* The warning was raised in a plan since rewound: the insert is answered with its
\* receipt, and the run dies on a warning that is not there.
RaiseFails ==
    /\ call.step = "raise" /\ call.todo # <<>>
    /\ Head(call.todo)[1] \notin DOMAIN plan.warnings
    /\ <<"raise_warning", Head(call.todo)[1]>> \in receipts
    /\ call' = NoCall
    /\ UNCHANGED <<plan, snaps, ledgers, receipts>>

Outlived == {k \in DOMAIN plan.warnings :
                plan.warnings[k].state # "resolved" /\ k \notin LiveWarningKeys(plan)}

StartSettling ==
    /\ call.step = "raise" /\ call.todo = <<>>
    /\ call' = [call EXCEPT !.step = "settle", !.todo = SetToSeq(Outlived)]
    /\ UNCHANGED <<plan, snaps, ledgers, receipts>>

SettleNext ==
    LET k == <<"settle_warning", Head(call.todo)>> IN
    /\ call.step = "settle" /\ call.todo # <<>>
    /\ IF k \in receipts
       THEN UNCHANGED <<plan, receipts>>
       ELSE /\ Write(k)
            /\ plan' = Moved(Head(call.todo), "resolved")
    /\ OnWithIt
    /\ UNCHANGED <<snaps, ledgers>>

\* Numbered by the runs this package has on record, which no rewind takes back.
RecordRun ==
    LET n == call.package
        sequence == Cardinality({i \in DOMAIN gateRuns : gateRuns[i].package = n})
    IN  /\ call.step = "settle" /\ call.todo = <<>>
        /\ Write(<<"gate_run", n, sequence>>)
        /\ gateRuns' = Append(gateRuns, [package |-> n, passed |-> call.passed])
        /\ call' = NoCall
        /\ UNCHANGED <<plan, snaps, findings, tried, words>>

Crash ==
    /\ ~Idle
    /\ call' = NoCall
    /\ UNCHANGED <<plan, snaps, ledgers, receipts>>

\* active_warnings: what a reader is told, the owner's suppressed ones only where it is
\* critical, and none whose condition has cleared, settled yet or not.
ActiveWarnings(critical) ==
    {k \in DOMAIN plan.warnings :
        /\ plan.warnings[k].state \in {"active"} \cup (IF critical THEN {"suppressed"} ELSE {})
        /\ k \in LiveWarningKeys(plan)}

---------------------------------------------------------------------------
Edit ==
    \/ \E c \in Contents : \/ \E targets \in SUBSET DOMAIN plan.rows : SubmitRow(c, targets)
                           \/ \E r \in DOMAIN plan.rows : SupersedeRow(r, c)
    \/ \E r \in DOMAIN plan.rows : RetireRow(r) \/ ResolveAssumption(r) \/ SpikeInconclusive(r)
    \/ \E w \in Words : MarkWord(w)
    \/ TakeSnapshot
    \/ Rewind

Overlay ==
    \/ \E rule \in Rules : \E g \in Derived(plan, rule) : DismissGap(g)
    \/ \E g \in DOMAIN plan.overlay : ReopenGap(g)

Next ==
    \/ Edit
    \/ Overlay
    \/ \E r \in DOMAIN plan.rows : \/ RaiseConflict(r) \/ ResolveConflict(r)
                                   \/ \E n \in Packages : FileFinding(r, n)
    \/ \E i \in DOMAIN findings : \/ \E event \in Events : MoveFinding(i, event)
                                  \/ \E n \in Packages : ReallocateFinding(i, n)
    \/ \E k \in DOMAIN plan.warnings : SuppressWarning(k) \/ ResolveWarning(k)
    \/ \E n \in Packages : RunGate(n)
    \/ RaiseNext \/ RaiseFails \/ StartSettling \/ SettleNext \/ RecordRun
    \/ Crash

Spec == Init /\ [][Next]_vars

---------------------------------------------------------------------------
(* Properties.                                                             *)

\* A run of gate n goes on record.
Judged(n) == Len(gateRuns') > Len(gateRuns) /\ Last(gateRuns').package = n

JudgedGreen(n) == Judged(n) /\ Last(gateRuns').passed

\* state_machines:7 - an open finding can be settled: whatever was disputed, upheld,
\* accepted and disputed again, some way to an outcome has not been gone before.
AlwaysSettleable ==
    \A i \in DOMAIN findings : IsOpen(i) =>
        \E t \in Transitions :
            /\ t[1] = findings[i].state /\ t[3] \in {"addressed", "accepted_risk"}
            /\ <<"finding", i, t[2]>> \notin receipts

\* requirements:32, D15 - the last gate passes over nothing: no finding is open, no
\* conflict, and every gate before it would pass, its own lock included.
LastGateMeansDone ==
    [][JudgedGreen(Terminal) =>
        /\ \A i \in DOMAIN findings : ~IsOpen(i)
        /\ OpenConflicts(plan) = {}
        /\ \A n \in Packages : Green(plan, n)]_vars

\* D15 - no gate passes while a finding allocated to it is open, disputed ones and those
\* deferred to it included.
LocksHold ==
    [][\A n \in Packages : JudgedGreen(n) =>
        \A i \in DOMAIN findings : IsOpen(i) => findings[i].resolveBy # n]_vars

\* requirements:28 - what a gate that is not blocked says of anything but assumptions
\* rests on no contested row: it is the same without the row.
UncontestedVerdicts ==
    \A n \in Packages, r \in OpenConflicts(plan) : r \notin Blocking(plan, n) =>
        \A c \in CriteriaFor(n) : c.type \notin {"unbacked_assumption", "prior_gates_green"} =>
            Holes(plan, c) =
            Holes([plan EXCEPT !.rows[r].live = FALSE,
                               !.links = {l \in @ : r \notin {l[1], l[2]}}], c)

\* requirements:78 - a gap set aside stays aside when the row that has it is replaced by
\* one that has it too.
DismissalFollowsLineage ==
    \A g \in DOMAIN plan.overlay, h \in OpenGaps(plan, Packages) :
        (Dismissed(plan, g) /\ g[1] = h[1] /\ g[3] = h[3]) =>
            g[2] # h[2] /\ (0 \notin {g[2], h[2]} =>
                                plan.rows[g[2]].root # plan.rows[h[2]].root)

\* requirements:21 - a run that goes on record has put every condition of its package in
\* the ledger, where what a reader then asks for takes it for live unless it was resolved;
\* and one that a rewind keeps from doing so dies before it.
ConditionsOnRecord ==
    [][\A n \in Packages : Judged(n) =>
        \A c \in Conditions(plan, {n}) :
            /\ c[1] \in DOMAIN plan.warnings
            /\ plan.warnings[c[1]].state = "resolved" \/ c[1] \in ActiveWarnings(TRUE)]_vars

---------------------------------------------------------------------------
(* What the plan says of the program and the program does not do.          *)

\* requirements:21 - "WHEN a gate passes while open gaps or unresolved assumptions exist,
\* the system shall list each as an explicit warning", unless the owner suppressed it or
\* resolved it.  One that a run settled is not listed when its condition is back.
WarnedOf ==
    [][\A n \in Packages : JudgedGreen(n) =>
        \A c \in Conditions(plan, {n}) :
            \/ c[1] \in ActiveWarnings(FALSE)
            \/ {<<"suppress_warning", c[1]>>, <<"resolve_warning", c[1]>>} \cap receipts # {}]_vars
===============================================================================
