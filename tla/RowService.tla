------------------------------- MODULE RowService -------------------------------
(***************************************************************************)
(* engine/rows.py: the life of a plan row - filed in batches with a        *)
(* verdict each, resolved in place while it is an open assumption,         *)
(* superseded, retired.                                                    *)
(*                                                                         *)
(* Filing is three steps: one transaction that writes the rows, their      *)
(* links and their spikes; the quarantine directories of the spikes; the   *)
(* verdicts, annotated on the receipt.  A key whose receipt has verdicts   *)
(* is answered from it.  A key whose receipt has none, because the process *)
(* died in between, has its batch evaluated again, by the rows there are   *)
(* by then, and written not at all.                                        *)
(*                                                                         *)
(* A row is its place in `rows`.  The keys here are those of submissions;  *)
(* a supersession, retirement or resolution under a used key is refused or *)
(* writes nothing, so theirs need no place in the state.                   *)
(***************************************************************************)
EXTENDS Naturals, FiniteSets, Sequences, SequencesExt

CONSTANTS
    ParentOf,      \* the containment map: child table -> parent table
    Names,
    Batches,       \* the batches planners send, sequences of submissions
    Replacements,  \* the submissions that supersede a row
    Keys, Unkeyed, \* idempotency keys; the key of a row that no submission filed
    MaxRows        \* bound: rows filed

ASSUME RowsAreBounded  == MaxRows \in Nat
ASSUME UnkeyedIsNoKey  == Unkeyed \notin Keys

(* A submission is [table, name, kind, spike, links].  Its kind is its       *)
(* provenance with the kind of assumption it is: "decided", "intent",        *)
(* "world", or "unsaid" for an assumption that does not say.  A link is      *)
(* [type, to], to <<"row", r>> or to <<"sibling", place in the batch>>.      *)
Kinds == {"decided", "intent", "world", "unsaid"}

Submission(sub) ==
    /\ sub.name \in Names /\ sub.kind \in Kinds /\ sub.spike \in BOOLEAN
    /\ IsFiniteSet(sub.links)
    /\ \A l \in sub.links : l.to[1] \in {"row", "sibling"}

ASSUME BatchesAreOfSubmissions ==
    /\ \A b \in Batches : b \in Seq(Range(b)) /\ \A i \in DOMAIN b : Submission(b[i])
    /\ \A sub \in Replacements : Submission(sub)

VARIABLES
    rows,      \* [table, name, kind, state, supersedes, superseder, key], 0 for none
    links,     \* [source, target, type]
    spikes,    \* the rows a spike was registered with
    dirs,      \* the rows whose spike has its directory
    ledger,    \* key -> [results, verdicts], verdicts <<>> until annotated
    call       \* what remains of the call under way

vars == <<rows, links, spikes, dirs, ledger, call>>

NoCall == [step |-> "none"]

Init ==
    /\ rows = <<>> /\ links = {} /\ spikes = {} /\ dirs = {}
    /\ ledger = [k \in {} |-> 0]
    /\ call = NoCall

\* requirements:61 - the one liveness check of every reader.
LiveRow(row) == row.superseder = 0 /\ row.state # "retired"

Indexed_activeOnly(row) == row.superseder = 0 /\ row.state = "active"

\* What idx_rows_live_name ranges over.
Indexed(row) == row.superseder = 0 /\ row.state \notin {"retired", "superseded"}

Indexable(seq) ==
    \A r, s \in DOMAIN seq :
        (/\ Indexed(seq[r]) /\ Indexed(seq[s])
         /\ seq[r].table = seq[s].table /\ seq[r].name = seq[s].name) => r = s

InitialState(kind) == IF kind = "decided" THEN "active" ELSE "assumed"

NewRow(sub, old, k) ==
    [table |-> sub.table, name |-> sub.name, kind |-> sub.kind,
     state |-> InitialState(sub.kind), supersedes |-> old, superseder |-> 0, key |-> k]

---------------------------------------------------------------------------
(* The verdict on a submission, by the rows there are.                     *)

Reaches(b, i, to) ==
    IF to[1] = "row" THEN to[2] \in DOMAIN rows ELSE to[2] \in DOMAIN b \ {i}

\* _validate
Malformed(b, i) ==
    b[i].kind = "unsaid" \/ \E l \in b[i].links : ~Reaches(b, i, l.to)

TableOf(b, to) == IF to[1] = "row" THEN rows[to[2]].table ELSE b[to[2]].table

Owners(sub) == {l \in sub.links : l.type = "belongs_to"}

\* _containment_problem
Orphan(b, i) ==
    /\ b[i].table \in DOMAIN ParentOf
    /\ \/ Cardinality(Owners(b[i])) # 1
       \/ \E l \in Owners(b[i]) : TableOf(b, l.to) # ParentOf[b[i].table]

\* _duplicate_name_problem: by the batch, the rejected of it too, and by the rows.
Duplicate(b, i) ==
    \/ \E j \in 1..(i - 1) : b[j].table = b[i].table /\ b[j].name = b[i].name
    \/ \E r \in DOMAIN rows :
        LiveRow(rows[r]) /\ rows[r].table = b[i].table /\ rows[r].name = b[i].name

\* _spike_problem
SpikeProblem(sub) == sub.spike # (sub.kind = "world")

Problems(b) == {i \in DOMAIN b : Malformed(b, i) \/ Orphan(b, i) \/ Duplicate(b, i)
                                    \/ SpikeProblem(b[i])}

Rejected_once(b) ==
    Problems(b) \cup {i \in DOMAIN b : \E l \in b[i].links :
                          l.to[1] = "sibling" /\ l.to[2] \in Problems(b)}

\* A row whose sibling target is rejected is rejected with it: the smallest set that
\* has the problems and is closed under that.
Rejected(b) ==
    LET closed(S) == \A i \in DOMAIN b : \A l \in b[i].links :
                        (l.to[1] = "sibling" /\ l.to[2] \in S) => i \in S
    IN  {i \in DOMAIN b : \A S \in SUBSET DOMAIN b :
            (Problems(b) \subseteq S /\ closed(S)) => i \in S}

\* A set of places, in order.
InOrder(S) ==
    LET nth(n) == CHOOSE i \in S : Cardinality({j \in S : j <= i}) = n
    IN  [n \in 1..Cardinality(S) |-> nth(n)]

\* The places of the rows that are filed (op_index).
Filed(b) == InOrder(DOMAIN b \ Rejected(b))

\* The batch of entries: rows, then their links, then their spikes, each with the
\* place of the row it is for.
Ops(b) ==
    LET filed == Filed(b)
        LinksAt(i) == [n \in 1..Cardinality(b[i].links) |-> <<"link", i>>]
        spiked == InOrder({i \in Range(filed) : b[i].spike})
    IN  [n \in DOMAIN filed |-> <<"row", filed[n]>>]
        \o FlattenSeq([n \in DOMAIN filed |-> LinksAt(filed[n])])
        \o [n \in DOMAIN spiked |-> <<"spike", spiked[n]>>]

---------------------------------------------------------------------------
(* submit_rows.                                                            *)

\* The ref that the insert of the i-th submission is assigned.
Assigned(b, i) == Len(rows) + Cardinality({j \in Range(Filed(b)) : j <= i})

NewLinks(b) ==
    UNION {{[source |-> Assigned(b, i), type |-> l.type,
             target |-> IF l.to[1] = "row" THEN l.to[2] ELSE Assigned(b, l.to[2])]
            : l \in b[i].links} : i \in Range(Filed(b))}

Results(b) == [n \in DOMAIN Ops(b) |-> [kind |-> Ops(b)[n][1],
                                        of |-> Assigned(b, Ops(b)[n][2])]]

Written(b, k) == [n \in DOMAIN Filed(b) |-> NewRow(b[Filed(b)[n]], 0, k)]

Answering(k, b) == [step |-> "directories", key |-> k, ops |-> Ops(b), size |-> Len(b)]

New_unlessAnswered(k) == k \in DOMAIN ledger => ledger[k].verdicts = <<>>

New(k) == k \notin DOMAIN ledger

Submit(k, b) ==
    /\ call = NoCall
    /\ New(k)
    /\ Len(rows) + Len(Filed(b)) <= MaxRows
    /\ rows' = rows \o Written(b, k)
    /\ Indexable(rows')
    /\ links' = links \cup NewLinks(b)
    /\ spikes' = spikes \cup {Assigned(b, i) : i \in {j \in Range(Filed(b)) : b[j].spike}}
    /\ ledger' = [j \in DOMAIN ledger \cup {k} |->
                    IF j = k THEN [results |-> Results(b), verdicts |-> <<>>] ELSE ledger[j]]
    /\ call' = Answering(k, b)
    /\ UNCHANGED dirs

\* The same call again, its first one having died before it annotated its verdicts:
\* the receipt stands and the batch, be it the same or not, is evaluated anew.
Resubmit(k, b) ==
    /\ call = NoCall
    /\ k \in DOMAIN ledger
    /\ ledger[k].verdicts = <<>>
    /\ call' = Answering(k, b)
    /\ UNCHANGED <<rows, links, spikes, dirs, ledger>>

Stored == ledger[call.key].results

CreateDirectories_anyEntry ==
    /\ call.step = "directories"
    /\ dirs' = dirs \cup {Stored[n].of : n \in {m \in DOMAIN call.ops \cap DOMAIN Stored :
                            call.ops[m][1] = "spike"}}
    /\ call' = [call EXCEPT !.step = "annotate"]
    /\ UNCHANGED <<rows, links, spikes, ledger>>

\* _create_spike_directories: by the place of the entry in the results on record.  A
\* row's result at that place has no id; a link's names a directory of no spike.
CreateDirectories ==
    /\ call.step = "directories"
    /\ dirs' = dirs \cup {Stored[n].of : n \in {m \in DOMAIN call.ops \cap DOMAIN Stored :
                            call.ops[m][1] = "spike" /\ Stored[m].kind = "spike"}}
    /\ call' = [call EXCEPT !.step = "annotate"]
    /\ UNCHANGED <<rows, links, spikes, ledger>>

\* The rows of the evaluation, with the ref at the same place of the results.
Assignments == {n \in DOMAIN call.ops \cap DOMAIN Stored : call.ops[n][1] = "row"}

\* A result at the place of a row that is not a row's has no ref: KeyError.
Readable == \A n \in Assignments : Stored[n].kind = "row"

Verdict(i) ==
    LET at == {n \in DOMAIN call.ops : call.ops[n] = <<"row", i>>}
    IN  [accepted |-> at # {},
         ref |-> IF at \cap Assignments = {} THEN 0
                 ELSE Stored[CHOOSE n \in at : TRUE].of]

Annotate ==
    /\ call.step = "annotate"
    /\ Readable
    /\ ledger' = [ledger EXCEPT ![call.key].verdicts = [i \in 1..call.size |-> Verdict(i)]]
    /\ call' = NoCall
    /\ UNCHANGED <<rows, links, spikes, dirs>>

FailToAnnotate ==
    /\ call.step = "annotate"
    /\ ~Readable
    /\ call' = NoCall
    /\ UNCHANGED <<rows, links, spikes, dirs, ledger>>

---------------------------------------------------------------------------
(* supersede_row, retire_row, resolve_assumption.                          *)

Superseding(r, sub) ==
    Append([rows EXCEPT ![r] = [@ EXCEPT !.state = "superseded", !.superseder = Len(rows) + 1]],
           NewRow(sub, r, Unkeyed))

Supersedable_again(r, sub) == ~SpikeProblem(sub)

Supersedable_unlocked(r, sub) == rows[r].superseder = 0

\* Whatever state the row is in.
Supersedable(r, sub) == rows[r].superseder = 0 /\ ~SpikeProblem(sub)

\* The links the replacement brings are not written.
SupersedeRow(r, sub) ==
    /\ call = NoCall
    /\ r \in DOMAIN rows /\ Len(rows) < MaxRows
    /\ Supersedable(r, sub)
    /\ rows' = Superseding(r, sub)
    /\ Indexable(rows')
    /\ spikes' = spikes \cup {n \in {Len(rows')} : sub.spike}
    /\ call' = [step |-> "directory", of |-> {n \in {Len(rows')} : sub.spike}]
    /\ UNCHANGED <<links, dirs, ledger>>

CreateDirectory ==
    /\ call.step = "directory"
    /\ dirs' = dirs \cup call.of
    /\ call' = NoCall
    /\ UNCHANGED <<rows, links, spikes, ledger>>

\* Whether or not the row has been superseded.
RetireRow(r) ==
    /\ call = NoCall
    /\ r \in DOMAIN rows
    /\ rows[r].state # "retired"
    /\ rows' = [rows EXCEPT ![r].state = "retired"]
    /\ UNCHANGED <<links, spikes, dirs, ledger, call>>

Open_whatever(r) == TRUE

Open(r) == rows[r].state = "assumed" /\ rows[r].kind # "decided"

\* The name is the row's own, or one that no other live row of its table has; a
\* revision has to bring one.
ResolveAssumption(r, resolution, name) ==
    /\ call = NoCall
    /\ r \in DOMAIN rows
    /\ Open(r)
    /\ \A s \in DOMAIN rows \ {r} :
        ~(LiveRow(rows[s]) /\ rows[s].table = rows[r].table /\ rows[s].name = name)
    /\ rows' = [rows EXCEPT ![r] = [@ EXCEPT !.name = name, !.kind = "decided",
                    !.state = IF resolution = "reject" THEN "retired" ELSE "active"]]
    /\ Indexable(rows')
    /\ UNCHANGED <<links, spikes, dirs, ledger, call>>

\* The process dies between two steps of a call.
Crash ==
    /\ call # NoCall
    /\ call' = NoCall
    /\ UNCHANGED <<rows, links, spikes, dirs, ledger>>

---------------------------------------------------------------------------
Next ==
    \/ \E k \in Keys, b \in Batches : Submit(k, b) \/ Resubmit(k, b)
    \/ CreateDirectories \/ Annotate \/ FailToAnnotate
    \/ \E r \in DOMAIN rows :
        \/ \E sub \in Replacements : SupersedeRow(r, sub)
        \/ RetireRow(r)
        \/ \E resolution \in {"confirm", "revise", "reject"}, name \in Names :
              ResolveAssumption(r, resolution, name)
    \/ CreateDirectory
    \/ Crash

Spec == Init /\ [][Next]_vars

---------------------------------------------------------------------------
(* What readers make of the lineage.                                       *)

\* The first row it came from ...
LineageRoot(r) ==
    LET back[s \in DOMAIN rows] ==
            IF rows[s].supersedes = 0 THEN s ELSE back[rows[s].supersedes]
    IN  back[r]

\* ... what it has come to ...
LineageHead(r) ==
    LET on[s \in DOMAIN rows] ==
            IF rows[s].superseder = 0 THEN s ELSE on[rows[s].superseder]
    IN  on[r]

\* ... and all it has been, from the one to the other.
History(r) ==
    LET on[s \in DOMAIN rows] ==
            {s} \cup IF rows[s].superseder = 0 THEN {} ELSE on[rows[s].superseder]
    IN  on[LineageRoot(r)]

---------------------------------------------------------------------------
(* Properties.                                                             *)

States == {"assumed", "active", "superseded", "retired"}

TypeOK ==
    /\ Len(rows) <= MaxRows
    /\ \A r \in DOMAIN rows :
        /\ rows[r].name \in Names
        /\ rows[r].kind \in Kinds
        /\ rows[r].state \in States
        /\ rows[r].supersedes \in 0..(r - 1)
        /\ rows[r].superseder = 0 \/ rows[r].superseder \in (r + 1)..Len(rows)
        /\ rows[r].key \in Keys \cup {Unkeyed}
    /\ \A l \in links : {l.source, l.target} \subseteq DOMAIN rows
    /\ spikes \subseteq DOMAIN rows /\ dirs \subseteq spikes
    /\ DOMAIN ledger \subseteq Keys

\* requirements:61, decisions:42 - lineage is write-once and reads the same from both
\* ends: the way forward from where a row came from leads to the row and to where it
\* stands now.  A row marked superseded has what superseded it, so that the readers'
\* liveness and the index's are one: whatever a row went through before and after.
LineageSound ==
    \A r \in DOMAIN rows :
        /\ {r, LineageHead(r)} \subseteq History(r)
        /\ \A s \in History(r) : LineageRoot(s) = LineageRoot(r)
        /\ rows[r].superseder # 0 => rows[rows[r].superseder].supersedes = r
        /\ rows[r].supersedes # 0 => rows[rows[r].supersedes].superseder = r
        /\ LiveRow(rows[r]) <=> Indexed(rows[r])

\* M6_PLAN.md 6.5 - no two live rows of a table share a name, through every door by
\* which a row gets one: filed, revised in place, or a replacement.
OneLiveName ==
    \A r, s \in DOMAIN rows :
        (/\ LiveRow(rows[r]) /\ LiveRow(rows[s])
         /\ rows[r].table = rows[s].table /\ rows[r].name = rows[s].name) => r = s

\* decisions:43 - "a retried or replayed batch can never create duplicate rows": the
\* rows of a key are those its first call wrote, though the call died before it could
\* answer and its rows have since been renamed, superseded or retired.
WrittenOnce ==
    \A k \in Keys :
        {r \in DOMAIN rows : rows[r].key = k} =
            IF k \in DOMAIN ledger
            THEN {ledger[k].results[n].of : n \in {m \in DOMAIN ledger[k].results :
                                                    ledger[k].results[m].kind = "row"}}
            ELSE {}

\* requirements:61 - "content is never edited": a row's name and provenance change only
\* by the resolution of an open assumption, lineage is stamped once, and what has left
\* the live plan does not come back.
HistoryStands ==
    [][\A r \in DOMAIN rows :
        /\ rows[r].state # "assumed" =>
              rows'[r].name = rows[r].name /\ rows'[r].kind = rows[r].kind
        /\ rows[r].superseder # 0 => rows'[r].superseder = rows[r].superseder
        /\ ~LiveRow(rows[r]) => ~LiveRow(rows'[r])]_vars

\* DEFECTS.md F28 - no filed row is an orphan: it has its one owner, of the mandatory
\* table, although siblings it linked to, directly or by others, were rejected.
FiledRowsContained ==
    \A r \in DOMAIN rows :
        (rows[r].key # Unkeyed /\ rows[r].table \in DOMAIN ParentOf) =>
            \E owner \in {l.target : l \in {m \in links :
                                m.source = r /\ m.type = "belongs_to"}} :
                /\ rows[owner].table = ParentOf[rows[r].table]
                /\ \A l \in links : (l.source = r /\ l.type = "belongs_to")
                                        => l.target = owner

\* D16 - an open world-assumption has the spike that attacks it, by whichever of the
\* two doors it came in, and with no crash in between.
WorldAssumptionsAttacked ==
    \A r \in DOMAIN rows :
        (rows[r].state = "assumed" /\ rows[r].kind = "world") => r \in spikes
===============================================================================
