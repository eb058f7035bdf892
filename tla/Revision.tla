-------------------------------- MODULE Revision --------------------------------
(***************************************************************************)
(* Changing a finalized plan: engine/revision.py over the rows, their      *)
(* links (engine/graph.py), the conflicts that hold them                   *)
(* (engine/conflicts.py) and the snapshots of engine/storage.py.           *)
(*                                                                         *)
(* A revision snapshots the plan, lists the rows a change touches, walks   *)
(* the owner through that list - a modify supersedes its row there and     *)
(* then - and is applied or abandoned.  Opening, modifying and abandoning  *)
(* are two transactions each; `call` is what remains of the call under     *)
(* way.  A snapshot covers what `plan` holds.  Revisions, receipts and the *)
(* counter of conflicts are outside it, and a rewind leaves them alone.    *)
(*                                                                         *)
(* A row is its ordinal.  All rows are of one table; none is retired.      *)
(***************************************************************************)
EXTENDS Naturals, FiniteSets, Sequences

CONSTANTS
    Wordings,      \* the contents a modify may give its row
    Disputes,      \* the conflicts that may be raised: [row, about]
    Resurfaced,    \* how many accepted risks and suppressed warnings a change may touch
    MaxRows, MaxSnaps, MaxConflicts   \* bounds: rows, snapshots, conflicts

ASSUME CountsAreNumbers == Resurfaced \subseteq Nat
ASSUME DisputesAreOverRows == \A d \in Disputes : d.row \in Nat
ASSUME BoundsAreNumbers == {MaxRows, MaxSnaps, MaxConflicts} \subseteq Nat

VARIABLES
    plan,          \* [state, version, heir, links, conflicts]: heir[r] is what superseded
                   \* row r, 0 if nothing; links are <<source, target>>, conflicts
                   \* [id, row, open]
    snaps,         \* plan_versions: the plan as it was
    revisions,     \* [snapshot, from, to, state, cursor, items], items being
                   \* [kind, row, disposition, applied], 0 for no row
    nextConflict,  \* the AUTOINCREMENT counter of conflicts
    receipts,      \* idempotency: key -> what the first call under it made
    call           \* what remains of the call under way

vars == <<plan, snaps, revisions, nextConflict, receipts, call>>

NoCall == [step |-> "none"]

Rows == DOMAIN plan.heir
Live == {r \in Rows : plan.heir[r] = 0}

Init ==
    /\ plan = [state |-> "draft", version |-> 1, heir |-> <<>>, links |-> {},
               conflicts |-> {}]
    /\ snaps = <<>> /\ revisions = <<>>
    /\ nextConflict = 1
    /\ receipts = [k \in {} |-> 0]
    /\ call = NoCall

Idle == call = NoCall

Recorded(k, made) ==
    receipts' = [j \in DOMAIN receipts \cup {k} |-> IF j = k THEN made ELSE receipts[j]]

---------------------------------------------------------------------------
(* The plan, as the planning session edits it, whatever state it is in.    *)

SubmitRow(targets) ==
    /\ Idle
    /\ Len(plan.heir) < MaxRows
    /\ plan' = [plan EXCEPT !.heir = Append(@, 0),
                            !.links = @ \cup ({Len(plan.heir) + 1} \X targets)]
    /\ UNCHANGED <<snaps, revisions, nextConflict, receipts, call>>

\* The mutated form of a definition precedes it and is named after it: a plausible
\* bug, which no specification uses.
Superseded_unchained(r) == Append(plan.heir, r)

\* The replacement of r, which brings no links.
Superseded(r) == Append([plan.heir EXCEPT ![r] = Len(plan.heir) + 1], 0)

SupersedeRow(r) ==
    /\ Idle
    /\ Len(plan.heir) < MaxRows
    /\ r \in Live
    /\ plan' = [plan EXCEPT !.heir = Superseded(r)]
    /\ UNCHANGED <<snaps, revisions, nextConflict, receipts, call>>

FinalizePlan ==
    /\ Idle
    /\ plan.state = "draft"
    /\ plan' = [plan EXCEPT !.state = "finalized"]
    /\ UNCHANGED <<snaps, revisions, nextConflict, receipts, call>>

Contested(r) == \E c \in plan.conflicts : c.row = r /\ c.open

\* The key is made of the row and the dispute: what has been raised once, even in
\* a plan since rewound, is not raised again.
RaiseConflict(dispute) ==
    /\ Idle
    /\ dispute.row \in Rows
    /\ nextConflict <= MaxConflicts
    /\ <<"conflict", dispute>> \notin DOMAIN receipts
    /\ plan' = [plan EXCEPT !.conflicts = @ \cup
                    {[id |-> nextConflict, row |-> dispute.row, open |-> TRUE]}]
    /\ nextConflict' = nextConflict + 1
    /\ Recorded(<<"conflict", dispute>>, nextConflict)
    /\ UNCHANGED <<snaps, revisions, call>>

ResolveConflict(c) ==
    /\ Idle
    /\ c.open
    /\ <<"resolve", c.id>> \notin DOMAIN receipts
    /\ plan' = [plan EXCEPT !.conflicts = (@ \ {c}) \cup {[c EXCEPT !.open = FALSE]}]
    /\ Recorded(<<"resolve", c.id>>, c.id)
    /\ UNCHANGED <<snaps, revisions, nextConflict, call>>

---------------------------------------------------------------------------
(* open_revision.                                                          *)

Walking(i) == revisions[i].state = "walkthrough"

TakeSnapshot_revising ==
    snaps' = Append(snaps, [plan EXCEPT !.state = "revising", !.version = @ + 1])

TakeSnapshot == snaps' = Append(snaps, plan)

\* The plan is snapshotted as it stands, before anything of the revision is written.
OpenRevision(targets) ==
    /\ Idle
    /\ \A i \in DOMAIN revisions : ~Walking(i)
    /\ plan.state = "finalized"
    /\ targets # {} /\ targets \subseteq Live
    /\ Len(snaps) < MaxSnaps
    /\ TakeSnapshot
    /\ call' = [step |-> "open", targets |-> targets]
    /\ UNCHANGED <<plan, revisions, nextConflict, receipts>>

Affected_once(targets) ==
    {l[1] : l \in {m \in plan.links : m[2] \in targets}} \ targets

\* impact: the closure along inbound links, breadth first.
Affected(targets) ==
    LET within[n \in 0..Len(plan.heir)] ==
            IF n = 0 THEN targets
            ELSE within[n - 1] \cup {l[1] : l \in {m \in plan.links : m[2] \in within[n - 1]}}
    IN  within[Len(plan.heir)] \ targets

Undecided(kind, r) == [kind |-> kind, row |-> r, disposition |-> "none", applied |-> 0]

\* The n-th of the rows of S, by ordinal.
Nth(S, n) == CHOOSE r \in S : Cardinality({s \in S : s <= r}) = n

ItemsOver(kind, S) == [n \in 1..Cardinality(S) |-> Undecided(kind, Nth(S, n))]

\* _enumerate_repercussions: the rows of each kind in order, then what has no row.
Items(targets, resurfaced) ==
    ItemsOver("target", targets) \o ItemsOver("affected", Affected(targets))
        \o [n \in 1..resurfaced |-> Undecided("resurfaced", 0)]

StoreRevision ==
    /\ call.step = "open"
    /\ \E resurfaced \in Resurfaced :
        revisions' = Append(revisions,
            [snapshot |-> Len(snaps), from |-> plan.version, to |-> plan.version + 1,
             state |-> "walkthrough", cursor |-> 0,
             items |-> Items(call.targets, resurfaced)])
    /\ plan' = [plan EXCEPT !.state = "revising", !.version = @ + 1]
    /\ call' = NoCall
    /\ UNCHANGED <<snaps, nextConflict, receipts>>

---------------------------------------------------------------------------
(* next_repercussion and adjudicate_repercussion.  No key of these is ever *)
(* used twice but modify's: the cursor goes on and is never rewound.       *)

Presenting(i) == Walking(i) /\ revisions[i].cursor < Len(revisions[i].items)

Current(i) == revisions[i].items[revisions[i].cursor + 1]

\* _record_and_advance: one write.
Decided(i, disposition, new) ==
    LET rev == revisions[i]
        at == rev.cursor + 1
        item == [rev.items[at] EXCEPT !.disposition = disposition, !.applied = new]
    IN  [revisions EXCEPT ![i] = [rev EXCEPT !.items[at] = item, !.cursor = at]]

\* Accepted or deferred: a recorded judgment that changes no rows either way.
KeepItem(i) ==
    /\ Idle
    /\ Presenting(i)
    /\ revisions' = Decided(i, "keep", 0)
    /\ UNCHANGED <<plan, snaps, nextConflict, receipts, call>>

\* supersede_row, under a key of revision, position and wording: one it has seen,
\* in a plan since rewound, writes nothing and is answered as it was then.
ModifyItem(i, wording) ==
    LET r == Current(i).row
        k == <<"modify", i, revisions[i].cursor, wording>>
    IN  /\ Idle
        /\ Presenting(i)
        /\ r # 0
        /\ ~Contested(r)    \* a contested change is held: nothing is written
        /\ r \in Live
        /\ IF k \in DOMAIN receipts
           THEN /\ UNCHANGED <<plan, receipts>>
                /\ call' = [step |-> "record", of |-> i, new |-> receipts[k]]
           ELSE /\ Len(plan.heir) < MaxRows
                /\ plan' = [plan EXCEPT !.heir = Superseded(r)]
                /\ Recorded(k, Len(plan.heir) + 1)
                /\ call' = [step |-> "record", of |-> i, new |-> Len(plan.heir) + 1]
        /\ UNCHANGED <<snaps, revisions, nextConflict>>

RecordModify_standing ==
    /\ call.step = "record"
    /\ LET at == revisions[call.of].cursor + 1 IN
        revisions' = [revisions EXCEPT ![call.of].items[at].disposition = "modify",
                                       ![call.of].items[at].applied = call.new]
    /\ call' = NoCall
    /\ UNCHANGED <<plan, snaps, nextConflict, receipts>>

RecordModify ==
    /\ call.step = "record"
    /\ revisions' = Decided(call.of, "modify", call.new)
    /\ call' = NoCall
    /\ UNCHANGED <<plan, snaps, nextConflict, receipts>>

---------------------------------------------------------------------------
(* apply_revision, abandon_revision, and what may come in between.         *)

ApplyRevision(i) ==
    /\ Idle
    /\ Walking(i)
    /\ \A n \in DOMAIN revisions[i].items : revisions[i].items[n].disposition # "none"
    /\ revisions' = [revisions EXCEPT ![i].state = "applied"]
    /\ plan' = [plan EXCEPT !.state = "finalized"]
    /\ UNCHANGED <<snaps, nextConflict, receipts, call>>

Rewound_conflictsKept(n) == [snaps[n] EXCEPT !.conflicts = plan.conflicts]

Rewound_planKept(n) == [snaps[n] EXCEPT !.state = plan.state, !.version = plan.version]

Rewound(n) == snaps[n]

AbandonRevision_markedFirst(i) ==
    /\ Idle
    /\ Walking(i)
    /\ revisions' = [revisions EXCEPT ![i].state = "abandoned"]
    /\ call' = [step |-> "abandon", of |-> i]
    /\ UNCHANGED <<plan, snaps, nextConflict, receipts>>

\* The confirmed call: first the plan goes back, then the revision is marked.
AbandonRevision(i) ==
    /\ Idle
    /\ Walking(i)
    /\ plan' = Rewound(revisions[i].snapshot)
    /\ call' = [step |-> "abandon", of |-> i]
    /\ UNCHANGED <<snaps, revisions, nextConflict, receipts>>

MarkAbandoned ==
    /\ call.step = "abandon"
    /\ revisions' = [revisions EXCEPT ![call.of].state = "abandoned"]
    /\ call' = NoCall
    /\ UNCHANGED <<plan, snaps, nextConflict, receipts>>

\* recover("restore") knows nothing of revisions: the newest snapshot.
Recover ==
    /\ Idle
    /\ snaps # <<>>
    /\ plan' = Rewound(Len(snaps))
    /\ UNCHANGED <<snaps, revisions, nextConflict, receipts, call>>

Crash ==
    /\ ~Idle
    /\ call' = NoCall
    /\ UNCHANGED <<plan, snaps, revisions, nextConflict, receipts>>

---------------------------------------------------------------------------
Next ==
    \/ \E targets \in SUBSET Rows : SubmitRow(targets) \/ OpenRevision(targets)
    \/ \E r \in Rows : SupersedeRow(r)
    \/ \E dispute \in Disputes : RaiseConflict(dispute)
    \/ \E c \in plan.conflicts : ResolveConflict(c)
    \/ FinalizePlan \/ StoreRevision \/ RecordModify \/ MarkAbandoned
    \/ \E i \in DOMAIN revisions :
        \/ KeepItem(i) \/ ApplyRevision(i) \/ AbandonRevision(i)
        \/ \E wording \in Wordings : ModifyItem(i, wording)
    \/ Recover
    \/ Crash

Spec == Init /\ [][Next]_vars

---------------------------------------------------------------------------
(* Properties.                                                             *)

TypeOK ==
    /\ plan.state \in {"draft", "finalized", "revising"}
    /\ plan.version \in Nat
    /\ \A r \in Rows : plan.heir[r] = 0 \/ plan.heir[r] \in (r + 1)..Len(plan.heir)
    /\ plan.links \subseteq Rows \X Rows
    /\ \A i \in DOMAIN revisions :
        /\ revisions[i].snapshot \in DOMAIN snaps
        /\ revisions[i].state \in {"walkthrough", "applied", "abandoned"}
        /\ revisions[i].cursor <= Len(revisions[i].items)
    /\ call.step \in {"none", "open", "record", "abandon"}

\* _record_and_advance: "the cursor never points at an item already decided", nor
\* past one that is not, whatever was held, cut short, retried or rewound.
WalkedInOrder ==
    \A i \in DOMAIN revisions : \A n \in DOMAIN revisions[i].items :
        revisions[i].items[n].disposition # "none" <=> n <= revisions[i].cursor

\* requirements:53 - a revision marked abandoned leaves the plan, conflicts and version
\* included, as it was when the revision opened, although the call that abandoned it
\* may have died before, and the plan been edited in between.
AbandonedIsUndone ==
    [][\A i \in DOMAIN revisions :
        (Walking(i) /\ revisions'[i].state = "abandoned")
            => plan' = snaps[revisions[i].snapshot]]_vars

\* state_machines:1 - a plan under revision has the open revision that can end it, and
\* the version that revision gave it; no rewind brings back a revision that is over.
RevisingHasItsRevision ==
    plan.state = "revising" =>
        \E i \in DOMAIN revisions : Walking(i) /\ plan.version = revisions[i].to

\* While the plan is under revision, what the record says was applied is in the plan:
\* the row has been superseded, by the row the record names.
AppliedIsReal ==
    plan.state = "revising" =>
        \A i \in DOMAIN revisions : Walking(i) =>
            \A n \in DOMAIN revisions[i].items :
                revisions[i].items[n].applied # 0 =>
                    plan.heir[revisions[i].items[n].row] = revisions[i].items[n].applied

\* The snapshot covers what hangs together: no rewind leaves a conflict contesting a row
\* that does not exist, which would block its gates for ever (storage.recover).
ConflictsContestRows == \A c \in plan.conflicts : c.row \in Rows

\* requirements:55, F26 - the list of a revision is the rows to change and every row that
\* rests on one of them, directly or not: the smallest such set closed under links.
ImpactComplete ==
    \A i \in DOMAIN revisions :
        LET then == snaps[revisions[i].snapshot]
            named(kinds) == {revisions[i].items[n].row : n \in
                {m \in DOMAIN revisions[i].items : revisions[i].items[m].kind \in kinds}}
            closed(S) == \A l \in then.links : l[2] \in S => l[1] \in S
        IN  /\ closed(named({"target", "affected"}))
            /\ \A S \in SUBSET DOMAIN then.heir :
                (named({"target"}) \subseteq S /\ closed(S)) =>
                    named({"affected"}) \subseteq S

---------------------------------------------------------------------------
(* What the plan says of the program and the program does not do.          *)

\* sm_cells:56 - an open conflict can be resolved: its resolution has not been
\* written under a key before.
OpenConflictsResolvable ==
    \A c \in plan.conflicts : c.open => <<"resolve", c.id>> \notin DOMAIN receipts

\* apply_revision: "the plan's new version goes live" - when a revision is applied the
\* plan is at the version the revision made.
AppliedIsLive ==
    [][\A i \in DOMAIN revisions :
        (Walking(i) /\ revisions'[i].state = "applied")
            => plan'.version = revisions[i].to]_vars
===============================================================================
