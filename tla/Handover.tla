-------------------------------- MODULE Handover --------------------------------
(***************************************************************************)
(* What a planning session leaves for the sessions that build: the cut of  *)
(* the plan into packages (engine/tasks.py), the rows placed at a scope    *)
(* (engine/attachments.py), the brief of each sub-task (engine/briefs.py), *)
(* its journal and next action (engine/resume.py).                         *)
(*                                                                         *)
(* Its operations are one transaction each.  Finalization creates the      *)
(* sub-tasks, each with the task it finds for the contract, or with none;  *)
(* module TaskGraph has it in detail, and the life of the sub-tasks.       *)
(***************************************************************************)
EXTENDS Idempotency, Sequences

CONSTANTS
    Parts,         \* the components of the plan: the source rows of tasks, 0 for none
    BuildPackages, \* the names packages may have
    Roots,         \* first rows of the lineages that can be placed or reached
    SubTasks,
    Intents,       \* what a session may write down
    MaxPlacements, MaxBriefs

ASSUME HandoverBounds == {MaxPlacements, MaxBriefs} \subseteq Nat
ASSUME NoPartIsZero == 0 \notin Parts

VARIABLES
    packages,      \* the packages declared
    packageOf,     \* task -> its package, "none" before it is assigned
    built,         \* the sub-tasks finalization created
    taskOf,        \* sub-task -> the task it belongs to, 0 if none
    placements,    \* [root, level, scope, from, live], in order of filing
    reach,         \* sub-task -> the rows its contract reaches by links
    serving,       \* sub-task -> its serve_epoch
    split,         \* the sub-tasks superseded
    briefs,        \* [subtask, serving, fate, live, before], fate: row -> included, omitted
    notes,         \* journal: <<package, task, text>>
    nextActions    \* the checkpoints, in order of filing

cutVars == <<packages, packageOf>>
subtaskVars == <<built, taskOf, reach, serving, split>>
journalVars == <<notes, nextActions>>
handoverVars == <<cutVars, subtaskVars, placements, briefs, journalVars>>

HandoverInit ==
    /\ packages = {} /\ packageOf = [p \in Parts |-> "none"]
    /\ built = {} /\ taskOf = [s \in SubTasks |-> 0]
    /\ placements = <<>> /\ briefs = <<>>
    /\ reach = [s \in SubTasks |-> {}]
    /\ serving = [s \in SubTasks |-> 0] /\ split = {}
    /\ notes = {} /\ nextActions = <<>>

---------------------------------------------------------------------------
(* The cut.                                                                *)

DeclarePackage(p) ==
    /\ Write(<<"package", p>>)
    /\ packages' = packages \cup {p}
    /\ UNCHANGED <<packageOf, subtaskVars, placements, briefs, journalVars>>

\* A task that returns to a package it has been in has the key of its first assignment.
AssignTask(c, p) ==
    /\ p \in packages
    /\ Write(<<"task", c, p>>)
    /\ packageOf' = [packageOf EXCEPT ![c] = p]
    /\ UNCHANGED <<packages, subtaskVars, placements, briefs, journalVars>>

\* _owning_task_id: the task of the component a contract belongs to, if it says so.
OwningTasks == Parts \cup {0}

\* A task in no package keeps the plan from being finalized.
Finalize ==
    /\ built = {}
    /\ \A c \in Parts : packageOf[c] # "none"
    /\ built' = SubTasks
    /\ taskOf' \in [SubTasks -> OwningTasks]
    /\ UNCHANGED <<cutVars, reach, serving, split, placements, briefs, journalVars, receipts>>

---------------------------------------------------------------------------
(* Placements.                                                             *)

Breadth == [plan |-> 3, package |-> 2, task |-> 1, subtask |-> 0]

\* _find: the live placement of a root.
Placed(root) == {i \in DOMAIN placements : placements[i].root = root /\ placements[i].live}

From_first(root, level) ==
    LET wider == {i \in DOMAIN placements : /\ placements[i].root = root
                                            /\ Breadth[placements[i].level] >= Breadth[level]}
    IN  IF wider # {} \/ Placed(root) = {} THEN "none"
        ELSE placements[CHOOSE i \in Placed(root) : TRUE].level

\* What a broader placement is promoted from, "none" if it is no broader than the last.
From(root, level) ==
    LET narrower == {i \in Placed(root) : Breadth[level] > Breadth[placements[i].level]}
    IN  IF narrower = {} THEN "none" ELSE placements[CHOOSE i \in narrower : TRUE].level

\* A promotion asks for a reason.  Back at a scope it has been at, a root has the key of
\* the placement that was superseded there, and stays where it is.
Attach(root, level, scope, reasoned) ==
    LET from == From(root, level) IN
    /\ Len(placements) < MaxPlacements
    /\ from # "none" => reasoned
    /\ Write(<<"attach", root, level, scope>>)
    /\ placements' =
         Append([i \in DOMAIN placements |->
                    [placements[i] EXCEPT !.live = @ /\ i \notin Placed(root)]],
                [root |-> root, level |-> level, scope |-> scope, from |-> from,
                 live |-> TRUE])
    /\ UNCHANGED <<cutVars, subtaskVars, briefs, journalVars>>

---------------------------------------------------------------------------
(* The sub-tasks, as the build moves them.                                 *)

Reach(s, root) ==
    /\ root \notin reach[s]
    /\ reach' = [reach EXCEPT ![s] = @ \cup {root}]
    /\ UNCHANGED <<cutVars, built, taskOf, serving, split, placements, briefs, journalVars, receipts>>

Serve(s) ==
    /\ s \in built \ split
    /\ Write(<<"serve", s, serving[s] + 1>>)
    /\ serving' = [serving EXCEPT ![s] = @ + 1]
    /\ UNCHANGED <<cutVars, built, taskOf, reach, split, placements, briefs, journalVars>>

Split(s) ==
    /\ s \in built \ split
    /\ split' = split \cup {s}
    /\ UNCHANGED <<cutVars, built, taskOf, reach, serving, placements, briefs, journalVars, receipts>>

---------------------------------------------------------------------------
(* Briefs.                                                                 *)

\* context_for: the live placements of every scope that encloses a sub-task.
Allocated(s) ==
    LET c == taskOf[s]
        scopes == {<<"plan", 0>>, <<"subtask", s>>}
                  \cup (IF c = 0 THEN {} ELSE {<<"task", c>>, <<"package", packageOf[c]>>})
    IN  {placements[i].root : i \in
            {j \in DOMAIN placements :
                placements[j].live /\ <<placements[j].level, placements[j].scope>> \in scopes}}

Candidates(s) == reach[s] \cup Allocated(s)

LiveBrief(s) == {i \in DOMAIN briefs : briefs[i].subtask = s /\ briefs[i].live}

Previous(s) == IF LiveBrief(s) = {} THEN 0 ELSE CHOOSE i \in LiveBrief(s) : TRUE

ComposeKey_byServing(s) == <<"compose", s, serving[s], 0>>

ComposeKey(s) == <<"compose", s, serving[s], Previous(s)>>

\* Every candidate is included or omitted with a reason; the accounting is frozen with the
\* brief, and the brief before it is superseded.
ComposeBrief(s, omitted) ==
    /\ Len(briefs) < MaxBriefs
    /\ s \in built \ split
    /\ omitted \subseteq Candidates(s)
    /\ Write(ComposeKey(s))
    /\ briefs' =
         Append([i \in DOMAIN briefs |->
                    [briefs[i] EXCEPT !.live = @ /\ i \notin LiveBrief(s)]],
                [subtask |-> s, serving |-> serving[s], live |-> TRUE, before |-> Previous(s),
                 fate |-> [r \in Candidates(s) |->
                               IF r \in omitted THEN "omitted" ELSE "included"]])
    /\ UNCHANGED <<cutVars, subtaskVars, placements, journalVars>>

\* audit_brief: what the plan has come to, and left, since a brief was composed.
DriftedIn(b) == Candidates(briefs[b].subtask) \ DOMAIN briefs[b].fate

DriftedOut(b) == DOMAIN briefs[b].fate \ Candidates(briefs[b].subtask)

---------------------------------------------------------------------------
(* The journal.                                                            *)

\* The package is the one the interview has come to; the same note in it is one note.
JournalNote(package, task, text) ==
    /\ Write(<<"journal_note", package, task, text>>)
    /\ notes' = notes \cup {<<package, task, text>>}
    /\ UNCHANGED <<cutVars, subtaskVars, placements, briefs, nextActions>>

\* An intent a session comes back to has the key of its first time: the newest
\* checkpoint, which the next session resumes from, stays the one in between.
SetNextAction(text) ==
    /\ Write(<<"set_next_action", text>>)
    /\ nextActions' = Append(nextActions, text)
    /\ UNCHANGED <<cutVars, subtaskVars, placements, briefs, notes>>

---------------------------------------------------------------------------
(* Properties.                                                             *)

\* M5 2.5 - no reach without a reason on record: from one place of a row to its next, in
\* order of filing, either the reach does not grow or the growth names what it was.
BroadeningsLogged ==
    \A j \in DOMAIN placements :
        LET root == placements[j].root
            earlier == {i \in 1..(j - 1) : placements[i].root = root}
            last == CHOOSE i \in earlier : \A k \in earlier : k <= i
        IN  earlier # {} =>
                IF Breadth[placements[j].level] > Breadth[placements[last].level]
                THEN placements[j].from = placements[last].level
                ELSE placements[j].from = "none"

\* entities:13, F26 - the briefs of a sub-task are one chain that ends in the live one,
\* and what a brief holds of the rows that are candidates now differs from them by no more
\* than its drift: whatever moved, recomposing always has a key of its own.
BriefsChain ==
    \A s \in SubTasks :
        LET of == {i \in DOMAIN briefs : briefs[i].subtask = s}
        IN  /\ \A i \in of : briefs[i].live <=> \A k \in of : k <= i
            /\ \A i \in of : briefs[i].before =
                    IF \A k \in of : k >= i THEN 0
                    ELSE CHOOSE k \in of : k < i /\ \A m \in of : m < i => m <= k
            /\ ComposeKey(s) \notin receipts
===============================================================================
