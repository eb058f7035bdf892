------------------------------- MODULE TaskGraph -------------------------------
(***************************************************************************)
(* The build half of a plan: engine/tasks.py (finalize_plan, serve_brief,  *)
(* verify_completion, report_status), engine/briefs.py (split_subtask) and *)
(* engine/obligations.py, over the contract rows of engine/rows.py.        *)
(*                                                                         *)
(* The engine answers one call at a time.  Finalizing, serving and         *)
(* splitting are several transactions each: `call` is what remains of the  *)
(* call under way, and nothing but a crash comes between its transactions. *)
(* Every transaction carries an idempotency key; one whose key is taken    *)
(* writes nothing (storage.write_atomic's replay).                         *)
(*                                                                         *)
(* A duty is an obligation, named by its contract and its place in it.     *)
(* The gates, findings and packaging that finalize_plan consults first can *)
(* only refuse it: here it may simply not be called.                       *)
(***************************************************************************)
EXTENDS Naturals, FiniteSets, Sequences, Functions

CONSTANTS
    Contracts,    \* bound: contract rows, by ordinal
    Ids,          \* bound: sub-tasks, by id
    Duties,       \* duties a contract row may declare, as <<contract, place>>
    Surfaces,     \* how many duties one contract may declare
    MaxServings,  \* bound: servings, of all sub-tasks together
    Events,       \* what the code engine reports (ENGINE_EVENTS or fewer)
    Crashes, Shortfalls, Overlaps, Amends, Redrafts
                  \* whether the process may die; evidence may fall short; a split
                  \* may assign a duty twice or nothing to a part; the surface may be
                  \* amended; contract rows may be superseded and retired

ASSUME IdsAreNumbers  == Ids \subseteq Nat \ {0}
ASSUME ContractsAreNumbers == Contracts \subseteq Nat \ {0}
ASSUME DutiesAreNamed == Duties \subseteq Contracts \X Nat
ASSUME EventsAreReports == Events \subseteq {"complete", "block", "unblock", "flag_rework"}
ASSUME FlagsAreFlags  == {Crashes, Shortfalls, Overlaps, Amends, Redrafts} \subseteq BOOLEAN

VARIABLES
    drafted,      \* the contract rows submitted
    surface,      \* how many duties each declares
    heir,         \* superseded_by of a contract row, 0 while it has none
    retired,      \* the contract rows retired
    depends,      \* depends_on links, <<consumer, provider>>
    finalized,    \* the plan has left draft
    state,        \* stored state of a sub-task, "absent" before it is created
    contract,     \* contract_ref
    epoch,        \* serve_epoch
    superseder,   \* superseded_by of a sub-task, 0 while it is live
    deps,         \* subtask_deps, as the set of ids each sub-task waits for
    owns,         \* live obligation_ownership, <<sub-task, duty>>
    amended,      \* duties added after finalization
    dropped,      \* duties retired after finalization
    verdicts,     \* subtask_verifications
    baselines,    \* whom a workspace fingerprint was captured for, 0 the plan
    keys,         \* idempotency keys used
    call          \* what remains of the call under way

draftVars == <<drafted, surface, heir, retired, depends>>
taskVars  == <<state, contract, epoch, superseder, deps>>
dutyVars  == <<owns, amended, dropped>>
vars == <<draftVars, finalized, taskVars, dutyVars, verdicts, baselines, keys, call>>

StoredStates == {"pending", "in_progress", "blocked", "done", "rework_flagged"}

\* _TRANSITIONS: <<presented state, event, next stored state>>.
Transitions == {
    <<"pending",        "block",       "blocked">>,
    <<"ready",          "serve_brief", "in_progress">>,
    <<"ready",          "block",       "blocked">>,
    <<"in_progress",    "serve_brief", "in_progress">>,
    <<"in_progress",    "complete",    "done">>,
    <<"in_progress",    "block",       "blocked">>,
    <<"blocked",        "unblock",     "pending">>,
    <<"done",           "flag_rework", "rework_flagged">>,
    <<"rework_flagged", "block",       "blocked">> }

NoCall == [kind |-> "none"]

Present == {i \in Ids : state[i] # "absent"}
Live    == {i \in Present : superseder[i] = 0}
LiveContracts == {c \in drafted : heir[c] = 0 /\ c \notin retired}

Init ==
    /\ drafted = {} /\ retired = {} /\ depends = {}
    /\ surface = [c \in Contracts |-> 0]
    /\ heir = [c \in Contracts |-> 0]
    /\ finalized = FALSE
    /\ state = [i \in Ids |-> "absent"]
    /\ contract = [i \in Ids |-> 0]
    /\ epoch = [i \in Ids |-> 0]
    /\ superseder = [i \in Ids |-> 0]
    /\ deps = [i \in Ids |-> {}]
    /\ owns = {} /\ amended = {} /\ dropped = {}
    /\ verdicts = {} /\ baselines = {} /\ keys = {}
    /\ call = NoCall

---------------------------------------------------------------------------
(* The contract rows, before the graph is derived from them: rows edited   *)
(* later do not reach it, since finalizing again only replays.             *)

Drafting == ~finalized /\ call = NoCall

\* The next n ordinals.
Fresh(n) == {c \in Contracts \ drafted :
                Cardinality({d \in Contracts \ drafted : d <= c}) <= n}

\* submit_rows: a link reaches rows that exist or come in the same batch.
SubmitContracts(n, links, sizes) ==
    /\ Drafting
    /\ Cardinality(Fresh(n)) = n
    /\ links \subseteq Fresh(n) \X (drafted \cup Fresh(n))
    /\ \A l \in links : l[1] # l[2]
    /\ drafted' = drafted \cup Fresh(n)
    /\ depends' = depends \cup links
    /\ surface' = [c \in Contracts |-> IF c \in Fresh(n) THEN sizes[c] ELSE surface[c]]
    /\ UNCHANGED <<heir, retired, finalized, taskVars, dutyVars, verdicts,
                   baselines, keys, call>>

\* supersede_row: the replacement is a row of its own, filed without links.
SupersedeContract(c, size) ==
    /\ Redrafts /\ Drafting
    /\ c \in drafted /\ heir[c] = 0
    /\ \E new \in Fresh(1) :
        /\ drafted' = drafted \cup {new}
        /\ heir' = [heir EXCEPT ![c] = new]
        /\ surface' = [surface EXCEPT ![new] = size]
    /\ UNCHANGED <<retired, depends, finalized, taskVars, dutyVars, verdicts,
                   baselines, keys, call>>

RetireContract(c) ==
    /\ Redrafts /\ Drafting
    /\ c \in drafted \ retired
    /\ retired' = retired \cup {c}
    /\ UNCHANGED <<drafted, surface, heir, depends, finalized, taskVars, dutyVars,
                   verdicts, baselines, keys, call>>

---------------------------------------------------------------------------
(* finalize_plan.                                                          *)

\* _derive_edges: links between live contract rows, and no others.
Edges == {l \in depends : {l[1], l[2]} \subseteq LiveContracts}

\* Mutated forms, which stand for plausible bugs and which no specification uses,
\* precede the definition they mutate and are named after it.
Sortable_unchecked == TRUE

\* _toposort succeeds: no set of contracts all wait on one another.
Sortable == \A S \in SUBSET LiveContracts \ {{}} :
                \E c \in S : \A d \in S : <<c, d>> \notin Edges

NewIds_fromOne(S) == {f \in [S -> 1..Cardinality(S)] : \A x, y \in S : x < y => f[x] < f[y]}

\* The ids that inserts into subtasks get, one for each of S and in its order: the
\* lowest there are.
NewIds(S) ==
    LET free == {i \in Ids \ Present :
                    Cardinality({j \in Ids \ Present : j <= i}) <= Cardinality(S)}
    IN  {f \in [S -> free] : \A x, y \in S : x < y => f[x] < f[y]}

\* Sub-tasks `pending` at the ids of f, each for the contract For gives it.
Created(f, For(_)) ==
    /\ state' = [i \in Ids |-> IF i \in Range(f) THEN "pending" ELSE state[i]]
    /\ contract' = [i \in Ids |-> IF i \in Range(f)
                                  THEN For(CHOOSE x \in DOMAIN f : f[x] = i)
                                  ELSE contract[i]]

\* The duties frozen with a sub-task: those its contract row declares.
Declared(c) == {d \in Duties : d[1] = c /\ d[2] <= surface[c]}

Captured == <<"fingerprint", 0>> \in keys

\* One sub-task per live contract row.  Finalizing again once all three keys are used
\* writes nothing and changes no state: that call is left out.
FinalizeNodes ==
    /\ call = NoCall
    /\ ~Captured
    /\ Sortable
    /\ IF <<"finalize", "nodes">> \in keys
       THEN UNCHANGED <<state, contract, owns, keys>>
       ELSE /\ \E node \in NewIds(LiveContracts) :
                /\ Created(node, LAMBDA c : c)
                /\ owns' = owns \cup
                      UNION {{node[c]} \X Declared(c) : c \in LiveContracts}
            /\ keys' = keys \cup {<<"finalize", "nodes">>}
    /\ call' = [kind |-> "finalize", edges |-> Edges]
    /\ UNCHANGED <<draftVars, finalized, epoch, superseder, deps, amended, dropped,
                   verdicts, baselines>>

\* The dictionary from contract to sub-task: the last live one wins.
NodeOf(c) == {i \in Live : contract[i] = c /\ \A j \in Live : contract[j] = c => j <= i}

Resolved == \A l \in call.edges : NodeOf(l[1]) # {} /\ NodeOf(l[2]) # {}

FinalizeEdges ==
    /\ call.kind = "finalize"
    /\ Resolved
    /\ IF <<"finalize", "edges">> \in keys
       THEN UNCHANGED <<deps, finalized, keys>>
       ELSE /\ deps' = [i \in Ids |-> deps[i] \cup
                            UNION {NodeOf(l[2]) : l \in {m \in call.edges : i \in NodeOf(m[1])}}]
            /\ finalized' = TRUE
            /\ keys' = keys \cup {<<"finalize", "edges">>}
    /\ call' = [kind |-> "capture", of |-> 0]
    /\ UNCHANGED <<draftVars, state, contract, epoch, superseder, dutyVars, verdicts,
                   baselines>>

\* A retry after a crash, whose contracts are no longer those of the nodes: KeyError.
FinalizeUnresolved ==
    /\ call.kind = "finalize"
    /\ ~Resolved
    /\ call' = NoCall
    /\ UNCHANGED <<draftVars, finalized, taskVars, dutyVars, verdicts, baselines, keys>>

\* _capture_fingerprint, keyed by occasion, sub-task and plan version alone: the
\* first capture stands.
CaptureFingerprint ==
    /\ call.kind = "capture"
    /\ baselines' = baselines \cup {call.of}
    /\ keys' = keys \cup {<<"fingerprint", call.of>>}
    /\ call' = NoCall
    /\ UNCHANGED <<draftVars, finalized, taskVars, dutyVars, verdicts>>

---------------------------------------------------------------------------
(* Serving, verifying, reporting.                                          *)

DepsSatisfied(i) == \A d \in deps[i] : state[d] = "done"

\* readiness_of: `ready` is derived at every reading and never stored.
Presented(i) ==
    IF state[i] \in {"pending", "rework_flagged"} /\ DepsSatisfied(i)
    THEN "ready" ELSE state[i]

Step(i, event, next) == <<Presented(i), event, next>> \in Transitions

Servings == {k \in keys : k[1] = "serve"}

Serve(i) ==
    /\ call = NoCall
    /\ i \in Live
    /\ Step(i, "serve_brief", "in_progress")
    /\ Cardinality(Servings) < MaxServings
    /\ <<"serve", i, epoch[i] + 1>> \notin keys
    /\ state' = [state EXCEPT ![i] = "in_progress"]
    /\ epoch' = [epoch EXCEPT ![i] = @ + 1]
    /\ keys' = keys \cup {<<"serve", i, epoch[i] + 1>>}
    /\ call' = [kind |-> "capture", of |-> i]
    /\ UNCHANGED <<draftVars, finalized, contract, superseder, deps, dutyVars,
                   verdicts, baselines>>

\* for_subtask: live ownership of live obligations.
Owed(i) == {d \in Duties \ dropped : <<i, d>> \in owns}

\* Evidence for some of what is owed.  A sub-task that owes nothing is refused.
Verify(i, evidence) ==
    /\ call = NoCall
    /\ Shortfalls \/ evidence = Owed(i)
    /\ i \in Live
    /\ state[i] = "in_progress"
    /\ Owed(i) # {}
    /\ <<"verify", i, epoch[i]>> \notin keys
    /\ verdicts' = verdicts \cup
           {[task |-> i, epoch |-> epoch[i], evidence |-> evidence,
             pass |-> Owed(i) \subseteq evidence]}
    /\ keys' = keys \cup {<<"verify", i, epoch[i]>>}
    /\ UNCHANGED <<draftVars, finalized, taskVars, dutyVars, baselines, call>>

Passed_anyServing(i) == \E v \in verdicts : v.task = i /\ v.pass

\* passing_verdict: a pass of the current serving, not of an earlier one.
Passed(i) == \E v \in verdicts : v.task = i /\ v.epoch = epoch[i] /\ v.pass

\* The key is <<"report", i, event, stored state>>: a second such report of a
\* sub-task is answered with the first one's receipt and changes nothing.
Report(i, event) ==
    /\ call = NoCall
    /\ i \in Live
    /\ event = "complete" => Passed(i)
    /\ <<"report", i, event, state[i]>> \notin keys
    /\ \E next \in StoredStates :
        /\ Step(i, event, next)
        /\ state' = [state EXCEPT ![i] = next]
    /\ keys' = keys \cup {<<"report", i, event, state[i]>>}
    /\ UNCHANGED <<draftVars, finalized, contract, epoch, superseder, deps, dutyVars,
                   verdicts, baselines, call>>

---------------------------------------------------------------------------
(* split_subtask.  shares[n] is what the n-th new sub-task is to own.      *)

\* Owned jointly, and nothing that is not owed; whether a duty goes to two
\* parts, or none to one, is not looked at.
Shared(i, shares) ==
    /\ UNION {shares[n] : n \in DOMAIN shares} = Owed(i)
    /\ ~Overlaps => /\ \A n \in DOMAIN shares : shares[n] # {}
                    /\ \A m, n \in DOMAIN shares : m # n => shares[m] \cap shares[n] = {}

SplitNodes(i, shares) ==
    /\ call = NoCall
    /\ i \in Live
    /\ Len(shares) >= 2
    /\ Owed(i) # {}
    /\ Shared(i, shares)
    /\ <<"split", i, "nodes">> \notin keys
    /\ \E node \in NewIds(DOMAIN shares) :
        /\ Created(node, LAMBDA n : contract[i])
        /\ call' = [kind |-> "split", of |-> i, first |-> node[1], parts |-> Range(node),
                    share |-> [j \in Range(node) |->
                                  shares[CHOOSE n \in DOMAIN shares : node[n] = j]]]
    /\ keys' = keys \cup {<<"split", i, "nodes">>}
    /\ UNCHANGED <<draftVars, finalized, epoch, superseder, deps, dutyVars, verdicts,
                   baselines>>

\* idx_obligation_live_owner: no duty has two live owners.
OwnedOnce(S) == \A p, q \in S : p[2] = q[2] => p[1] = q[1]

Redistributed ==
    {p \in owns : p[1] # call.of} \cup
    {p \in call.parts \X Duties : p[2] \in call.share[p[1]]}

Indexable_unchecked == TRUE

Indexable == OwnedOnce(Redistributed)

Rewired_staleEdge ==
    [j \in Ids |-> IF j \in call.parts THEN deps[call.of]
                   ELSE IF call.of \in deps[j] THEN deps[j] \cup call.parts
                   ELSE deps[j]]

Rewired_firstOnly ==
    [j \in Ids |-> IF j \in call.parts THEN deps[call.of]
                   ELSE IF call.of \in deps[j] THEN (deps[j] \ {call.of}) \cup {call.first}
                   ELSE deps[j]]

\* The parts wait for what the sub-task waited for; who waited for it waits for them.
Rewired ==
    [j \in Ids |-> IF j \in call.parts THEN deps[call.of]
                   ELSE IF call.of \in deps[j] THEN (deps[j] \ {call.of}) \cup call.parts
                   ELSE deps[j]]

SplitWiring ==
    /\ call.kind = "split"
    /\ Indexable
    /\ superseder' = [superseder EXCEPT ![call.of] = call.first]
    /\ deps' = Rewired
    /\ owns' = Redistributed
    /\ keys' = keys \cup {<<"split", call.of, "wiring">>}
    /\ call' = NoCall
    /\ UNCHANGED <<draftVars, finalized, state, contract, epoch, amended, dropped,
                   verdicts, baselines>>

\* The index refuses the wiring; the nodes are committed already.
SplitRefused ==
    /\ call.kind = "split"
    /\ ~Indexable
    /\ call' = NoCall
    /\ UNCHANGED <<draftVars, finalized, taskVars, dutyVars, verdicts, baselines, keys>>

---------------------------------------------------------------------------
(* amend, and the crash.                                                   *)

AmendRetire(d) ==
    /\ Amends /\ call = NoCall
    /\ \E p \in owns : p[2] = d
    /\ <<"amend", d[1], "retired", d>> \notin keys
    /\ dropped' = dropped \cup {d}
    /\ keys' = keys \cup {<<"amend", d[1], "retired", d>>}
    /\ UNCHANGED <<draftVars, finalized, taskVars, owns, amended, verdicts,
                   baselines, call>>

\* A duty is added to a live sub-task of its contract; the key has no place in
\* it for the duty, so that a contract's surface grows once.
AmendAdd(i, d) ==
    /\ Amends /\ call = NoCall
    /\ i \in Live /\ contract[i] = d[1]
    /\ d \notin dropped
    /\ \A p \in owns : p[2] # d
    /\ <<"amend", d[1], "added", 0>> \notin keys
    /\ owns' = owns \cup {<<i, d>>}
    /\ amended' = amended \cup {d}
    /\ keys' = keys \cup {<<"amend", d[1], "added", 0>>}
    /\ UNCHANGED <<draftVars, finalized, taskVars, dropped, verdicts, baselines, call>>

\* The process dies between two transactions of a call.
Crash ==
    /\ Crashes
    /\ call # NoCall
    /\ call' = NoCall
    /\ UNCHANGED <<draftVars, finalized, taskVars, dutyVars, verdicts, baselines, keys>>

---------------------------------------------------------------------------
\* Inputs.  Evidence comes for everything owed, or for all of it but one duty; the
\* first of two parts is the one that gets that duty, two parts being alike.
Partial(i) == {d \in Owed(i) : \E e \in Owed(i) : e[2] < d[2]}

Draft ==
    \/ \E n \in 1..Cardinality(Contracts), sizes \in [Contracts -> Surfaces] :
         \E links \in SUBSET (Contracts \X Contracts) : SubmitContracts(n, links, sizes)
    \/ \E c \in Contracts, size \in Surfaces : SupersedeContract(c, size)
    \/ \E c \in Contracts : RetireContract(c)

Finalize == FinalizeNodes \/ FinalizeEdges \/ FinalizeUnresolved

Split ==
    \/ \E i \in Ids : \E S, T \in SUBSET Owed(i) :
         Owed(i) \ Partial(i) \subseteq S /\ SplitNodes(i, <<S, T>>)
    \/ SplitWiring
    \/ SplitRefused

Amend ==
    \/ \E d \in Duties : AmendRetire(d)
    \/ \E i \in Ids, d \in Duties : AmendAdd(i, d)

Next ==
    \/ Draft
    \/ Finalize
    \/ CaptureFingerprint
    \/ \E i \in Ids : Serve(i)
    \/ \E i \in Ids : \E evidence \in {Owed(i), Partial(i)} : Verify(i, evidence)
    \/ \E i \in Ids, event \in Events : Report(i, event)
    \/ Split
    \/ Amend
    \/ Crash

Spec == Init /\ [][Next]_vars

\* The build engine's diligence: a call under way goes on, and as long as something
\* can be served, accounted for in full, completed or unblocked, it is not left
\* undone for ever.
Build == \E i \in Ids : \/ Serve(i) \/ Verify(i, Owed(i))
                       \/ Report(i, "complete") \/ Report(i, "unblock")

Resume == FinalizeEdges \/ CaptureFingerprint \/ SplitWiring

Fairness == WF_vars(Resume) /\ WF_vars(Build)

FairSpec == Spec /\ Fairness

---------------------------------------------------------------------------
(* Properties.                                                             *)

Calls == {"none", "finalize", "capture", "split"}

TypeOK ==
    /\ drafted \subseteq Contracts /\ retired \subseteq drafted
    /\ depends \subseteq drafted \X drafted
    /\ finalized \in BOOLEAN
    /\ state \in [Ids -> StoredStates \cup {"absent"}]
    /\ epoch \in [Ids -> Nat]
    /\ superseder \in [Ids -> Ids \cup {0}]
    /\ deps \in [Ids -> SUBSET Ids]
    /\ owns \subseteq Ids \X Duties
    /\ amended \subseteq Duties /\ dropped \subseteq Duties
    /\ verdicts \subseteq [task : Ids, epoch : Nat, evidence : SUBSET Duties, pass : BOOLEAN]
    /\ call.kind \in Calls
    /\ call.kind = "split" => /\ call.of \in Present
                             /\ call.parts \subseteq Present
                             /\ call.first \in call.parts
                             /\ call.of \notin call.parts

\* What a sub-task had to account for when its plan was finalized or it was split.
Frozen(i) == {d \in Owed(i) : d \notin amended}

\* contracts:60 and 62, decisions:14 - a done sub-task has a passing verdict of the
\* serving it was done in, whose evidence covers everything it owns, whatever
\* was re-served, reworked, split, amended, retried or cut short by a crash.
DoneIsAccounted ==
    \A i \in Ids : state[i] = "done" =>
        \E v \in verdicts : /\ v.task = i /\ v.epoch = epoch[i] /\ v.pass
                           /\ Frozen(i) \subseteq v.evidence

\* schema.py: "every obligation is owned by exactly one live sub-task" - of its own
\* contract, before, during and after every split, also one that fails half-way.
OneLiveOwner ==
    /\ OwnedOnce(owns)
    /\ \A p \in owns : p[1] \in Live /\ contract[p[1]] = p[2][1]

\* DEFECTS.md F25: while the build is unfinished somebody can move - no live
\* sub-task waits for one that left the graph, and not all wait on one another.
NeverAllWaiting ==
    (finalized /\ \E i \in Live : state[i] # "done") =>
        \E i \in Live : Presented(i) \in {"ready", "in_progress", "blocked"}

\* requirements:34 - the first serving of a sub-task finds everything built that
\* the contracts its own contract depends on were split into.
ServedInOrder ==
    [][\A i, j \in Ids :
        (epoch[i] = 0 /\ epoch'[i] = 1 /\ j \in Live /\ <<contract[i], contract[j]>> \in depends)
            => state[j] = "done"]_vars

\* A legal report whose key an earlier one has used.
Swallowed(i) == \E event \in Events :
    /\ <<"report", i, event, state[i]>> \in keys
    /\ \E next \in StoredStates : Step(i, event, next)

\* The bound on servings is reached by a sub-task that needs another one.
Exhausted(i) ==
    /\ Cardinality(Servings) = MaxServings
    /\ \/ Presented(i) = "ready"
       \/ ~Passed(i) /\ <<"verify", i, epoch[i]>> \in keys

\* A finalized plan is built to its end by a diligent engine, however it is split,
\* blocked and re-served, unless a report is swallowed.
BuildFinishes ==
    finalized ~> \/ \A i \in Live : state[i] = "done"
                 \/ \E i \in Live : Swallowed(i) \/ Exhausted(i)

---------------------------------------------------------------------------
(* What the plan says of the program and the program does not do.          *)

\* sm_cells:144, in_progress - complete -> done: once its evidence has passed, a
\* diligent engine gets its sub-task out of in_progress.
CompletionRecorded ==
    \A i \in Ids :
        (i \in Live /\ state[i] = "in_progress" /\ Passed(i))
            ~> ~(i \in Live /\ state[i] = "in_progress")
===============================================================================
