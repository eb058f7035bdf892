--------------------------------- MODULE Ledgers --------------------------------
(***************************************************************************)
(* Validation, glossary, handover and citations beside one another: they   *)
(* share the table of idempotency keys and nothing else.                   *)
(***************************************************************************)
EXTENDS Validation, Glossary, Handover, Citations

vars == <<validationVars, glossaryVars, handoverVars, citationVars, receipts>>

Init ==
    /\ ValidationInit /\ GlossaryInit /\ HandoverInit /\ CitationsInit
    /\ receipts = {}

Still == UNCHANGED <<glossaryVars, handoverVars, citationVars>>
Silent == UNCHANGED <<validationVars, handoverVars, citationVars>>
Quiet == UNCHANGED <<validationVars, glossaryVars, citationVars>>
Hushed == UNCHANGED <<validationVars, glossaryVars, handoverVars>>

Validate ==
    \/ \E a \in PlanRows : WithdrawAssumption(a) /\ Still
    \/ \E a \in PlanRows, v \in {"decided", "rejected"} : OwnerResolves(a, v) /\ Still
    \/ \E a \in PlanRows : RegisterSpike(a) /\ Still
    \/ \E i \in DOMAIN spikes : StartSpike(i) /\ Still
    \/ \E i \in DOMAIN spikes : UnblockSpike(i) /\ Still
    \/ \E i \in DOMAIN spikes, o \in {"confirmed", "refuted", "inconclusive", "blocked"} :
           RecordSpikeResult(i, o) /\ Still
    \/ ResolveAssumption /\ Still
    \/ ResolutionRefused /\ Still
    \/ ContestNext /\ Still
    \/ Return /\ Still
    \/ Die /\ Still
    \/ \E refs \in SUBSET PlanRows, k \in {"software", "scientific", "both"}, red \in BOOLEAN :
           FileClaim(refs, k, red) /\ Still
    \/ \E j \in DOMAIN claims : FenceClaim(j) /\ Still
    \/ \E j \in DOMAIN claims, t \in {"spike", "research"} : SatisfyTrack(j, t) /\ Still
    \/ \E j \in DOMAIN claims, o \in {"validated", "failed", "risk_accepted"} :
           RecordClaimOutcome(j, o) /\ Still

Name ==
    \/ \E w \in Lexicon, d \in Meanings : DefineTerm(w, d) /\ Silent
    \/ \E w \in Lexicon, d \in Meanings : RedefineTerm(w, d) /\ Silent
    \/ \E w \in Lexicon : ApproveTerm(w) /\ Silent
    \/ \E w \in Lexicon, d \in Meanings : ApproveRewritten(w, d) /\ Silent
    \/ \E w, instead \in Lexicon : RetireTerm(w, instead) /\ Silent

HandOver ==
    \/ \E p \in BuildPackages : DeclarePackage(p) /\ Quiet
    \/ \E c \in Parts, p \in BuildPackages : AssignTask(c, p) /\ Quiet
    \/ Finalize /\ Quiet
    \/ \E r \in Roots, why \in BOOLEAN : Attach(r, "plan", 0, why) /\ Quiet
    \/ \E r \in Roots, p \in packages, why \in BOOLEAN : Attach(r, "package", p, why) /\ Quiet
    \/ \E r \in Roots, c \in Parts, why \in BOOLEAN : Attach(r, "task", c, why) /\ Quiet
    \/ \E r \in Roots, s \in SubTasks, why \in BOOLEAN : Attach(r, "subtask", s, why) /\ Quiet
    \/ \E s \in SubTasks, r \in Roots : Reach(s, r) /\ Quiet
    \/ \E s \in SubTasks : Serve(s) /\ Quiet
    \/ \E s \in SubTasks : Split(s) /\ Quiet
    \/ \E s \in SubTasks, omitted \in SUBSET Roots : ComposeBrief(s, omitted) /\ Quiet
    \/ \E c \in Parts \cup {0}, x \in Intents : JournalNote(1, c, x) /\ Quiet
    \/ \E x \in Intents : SetNextAction(x) /\ Quiet

Cite ==
    \/ \E title \in Titles, text \in Texts : AddSource(title, text) /\ Hushed
    \/ \E s \in DOMAIN sources, quote \in Quotes : AddExtract(s, quote) /\ Hushed
    \/ \E s \in DOMAIN sources : RetireSource(s) /\ Hushed
    \/ \E e \in DOMAIN extracts : RetireExtract(e) /\ Hushed

Next == Validate \/ Name \/ HandOver \/ Cite

Spec == Init /\ [][Next]_vars
===============================================================================
