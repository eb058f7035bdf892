------------------------------- MODULE Validation -------------------------------
(***************************************************************************)
(* Uncertainty taken to the world (engine/validation.py): the spikes that  *)
(* try a world-assumption and the technical claims rows rest on.           *)
(*                                                                         *)
(* A result is recorded in several transactions: the spike's or claim's    *)
(* own, that of the assumption, one for each row contested.  `errand` is   *)
(* what remains of the call under way; a crash drops it.  The owner may    *)
(* settle or withdraw an assumption (engine/rows.py) while it is tried.    *)
(***************************************************************************)
EXTENDS Idempotency, SequencesExt

CONSTANTS
    Plans,         \* where a validation may start: [assumed, rests], the links as
                   \* <<row, what it rests on>>
    MaxSpikes, MaxClaims

ASSUME ValidationBounds == {MaxSpikes, MaxClaims} \subseteq Nat
ASSUME PlansAreFinite == \A p \in Plans : IsFiniteSet(p.assumed) /\ IsFiniteSet(p.rests)

VARIABLES
    rests,         \* the links of the plan, which do not change here
    standing,      \* row -> open (assumed, live), withdrawn (assumed, retired or
                   \* superseded), decided, rejected
    spikes,        \* [on, state, outcome]
    claims,        \* [refs, kind, state, satisfied, red, fenced]
    contested,     \* the conflicts raised: <<row, cause>>
    errand

validationVars == <<rests, standing, spikes, claims, contested, errand>>

NoErrand == [step |-> "none"]

PlanRows == DOMAIN standing

\* An assumption is filed with its first spike (RowService).
ValidationInit ==
    /\ \E p \in Plans :
        /\ rests = p.rests
        /\ standing = [r \in p.assumed \cup {l[1] : l \in p.rests} \cup {l[2] : l \in p.rests} |->
                           IF r \in p.assumed THEN "open" ELSE "decided"]
        /\ spikes = [i \in 1..Cardinality(p.assumed) |->
                        [on |-> SetToSeq(p.assumed)[i], state |-> "registered", outcome |-> "none"]]
    /\ claims = <<>> /\ contested = {}
    /\ errand = NoErrand

AtRest == errand = NoErrand

\* Links are followed whatever became of the rows at their ends.
Affected_direct(roots) == {l[1] : l \in {m \in rests : m[2] \in roots}} \ roots

\* impact: what rests on a row, through however many rows.
Affected(roots) ==
    LET within[n \in 0..Cardinality(PlanRows)] ==
            IF n = 0 THEN roots
            ELSE within[n - 1] \cup {l[1] : l \in {m \in rests : m[2] \in within[n - 1]}}
    IN  within[Cardinality(PlanRows)] \ roots

---------------------------------------------------------------------------
(* The assumption, as engine/rows.py moves it.                             *)

WithdrawAssumption(a) ==
    /\ AtRest /\ standing[a] = "open"
    /\ standing' = [standing EXCEPT ![a] = "withdrawn"]
    /\ UNCHANGED <<rests, spikes, claims, contested, errand, receipts>>

OwnerResolves(a, verdict) ==
    /\ AtRest /\ standing[a] = "open"
    /\ standing' = [standing EXCEPT ![a] = verdict]
    /\ UNCHANGED <<rests, spikes, claims, contested, errand, receipts>>

---------------------------------------------------------------------------
(* Spikes.                                                                 *)

SpikeTransitions_restarting ==
    {<<"registered", "start", "executing">>, <<"registered", "block", "blocked">>,
     <<"executing", "block", "blocked">>, <<"executing", "conclude", "concluded">>,
     <<"blocked", "unblock", "registered">>, <<"blocked", "conclude", "concluded">>}

SpikeTransitions ==
    {<<"registered", "start", "executing">>, <<"registered", "block", "blocked">>,
     <<"executing", "block", "blocked">>, <<"executing", "conclude", "concluded">>,
     <<"blocked", "unblock", "executing">>, <<"blocked", "conclude", "concluded">>}

\* Its guard is the provenance of the row, which withdrawing does not change.
RegisterSpike(a) ==
    /\ AtRest
    /\ Len(spikes) < MaxSpikes
    /\ standing[a] \in {"open", "withdrawn"}
    /\ Write(<<"register_spike", a>>)
    /\ spikes' = Append(spikes, [on |-> a, state |-> "registered", outcome |-> "none"])
    /\ UNCHANGED <<rests, standing, claims, contested, errand>>

TransitionSpike(i, event, outcome) ==
    /\ Write(<<"spike", i, event>>)
    /\ \E t \in SpikeTransitions :
        /\ t[1] = spikes[i].state /\ t[2] = event
        /\ spikes' = [spikes EXCEPT ![i] = [on |-> @.on, state |-> t[3], outcome |-> outcome]]

StartSpike(i) ==
    /\ AtRest
    /\ TransitionSpike(i, "start", spikes[i].outcome)
    /\ UNCHANGED <<rests, standing, claims, contested, errand>>

UnblockSpike(i) ==
    /\ AtRest
    /\ TransitionSpike(i, "unblock", spikes[i].outcome)
    /\ UNCHANGED <<rests, standing, claims, contested, errand>>

\* Inconclusive and blocked leave the assumption as it is.
RecordSpikeResult(i, outcome) ==
    /\ AtRest
    /\ TransitionSpike(i, IF outcome = "blocked" THEN "block" ELSE "conclude", outcome)
    /\ errand' = IF outcome \in {"confirmed", "refuted"}
                 THEN [step |-> "resolve", cause |-> <<"spike", i>>] ELSE NoErrand
    /\ UNCHANGED <<rests, standing, claims, contested>>

Tried == spikes[errand.cause[2]]

Contest(rows) == [step |-> "contest", cause |-> errand.cause, todo |-> SetToSeq(rows)]

Settle == standing' = [standing EXCEPT ![Tried.on] =
                          IF Tried.outcome = "confirmed" THEN "decided" ELSE "rejected"]

ResolveAssumption_unguarded ==
    /\ errand.step = "resolve"
    /\ Write(<<"spike_resolves", errand.cause>>)
    /\ Settle
    /\ errand' = IF Tried.outcome = "refuted" THEN Contest(Affected({Tried.on})) ELSE NoErrand
    /\ UNCHANGED <<rests, spikes, claims, contested>>

ResolveAssumption ==
    /\ errand.step = "resolve" /\ standing[Tried.on] = "open"
    /\ Write(<<"spike_resolves", errand.cause>>)
    /\ Settle
    /\ errand' = IF Tried.outcome = "refuted" THEN Contest(Affected({Tried.on})) ELSE NoErrand
    /\ UNCHANGED <<rests, spikes, claims, contested>>

\* NotAssumed: the spike keeps its outcome, and nothing is contested.
ResolutionRefused ==
    /\ errand.step = "resolve" /\ standing[Tried.on] # "open"
    /\ errand' = NoErrand
    /\ UNCHANGED <<rests, standing, spikes, claims, contested, receipts>>

\* One conflict for each row, each filed on its own.
ContestNext ==
    /\ errand.step = "contest" /\ errand.todo # <<>>
    /\ Write(<<"conflict", Head(errand.todo), errand.cause>>)
    /\ contested' = contested \cup {<<Head(errand.todo), errand.cause>>}
    /\ errand' = [errand EXCEPT !.todo = Tail(@)]
    /\ UNCHANGED <<rests, standing, spikes, claims>>

Return ==
    /\ errand.step = "contest" /\ errand.todo = <<>>
    /\ errand' = NoErrand
    /\ UNCHANGED <<rests, standing, spikes, claims, contested, receipts>>

Die ==
    /\ ~AtRest
    /\ errand' = NoErrand
    /\ UNCHANGED <<rests, standing, spikes, claims, contested, receipts>>

---------------------------------------------------------------------------
(* Claims.                                                                 *)

Tracks(kind) ==
    CASE kind = "software"   -> {"spike"}
      [] kind = "scientific" -> {"research"}
      [] kind = "both"       -> {"spike", "research"}

\* Filing routes at once.  The same claim about the same rows is one claim.
FileClaim(refs, kind, red) ==
    /\ AtRest
    /\ Len(claims) < MaxClaims
    /\ refs # {}
    /\ Write(<<"file_claim", refs, kind, red>>)
    /\ claims' = Append(claims, [refs |-> refs, kind |-> kind, state |-> "validating",
                                 satisfied |-> {}, red |-> red, fenced |-> FALSE])
    /\ UNCHANGED <<rests, standing, spikes, contested, errand>>

FenceClaim(j) ==
    /\ AtRest
    /\ Write(<<"fence_claim", j>>)
    /\ claims' = [claims EXCEPT ![j].fenced = TRUE]
    /\ UNCHANGED <<rests, standing, spikes, contested, errand>>

\* In whatever state the claim is.
SatisfyTrack(j, track) ==
    /\ AtRest
    /\ track \in Tracks(claims[j].kind)
    /\ Write(<<"satisfy_track", j, track>>)
    /\ claims' = [claims EXCEPT ![j].satisfied = @ \cup {track}]
    /\ UNCHANGED <<rests, standing, spikes, contested, errand>>

\* Filing has routed the claim: one in any state but validating is settled.
Outcomes(state) ==
    IF state = "validating" THEN {"validated", "failed", "risk_accepted"} ELSE {}

\* A failure contests the rows the claim names as well as those that rest on them.
RecordClaimOutcome(j, outcome) ==
    LET cause == <<"claim", j>>
        refs == claims[j].refs
    IN  /\ AtRest
        /\ outcome \in Outcomes(claims[j].state)
        /\ outcome = "validated" => Tracks(claims[j].kind) \subseteq claims[j].satisfied
        /\ Write(<<"record_claim_outcome", j, outcome>>)
        /\ claims' = [claims EXCEPT ![j].state = outcome]
        /\ errand' = IF outcome = "failed"
                     THEN [step |-> "contest", cause |-> cause,
                           todo |-> SetToSeq(refs \cup Affected(refs))]
                     ELSE NoErrand
        /\ UNCHANGED <<rests, standing, spikes, contested>>

---------------------------------------------------------------------------
(* Properties.                                                             *)

\* state_machines:5 - a spike that is not concluded can be: however often it was blocked
\* and taken up again, no event that would lead on has been used up.
SpikesConclude ==
    LET free(i, e) == <<"spike", i, e>> \notin receipts
    IN  \A i \in DOMAIN spikes : spikes[i].state # "concluded" =>
            \/ \E t \in SpikeTransitions :
                t[1] = spikes[i].state /\ t[3] = "concluded" /\ free(i, t[2])
            \/ \E t, u \in SpikeTransitions :
                /\ t[1] = spikes[i].state /\ free(i, t[2])
                /\ u[1] = t[3] /\ u[3] = "concluded" /\ free(i, u[2])

\* requirements:43 - a refutation, or a failed claim, whose call returns has contested
\* everything that rests on it, through however many rows, and a claim's own rows; and
\* nothing else was contested for it.
RefutationContests ==
    (errand.step = "contest" /\ errand.todo = <<>>) =>
        LET claim == errand.cause[1] = "claim"
            roots == IF claim THEN claims[errand.cause[2]].refs ELSE {Tried.on}
            all == {r \in PlanRows : <<r, errand.cause>> \in contested}
        IN  /\ \A l \in rests : l[2] \in all \cup roots => l[1] \in all \cup roots
            /\ claim => roots \subseteq all
            /\ \A r \in all \ roots : \E l \in rests : l[1] = r /\ l[2] \in all \cup roots
            /\ claim \/ standing[Tried.on] = "rejected"

\* requirements:25 - an assumption is settled once.  A second spike, or a spike that comes
\* in after the owner's answer, does not turn a verdict over or bring back what is gone.
VerdictsStand ==
    [][\A r \in PlanRows : standing[r] # "open" => standing'[r] = standing[r]]_validationVars
===============================================================================
