------------------------------ MODULE AtomicStore ------------------------------
(***************************************************************************)
(* What the storage engine promises the services above it                  *)
(* (requirements:6, decisions:43, decisions:45): a batch happens at once   *)
(* or not at all, a key is applied at most once and answers with its first *)
(* receipt for ever, a snapshot is the plan at one instant, a recovery     *)
(* puts back such an instant, drops rows or clears the plan, and the       *)
(* schema moves one version at a time.                                     *)
(***************************************************************************)
EXTENDS StoreOps

CONSTANTS Sessions, Keys, Batches, Schemas, NoAnswer, Unavailable, Broken

VARIABLES plan,       \* the rows, links and schema version every reader sees
          receipts,   \* key -> the results its batch was answered with
          snaps,      \* the snapshots taken so far
          answer      \* what each session has been told and not yet acted on

vars == <<plan, receipts, snaps, answer>>

Answered(k, results, replayed) ==
    [key |-> k, results |-> results, replayed |-> replayed]

\* The whole batch, entry after entry; the empty sequence when one is refused.
Run(b) ==
    LET run[n \in 0..Len(b)] ==
            IF n = 0 THEN <<Begun(plan)>>
            ELSE IF run[n - 1] = <<>> \/ ~Accepted(run[n - 1][1], b[n]) THEN <<>>
            ELSE <<ApplyOp(run[n - 1][1], b[n])>>
    IN  run[Len(b)]

Init ==
    /\ plan \in {EmptyPlan(v) : v \in Schemas}
    /\ receipts = EmptyFcn
    /\ snaps = <<>>
    /\ answer = [s \in Sessions |-> NoAnswer]

Write(s, k, b) ==
    /\ k \notin DOMAIN receipts
    /\ Run(b) # <<>>
    /\ LET w == Run(b)[1] IN
        /\ plan' = w.plan
        /\ receipts' = Put(receipts, k, w.results)
        /\ answer' = [answer EXCEPT ![s] = Answered(k, w.results, FALSE)]
    /\ UNCHANGED snaps

Replay(s, k) ==
    /\ k \in DOMAIN receipts
    /\ answer' = [answer EXCEPT ![s] = Answered(k, receipts[k], TRUE)]
    /\ UNCHANGED <<plan, receipts, snaps>>

Refuse(s) ==
    /\ answer' = [answer EXCEPT ![s] = Unavailable]
    /\ UNCHANGED <<plan, receipts, snaps>>

\* The session takes its answer, or dies with it.
Forget(s) ==
    /\ answer' = [answer EXCEPT ![s] = NoAnswer]
    /\ UNCHANGED <<plan, receipts, snaps>>

Snapshot ==
    /\ snaps' = Append(snaps, plan)
    /\ UNCHANGED <<plan, receipts, answer>>

\* The tables come back as they were; the counter of the links table does not.
Rewind(i) ==
    /\ plan' = [snaps[i] EXCEPT !.nextLink = plan.nextLink]
    /\ UNCHANGED <<receipts, snaps, answer>>

Drop(lost) ==
    /\ plan' = [plan EXCEPT !.rows = Without(@, lost)]
    /\ UNCHANGED <<receipts, snaps, answer>>

Clear ==
    /\ plan' = [EmptyPlan(plan.schema) EXCEPT !.nextLink = plan.nextLink]
    /\ UNCHANGED <<receipts, snaps, answer>>

Upgrade ==
    /\ plan' = [plan EXCEPT !.schema = @ + 1]
    /\ UNCHANGED <<receipts, snaps, answer>>

\* Not the store's doing: a row's content stops being readable.
Decay(r) ==
    /\ plan' = [plan EXCEPT !.rows[r] = Broken]
    /\ UNCHANGED <<receipts, snaps, answer>>

Next ==
    \/ \E s \in Sessions :
        \/ \E k \in Keys, b \in Batches : Write(s, k, b)
        \/ \E k \in Keys : Replay(s, k)
        \/ Refuse(s)
        \/ Forget(s)
    \/ Snapshot
    \/ \E i \in DOMAIN snaps : Rewind(i)
    \/ \E lost \in SUBSET DOMAIN plan.rows : Drop(lost)
    \/ Clear
    \/ Upgrade
    \/ \E r \in DOMAIN plan.rows : Decay(r)

Spec == Init /\ [][Next]_vars
===============================================================================
