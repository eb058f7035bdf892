---------------------------- MODULE TaskGraph_proofs ----------------------------
(***************************************************************************)
(* Theorems of TaskGraph, for any contracts, sub-tasks, duties and bounds. *)
(* TypeOK, OneLiveOwner and DoneIsAccounted rest on the inductive          *)
(* invariant Inv, whose parts name what finalizing and splitting leave     *)
(* behind between their transactions, and what a verdict still says once   *)
(* the sub-task it is about has moved on; NeverAllWaiting on Untangled,    *)
(* that no live sub-tasks wait for one another in a circle; ServedInOrder  *)
(* on InOrder, that each waits for all it was linked to.                   *)
(***************************************************************************)
EXTENDS TaskGraph, TLAPS

\* An id nobody has is live once it is somebody's.
Unused == \A i \in Ids : state[i] = "absent" => superseder[i] = 0

\* Before the nodes of the plan are there, nothing is.
NothingBefore ==
    <<"finalize", "nodes">> \notin keys => Present = {} /\ owns = {}

\* Between its transactions a split has made parts of its sub-task's contract that
\* own nothing yet, have no verdict, and wait for a share of what is still owed.
SplitUnderWay ==
    call.kind = "split" =>
        /\ call.of \in Live /\ call.parts \subseteq Live
        /\ \A p \in call.parts :
            /\ contract[p] = contract[call.of]
            /\ state[p] # "done"
            /\ call.share[p] \subseteq Owed(call.of)
            /\ \A v \in verdicts : v.task # p

\* A verdict is about a sub-task there is and a serving it had; a passing one of
\* the current serving covers what was frozen.
VerdictsStand ==
    \A v \in verdicts :
        /\ v.task \in Present
        /\ v.epoch <= epoch[v.task]
        /\ (v.pass /\ v.epoch = epoch[v.task]) => Frozen(v.task) \subseteq v.evidence

DoneIsPassed == \A i \in Ids : state[i] = "done" => Passed(i)

\* Who was made, who owns, who is accounted for.
Accounted ==
    /\ Unused
    /\ NothingBefore
    /\ SplitUnderWay
    /\ VerdictsStand
    /\ DoneIsPassed
    /\ OneLiveOwner

Inv == TypeOK /\ Accounted

---------------------------------------------------------------------------
(* What inserting sub-tasks does.                                          *)

\* New ids are nobody's yet, and different ones for different rows.
LEMMA NewIdsAreNew ==
    ASSUME NEW S \in SUBSET Nat, NEW f \in NewIds(S)
    PROVE  /\ f \in [S -> Ids \ Present]
           /\ Range(f) \subseteq Ids \ Present
           /\ \A x, y \in S : f[x] = f[y] => x = y
<1> DEFINE free == {i \in Ids \ Present :
                       Cardinality({j \in Ids \ Present : j <= i}) <= Cardinality(S)}
<1>1. f \in [S -> free] /\ \A x, y \in S : x < y => f[x] < f[y]
  BY DEF NewIds
<1>2. free \subseteq Ids \ Present
  OBVIOUS
<1>3. Range(f) \subseteq Ids \ Present
  BY <1>1, <1>2 DEF Range
<1>4. \A x, y \in S : f[x] = f[y] => x = y
  <2> SUFFICES ASSUME NEW x \in S, NEW y \in S, f[x] = f[y], x # y
               PROVE  FALSE
    OBVIOUS
  <2>1. x \in Nat /\ y \in Nat
    OBVIOUS
  <2>2. f[x] \in Nat /\ f[y] \in Nat
    BY <1>1, <1>2, IdsAreNumbers
  <2>3. x < y \/ y < x
    BY <2>1
  <2> QED
    BY <1>1, <2>2, <2>3
<1> QED
  BY <1>1, <1>2, <1>3, <1>4

\* Who was there keeps state and contract; who is new is pending, for the contract
\* that the row it came from is for.
LEMMA CreatedIsPending ==
    ASSUME NEW S \in SUBSET Nat, NEW f \in NewIds(S), NEW g \in [S -> Nat],
           state' = [i \in Ids |-> IF i \in Range(f) THEN "pending" ELSE state[i]],
           contract' = [i \in Ids |-> IF i \in Range(f)
                                      THEN g[CHOOSE x \in DOMAIN f : f[x] = i]
                                      ELSE contract[i]]
    PROVE  /\ \A i \in Present : state'[i] = state[i] /\ contract'[i] = contract[i]
           /\ \A x \in S : state'[f[x]] = "pending" /\ contract'[f[x]] = g[x]
           /\ Present' = Present \cup Range(f)
<1>1. f \in [S -> Ids \ Present] /\ Range(f) \subseteq Ids \ Present
  BY NewIdsAreNew
<1>2. \A i \in Present : state'[i] = state[i] /\ contract'[i] = contract[i]
  BY <1>1 DEF Present
<1>3. ASSUME NEW x \in S
      PROVE  state'[f[x]] = "pending" /\ contract'[f[x]] = g[x]
  <2>1. f[x] \in Range(f) /\ f[x] \in Ids
    BY <1>1 DEF Range
  <2>2. (CHOOSE y \in DOMAIN f : f[y] = f[x]) = x
    BY <1>1, NewIdsAreNew
  <2> QED
    BY <2>1, <2>2
<1>4. Present' = Present \cup Range(f)
  BY <1>1 DEF Present
<1> QED
  BY <1>2, <1>3, <1>4

---------------------------------------------------------------------------
(* Types.                                                                  *)

LEMMA InvInit == Init => Inv
<1> SUFFICES ASSUME Init PROVE Inv
  OBVIOUS
<1>1. Present = {} /\ owns = {} /\ verdicts = {} /\ call.kind = "none"
  BY DEF Init, Present, NoCall
<1>2. /\ state \in [Ids -> StoredStates \cup {"absent"}]
      /\ epoch \in [Ids -> Nat]
      /\ superseder \in [Ids -> Ids \cup {0}]
      /\ deps \in [Ids -> SUBSET Ids]
  BY DEF Init, StoredStates
<1>3. TypeOK
  BY <1>1, <1>2 DEF Init, TypeOK, Calls
<1>4. Unused /\ NothingBefore /\ SplitUnderWay /\ VerdictsStand
  BY <1>1 DEF Init, Unused, NothingBefore, SplitUnderWay, VerdictsStand
<1>5. DoneIsPassed /\ OneLiveOwner
  BY <1>1 DEF Init, DoneIsPassed, OneLiveOwner, OwnedOnce
<1> QED
  BY <1>3, <1>4, <1>5 DEF Inv, Accounted

LEMMA TypeDraft == TypeOK /\ Draft => TypeOK'
<1> SUFFICES ASSUME TypeOK, Draft PROVE TypeOK'
  OBVIOUS
<1> USE DEF Drafting, NoCall, taskVars, dutyVars, TypeOK, Calls, Present
<1>1. ASSUME NEW n \in 1..Cardinality(Contracts), NEW sizes \in [Contracts -> Surfaces],
             NEW links \in SUBSET (Contracts \X Contracts), SubmitContracts(n, links, sizes)
      PROVE  TypeOK'
  <2>1. Fresh(n) \subseteq Contracts
    BY DEF Fresh
  <2>2. drafted' \subseteq Contracts /\ depends' \subseteq drafted' \X drafted'
    BY <1>1, <2>1 DEF SubmitContracts
  <2> QED
    BY <1>1, <2>2 DEF SubmitContracts
<1>2. ASSUME NEW c \in Contracts, NEW size \in Surfaces, SupersedeContract(c, size)
      PROVE  TypeOK'
  <2>1. Fresh(1) \subseteq Contracts
    BY DEF Fresh
  <2>2. drafted \subseteq drafted' /\ drafted' \subseteq Contracts
    BY <1>2, <2>1 DEF SupersedeContract
  <2> QED
    BY <1>2, <2>2 DEF SupersedeContract
<1>3. ASSUME NEW c \in Contracts, RetireContract(c)
      PROVE  TypeOK'
  BY <1>3 DEF RetireContract
<1> QED
  BY <1>1, <1>2, <1>3 DEF Draft

LEMMA TypeFinalize == Inv /\ Finalize => TypeOK'
<1> SUFFICES ASSUME Inv, Finalize PROVE TypeOK'
  OBVIOUS
<1>0. TypeOK
  BY DEF Inv
<1> USE DEF taskVars, dutyVars, draftVars, TypeOK, Calls, NoCall
<1>1. CASE FinalizeNodes
  <2>1. state' \in [Ids -> StoredStates \cup {"absent"}] /\ owns' \subseteq Ids \X Duties
    <3>1. CASE <<"finalize", "nodes">> \in keys
      BY <1>0, <1>1, <3>1 DEF FinalizeNodes
    <3>2. CASE <<"finalize", "nodes">> \notin keys
      <4>1. PICK node \in NewIds(LiveContracts) :
              /\ Created(node, LAMBDA c : c)
              /\ owns' = owns \cup UNION {{node[c]} \X Declared(c) : c \in LiveContracts}
        BY <1>1, <3>2 DEF FinalizeNodes
      <4>2. LiveContracts \in SUBSET Nat
        BY <1>0, ContractsAreNumbers DEF LiveContracts
      <4>3. node \in [LiveContracts -> Ids]
        BY <4>2, NewIdsAreNew
      <4>4. \A c \in LiveContracts : Declared(c) \subseteq Duties
        BY DEF Declared
      <4>5. owns' \subseteq Ids \X Duties
        BY <1>0, <4>1, <4>3, <4>4
      <4>6. state' = [i \in Ids |-> IF i \in Range(node) THEN "pending" ELSE state[i]]
        BY <4>1 DEF Created
      <4> QED
        BY <1>0, <4>5, <4>6 DEF StoredStates
    <3> QED
      BY <3>1, <3>2
  <2> QED
    BY <1>0, <1>1, <2>1 DEF FinalizeNodes
<1>2. CASE FinalizeEdges
  <2>1. \A c : NodeOf(c) \subseteq Ids
    BY DEF NodeOf, Live, Present
  <2>2. deps' \in [Ids -> SUBSET Ids] /\ finalized' \in BOOLEAN
    <3>1. CASE <<"finalize", "edges">> \in keys
      BY <1>0, <1>2, <3>1 DEF FinalizeEdges
    <3>2. CASE <<"finalize", "edges">> \notin keys
      <4>1. deps' = [i \in Ids |-> deps[i] \cup
                       UNION {NodeOf(l[2]) : l \in {m \in call.edges : i \in NodeOf(m[1])}}]
            /\ finalized' = TRUE
        BY <1>2, <3>2 DEF FinalizeEdges
      <4>2. \A i \in Ids : UNION {NodeOf(l[2]) : l \in {m \in call.edges : i \in NodeOf(m[1])}}
                              \subseteq Ids
        BY <2>1
      <4> QED
        BY <1>0, <4>1, <4>2
    <3> QED
      BY <3>1, <3>2
  <2> QED
    BY <1>0, <1>2, <2>2 DEF FinalizeEdges
<1>3. CASE FinalizeUnresolved
  BY <1>0, <1>3 DEF FinalizeUnresolved
<1> QED
  BY <1>1, <1>2, <1>3 DEF Finalize

LEMMA TypeBuild ==
    ASSUME Inv, NEW i \in Ids,
           \/ CaptureFingerprint
           \/ Serve(i)
           \/ \E evidence \in {Owed(i), Partial(i)} : Verify(i, evidence)
           \/ \E event \in Events : Report(i, event)
    PROVE  TypeOK'
<1>0. TypeOK
  BY DEF Inv
<1> USE DEF taskVars, dutyVars, draftVars, TypeOK, Calls, NoCall, StoredStates
<1>1. CASE CaptureFingerprint
  BY <1>0, <1>1 DEF CaptureFingerprint
<1>2. CASE Serve(i)
  BY <1>0, <1>2 DEF Serve
<1>3. ASSUME NEW evidence \in {Owed(i), Partial(i)}, Verify(i, evidence)
      PROVE  TypeOK'
  <2> DEFINE v == [task |-> i, epoch |-> epoch[i], evidence |-> evidence,
                   pass |-> Owed(i) \subseteq evidence]
  <2>1. evidence \subseteq Duties /\ (Owed(i) \subseteq evidence) \in BOOLEAN
    BY DEF Owed, Partial
  <2>2. v \in [task : Ids, epoch : Nat, evidence : SUBSET Duties, pass : BOOLEAN]
    BY <1>0, <2>1
  <2>3. verdicts' = verdicts \cup {v}
    BY <1>3 DEF Verify
  <2> QED
    BY <1>0, <1>3, <2>2, <2>3 DEF Verify, Present
<1>4. ASSUME NEW event \in Events, Report(i, event)
      PROVE  TypeOK'
  BY <1>0, <1>4 DEF Report
<1> QED
  BY <1>1, <1>2, <1>3, <1>4

LEMMA TypeSplit == Inv /\ Split => TypeOK'
<1> SUFFICES ASSUME Inv, Split PROVE TypeOK'
  OBVIOUS
<1>0. TypeOK
  BY DEF Inv
<1>1. ASSUME NEW i \in Ids, NEW S \in SUBSET Owed(i), NEW T \in SUBSET Owed(i),
             SplitNodes(i, <<S, T>>)
      PROVE  TypeOK'
  <2> DEFINE shares == <<S, T>>
  <2>1. PICK node \in NewIds(DOMAIN shares) :
          /\ Created(node, LAMBDA n : contract[i])
          /\ call' = [kind |-> "split", of |-> i, first |-> node[1], parts |-> Range(node),
                      share |-> [j \in Range(node) |->
                                  shares[CHOOSE n \in DOMAIN shares : node[n] = j]]]
    BY <1>1 DEF SplitNodes
  <2>2. DOMAIN shares \in SUBSET Nat /\ 1 \in DOMAIN shares
    OBVIOUS
  <2>3. node \in [DOMAIN shares -> Ids \ Present] /\ Range(node) \subseteq Ids \ Present
    BY <2>1, <2>2, NewIdsAreNew
  <2>4. state' = [k \in Ids |-> IF k \in Range(node) THEN "pending" ELSE state[k]]
    BY <2>1 DEF Created
  <2>5. i \in Present
    BY <1>1 DEF SplitNodes, Live
  <2>6. Present' = Present \cup Range(node)
    BY <2>3, <2>4 DEF Present
  <2>7. node[1] \in Range(node)
    BY <2>2, <2>3 DEF Range
  <2>8. state' \in [Ids -> StoredStates \cup {"absent"}]
    BY <1>0, <2>4 DEF TypeOK, StoredStates
  <2>9. /\ call'.kind = "split" /\ call'.of \in Present' /\ call'.parts \subseteq Present'
        /\ call'.first \in call'.parts /\ call'.of \notin call'.parts
    BY <2>1, <2>3, <2>5, <2>6, <2>7
  <2> QED
    BY <1>0, <1>1, <2>8, <2>9
    DEF SplitNodes, TypeOK, Calls, taskVars, dutyVars, draftVars
<1>2. CASE SplitWiring
  <2>1. /\ call.of \in Ids /\ call.parts \subseteq Ids /\ call.first \in call.parts
    BY <1>0, <1>2 DEF SplitWiring, TypeOK, Present
  <2>2. superseder' \in [Ids -> Ids \cup {0}]
    BY <1>0, <1>2, <2>1 DEF SplitWiring, TypeOK
  <2>3. deps' \in [Ids -> SUBSET Ids]
    BY <1>0, <1>2, <2>1 DEF SplitWiring, Rewired, TypeOK
  <2>4. owns' \subseteq Ids \X Duties
    BY <1>0, <1>2, <2>1 DEF SplitWiring, TypeOK, Redistributed
  <2> QED
    BY <1>0, <1>2, <2>2, <2>3, <2>4
    DEF SplitWiring, TypeOK, Calls, NoCall, taskVars, dutyVars, draftVars
<1>3. CASE SplitRefused
  BY <1>0, <1>3 DEF SplitRefused, TypeOK, Calls, NoCall, taskVars, dutyVars, draftVars
<1> QED
  BY <1>1, <1>2, <1>3 DEF Split

LEMMA TypeStep == Inv /\ [Next]_vars => TypeOK'
<1> SUFFICES ASSUME Inv, [Next]_vars PROVE TypeOK'
  OBVIOUS
<1>0. TypeOK
  BY DEF Inv
<1>1. CASE Draft
  BY <1>0, <1>1, TypeDraft
<1>2. CASE Finalize
  BY <1>2, TypeFinalize
<1>3. CASE CaptureFingerprint
  BY <1>0, <1>3 DEF CaptureFingerprint, TypeOK, Calls, NoCall, taskVars, dutyVars,
                    draftVars, Present
<1>4. ASSUME NEW i \in Ids, Serve(i) PROVE TypeOK'
  BY <1>4, TypeBuild
<1>5. ASSUME NEW i \in Ids, NEW evidence \in {Owed(i), Partial(i)}, Verify(i, evidence)
      PROVE  TypeOK'
  BY <1>5, TypeBuild
<1>6. ASSUME NEW i \in Ids, NEW event \in Events, Report(i, event) PROVE TypeOK'
  BY <1>6, TypeBuild
<1>7. CASE Split
  BY <1>7, TypeSplit
<1>8. CASE Amend
  <2>1. ASSUME NEW d \in Duties, AmendRetire(d) PROVE TypeOK'
    BY <1>0, <2>1 DEF AmendRetire, TypeOK, taskVars, draftVars, Present
  <2>2. ASSUME NEW i \in Ids, NEW d \in Duties, AmendAdd(i, d) PROVE TypeOK'
    BY <1>0, <2>2 DEF AmendAdd, TypeOK, taskVars, draftVars, Present
  <2> QED
    BY <1>8, <2>1, <2>2 DEF Amend
<1>9. CASE Crash
  BY <1>0, <1>9 DEF Crash, TypeOK, Calls, NoCall, taskVars, dutyVars, draftVars
<1>10. CASE UNCHANGED vars
  BY <1>0, <1>10 DEF vars, TypeOK, taskVars, dutyVars, draftVars, Present
<1> QED
  BY <1>1, <1>2, <1>3, <1>4, <1>5, <1>6, <1>7, <1>8, <1>9, <1>10 DEF Next

---------------------------------------------------------------------------
(* The rest of the invariant, action by action.                            *)

\* Steps that touch none of the sub-tasks, their duties or their verdicts.
LEMMA QuietStep ==
    ASSUME Inv,
           UNCHANGED <<state, contract, epoch, superseder, dutyVars, verdicts>>,
           keys \subseteq keys',
           call' = call \/ call'.kind # "split"
    PROVE  Accounted'
<1>1. Accounted
  BY DEF Inv
<1>2. /\ Present' = Present /\ Live' = Live /\ verdicts' = verdicts /\ owns' = owns
      /\ state' = state /\ contract' = contract /\ epoch' = epoch
      /\ \A i : Owed(i)' = Owed(i) /\ Frozen(i)' = Frozen(i) /\ Passed(i)' = Passed(i)
  BY DEF Present, Live, Owed, Frozen, Passed, dutyVars
<1>3. Unused' /\ NothingBefore'
  BY <1>1, <1>2 DEF Accounted, Unused, NothingBefore
<1>4. SplitUnderWay'
  BY <1>1, <1>2 DEF Accounted, SplitUnderWay
<1>5. VerdictsStand'
  BY <1>1, <1>2 DEF Accounted, VerdictsStand
<1>6. DoneIsPassed' /\ OneLiveOwner'
  BY <1>1, <1>2 DEF Accounted, DoneIsPassed, OneLiveOwner, OwnedOnce
<1> QED
  BY <1>3, <1>4, <1>5, <1>6 DEF Accounted

\* Serving starts an epoch no verdict is about.
LEMMA ServeStep ==
    ASSUME Inv, NEW i \in Ids, Serve(i)
    PROVE  Accounted'
<1>1. Accounted /\ TypeOK
  BY DEF Inv
<1>2. /\ state' = [state EXCEPT ![i] = "in_progress"]
      /\ epoch' = [epoch EXCEPT ![i] = epoch[i] + 1]
      /\ i \in Live /\ call'.kind = "capture"
      /\ keys \subseteq keys'
      /\ UNCHANGED <<contract, superseder, dutyVars, verdicts>>
  BY DEF Serve
<1>3. Present' = Present /\ Live' = Live
  BY <1>1, <1>2 DEF Present, Live, TypeOK
<1>4. \A j : Owed(j)' = Owed(j) /\ Frozen(j)' = Frozen(j)
  BY <1>2 DEF Owed, Frozen, dutyVars
<1>5. Unused' /\ NothingBefore' /\ SplitUnderWay'
  BY <1>1, <1>2, <1>3 DEF Accounted, Unused, NothingBefore, SplitUnderWay, TypeOK, dutyVars
<1>6. VerdictsStand'
  <2> SUFFICES ASSUME NEW v \in verdicts
               PROVE  /\ v.task \in Present
                      /\ v.epoch <= epoch'[v.task]
                      /\ (v.pass /\ v.epoch = epoch'[v.task])
                            => Frozen(v.task) \subseteq v.evidence
    BY <1>2, <1>3, <1>4 DEF VerdictsStand
  <2>1. /\ v.task \in Present /\ v.epoch <= epoch[v.task]
        /\ (v.pass /\ v.epoch = epoch[v.task]) => Frozen(v.task) \subseteq v.evidence
    BY <1>1 DEF Accounted, VerdictsStand
  <2>2. v.task \in Ids /\ v.epoch \in Nat /\ epoch[v.task] \in Nat /\ epoch[i] \in Nat
    BY <1>1 DEF TypeOK
  <2>3. CASE v.task = i
    BY <1>1, <1>2, <2>1, <2>2, <2>3 DEF TypeOK
  <2>4. CASE v.task # i
    BY <1>1, <1>2, <2>1, <2>2, <2>4 DEF TypeOK
  <2> QED
    BY <2>3, <2>4
<1>7. DoneIsPassed'
  BY <1>1, <1>2 DEF Accounted, DoneIsPassed, Passed, TypeOK
<1>8. OneLiveOwner'
  BY <1>1, <1>2, <1>3 DEF Accounted, OneLiveOwner, OwnedOnce, dutyVars
<1> QED
  BY <1>5, <1>6, <1>7, <1>8 DEF Accounted

LEMMA VerifyStep ==
    ASSUME Inv, NEW i \in Ids, NEW evidence, Verify(i, evidence)
    PROVE  Accounted'
<1>1. Accounted /\ TypeOK
  BY DEF Inv
<1> DEFINE new == [task |-> i, epoch |-> epoch[i], evidence |-> evidence,
                   pass |-> Owed(i) \subseteq evidence]
<1>2. /\ verdicts' = verdicts \cup {new}
      /\ i \in Live /\ call'.kind = "none" /\ keys \subseteq keys'
      /\ UNCHANGED <<state, contract, epoch, superseder, dutyVars>>
  BY DEF Verify, taskVars, NoCall
<1>3. Present' = Present /\ Live' = Live
  BY <1>2 DEF Present, Live
<1>4. \A j : Owed(j)' = Owed(j) /\ Frozen(j)' = Frozen(j)
  BY <1>2 DEF Owed, Frozen, dutyVars
<1>5. Unused' /\ NothingBefore' /\ SplitUnderWay'
  BY <1>1, <1>2, <1>3 DEF Accounted, Unused, NothingBefore, SplitUnderWay, dutyVars
<1>6. VerdictsStand'
  <2>1. /\ new.task \in Present /\ new.epoch <= epoch[new.task]
        /\ new.pass => Frozen(new.task) \subseteq new.evidence
    <3>1. /\ new.task = i /\ new.epoch = epoch[i] /\ new.evidence = evidence
          /\ new.pass = (Owed(i) \subseteq evidence)
      OBVIOUS
    <3>2. i \in Present /\ epoch[i] <= epoch[i]
      BY <1>1, <1>2 DEF Live, TypeOK
    <3>3. Frozen(i) \subseteq Owed(i)
      BY DEF Frozen
    <3> HIDE DEF new
    <3> QED
      BY <3>1, <3>2, <3>3
  <2> HIDE DEF new
  <2> QED
    BY <1>1, <1>2, <1>3, <1>4, <2>1 DEF Accounted, VerdictsStand
<1>7. DoneIsPassed'
  BY <1>1, <1>2 DEF Accounted, DoneIsPassed, Passed
<1>8. OneLiveOwner'
  BY <1>1, <1>2, <1>3 DEF Accounted, OneLiveOwner, OwnedOnce, dutyVars
<1> QED
  BY <1>5, <1>6, <1>7, <1>8 DEF Accounted

\* Only completing makes a sub-task done, and it asks for a passing verdict.
LEMMA ReportStep ==
    ASSUME Inv, NEW i \in Ids, NEW event, Report(i, event)
    PROVE  Accounted'
<1>1. Accounted /\ TypeOK
  BY DEF Inv
<1>2. PICK next \in StoredStates :
        /\ Step(i, event, next)
        /\ state' = [state EXCEPT ![i] = next]
  BY DEF Report
<1>3. /\ i \in Live /\ call'.kind = "none" /\ keys \subseteq keys'
      /\ event = "complete" => Passed(i)
      /\ UNCHANGED <<contract, epoch, superseder, dutyVars, verdicts>>
  BY DEF Report, NoCall
<1>4. next = "done" => event = "complete"
  BY <1>2 DEF Step, Transitions
<1>5. Present' = Present /\ Live' = Live
  BY <1>1, <1>2, <1>3 DEF Present, Live, TypeOK, StoredStates
<1>6. \A j : Owed(j)' = Owed(j) /\ Frozen(j)' = Frozen(j) /\ Passed(j)' = Passed(j)
  BY <1>3 DEF Owed, Frozen, Passed, dutyVars
<1>7. Unused' /\ NothingBefore' /\ SplitUnderWay'
  BY <1>1, <1>2, <1>3, <1>5
  DEF Accounted, Unused, NothingBefore, SplitUnderWay, TypeOK, dutyVars, StoredStates
<1>8. VerdictsStand'
  BY <1>1, <1>3, <1>5, <1>6 DEF Accounted, VerdictsStand
<1>9. DoneIsPassed'
  BY <1>1, <1>2, <1>3, <1>4, <1>6 DEF Accounted, DoneIsPassed, TypeOK
<1>10. OneLiveOwner'
  BY <1>1, <1>3, <1>5 DEF Accounted, OneLiveOwner, OwnedOnce, dutyVars
<1> QED
  BY <1>7, <1>8, <1>9, <1>10 DEF Accounted

LEMMA AmendStep == Inv /\ Amend => Accounted'
<1> SUFFICES ASSUME Inv, Amend PROVE Accounted'
  OBVIOUS
<1>1. Accounted /\ TypeOK
  BY DEF Inv
<1>2. /\ call'.kind = "none" /\ keys \subseteq keys'
      /\ UNCHANGED <<state, contract, epoch, superseder, verdicts>>
  <2>1. ASSUME NEW d \in Duties, AmendRetire(d)
        PROVE  /\ call = NoCall /\ call' = call /\ keys \subseteq keys'
               /\ UNCHANGED <<taskVars, verdicts>>
    BY <2>1 DEF AmendRetire
  <2>2. ASSUME NEW i \in Ids, NEW d \in Duties, AmendAdd(i, d)
        PROVE  /\ call = NoCall /\ call' = call /\ keys \subseteq keys'
               /\ UNCHANGED <<taskVars, verdicts>>
    BY <2>2 DEF AmendAdd
  <2>3. /\ call = NoCall /\ call' = call /\ keys \subseteq keys'
        /\ UNCHANGED <<taskVars, verdicts>>
    BY <2>1, <2>2 DEF Amend
  <2> QED
    BY <2>3 DEF taskVars, NoCall
<1>3. Present' = Present /\ Live' = Live /\ \A j : Passed(j)' = Passed(j)
  BY <1>2 DEF Present, Live, Passed
<1>4. Unused' /\ SplitUnderWay' /\ DoneIsPassed'
  BY <1>1, <1>2, <1>3 DEF Accounted, Unused, SplitUnderWay, DoneIsPassed
<1>5. ASSUME NEW d \in Duties, AmendRetire(d)
      PROVE  NothingBefore' /\ VerdictsStand' /\ OneLiveOwner'
  <2>1. owns' = owns /\ amended' = amended /\ dropped' = dropped \cup {d}
    BY <1>5 DEF AmendRetire
  <2>2. \A j : Frozen(j)' \subseteq Frozen(j)
    BY <2>1 DEF Frozen, Owed
  <2> QED
    BY <1>1, <1>2, <1>3, <2>1, <2>2
    DEF Accounted, NothingBefore, VerdictsStand, OneLiveOwner, OwnedOnce
<1>6. ASSUME NEW i \in Ids, NEW d \in Duties, AmendAdd(i, d)
      PROVE  NothingBefore' /\ VerdictsStand' /\ OneLiveOwner'
  <2>1. /\ owns' = owns \cup {<<i, d>>} /\ amended' = amended \cup {d}
        /\ dropped' = dropped /\ i \in Live /\ contract[i] = d[1]
        /\ \A p \in owns : p[2] # d
    BY <1>6 DEF AmendAdd
  <2>2. \A j : Frozen(j)' \subseteq Frozen(j)
    BY <2>1 DEF Frozen, Owed
  <2>3. NothingBefore'
    BY <1>1, <1>2, <1>3, <2>1 DEF Accounted, NothingBefore, Live
  <2>4. VerdictsStand'
    BY <1>1, <1>2, <1>3, <2>2 DEF Accounted, VerdictsStand
  <2>5. OneLiveOwner'
    BY <1>1, <1>2, <1>3, <2>1 DEF Accounted, OneLiveOwner, OwnedOnce
  <2> QED
    BY <2>3, <2>4, <2>5
<1> QED
  BY <1>4, <1>5, <1>6 DEF Amend, Accounted

\* Ids that come to be pending disturb nobody who was there: they had no verdict.
LEMMA CreationIsHarmless ==
    ASSUME Inv, NEW new \in SUBSET (Ids \ Present),
           Present' = Present \cup new,
           \A i \in Present : state'[i] = state[i] /\ contract'[i] = contract[i],
           \A i \in new : state'[i] = "pending",
           UNCHANGED <<epoch, superseder, amended, dropped, verdicts>>
    PROVE  /\ Unused' /\ DoneIsPassed'
           /\ Live' = Live \cup new
           /\ \A i \in new : \A v \in verdicts : v.task # i
<1>1. Accounted /\ TypeOK
  BY DEF Inv
<1>2. Unused'
  BY <1>1 DEF Accounted, Unused, Present
<1>3. Live' = Live \cup new
  BY <1>1 DEF Live, Accounted, Unused, Present
<1>4. \A i \in new : \A v \in verdicts : v.task # i
  BY <1>1 DEF Accounted, VerdictsStand
<1>5. DoneIsPassed'
  <2> SUFFICES ASSUME NEW i \in Ids, state'[i] = "done" PROVE Passed(i)'
    BY DEF DoneIsPassed
  <2>1. i \in Present'
    BY DEF Present
  <2>2. state[i] = "done"
    BY <2>1
  <2> QED
    BY <1>1, <2>2 DEF Accounted, DoneIsPassed, Passed
<1> QED
  BY <1>2, <1>3, <1>4, <1>5

\* The nodes are made once, when there is no sub-task and no owner.
LEMMA FinalizeNodesStep == Inv /\ FinalizeNodes => Accounted'
<1> SUFFICES ASSUME Inv, FinalizeNodes PROVE Accounted'
  OBVIOUS
<1>0. Accounted /\ TypeOK
  BY DEF Inv
<1>1. /\ call'.kind = "finalize"
      /\ UNCHANGED <<epoch, superseder, amended, dropped, verdicts>>
  BY DEF FinalizeNodes
<1>2. CASE <<"finalize", "nodes">> \in keys
  BY <1>1, <1>2, QuietStep DEF FinalizeNodes, dutyVars
<1>3. CASE <<"finalize", "nodes">> \notin keys
  <2>1. PICK node \in NewIds(LiveContracts) :
          /\ Created(node, LAMBDA c : c)
          /\ owns' = owns \cup UNION {{node[c]} \X Declared(c) : c \in LiveContracts}
    BY <1>3 DEF FinalizeNodes
  <2>2. Present = {} /\ owns = {} /\ <<"finalize", "nodes">> \in keys'
    BY <1>0, <1>3 DEF Accounted, NothingBefore, FinalizeNodes
  <2>3. LiveContracts \in SUBSET Nat
    BY <1>0, ContractsAreNumbers DEF LiveContracts, TypeOK
  <2>4. /\ node \in [LiveContracts -> Ids \ Present]
        /\ Range(node) \subseteq Ids \ Present
        /\ \A x, y \in LiveContracts : node[x] = node[y] => x = y
    BY <2>3, NewIdsAreNew
  <2> DEFINE id == [c \in LiveContracts |-> c]
  <2>5. /\ state' = [i \in Ids |-> IF i \in Range(node) THEN "pending" ELSE state[i]]
        /\ contract' = [i \in Ids |-> IF i \in Range(node)
                                       THEN CHOOSE c \in DOMAIN node : node[c] = i
                                       ELSE contract[i]]
    BY <2>1 DEF Created
  <2>6. contract' = [i \in Ids |-> IF i \in Range(node)
                                   THEN id[CHOOSE c \in DOMAIN node : node[c] = i]
                                   ELSE contract[i]]
    <3>1. ASSUME NEW i \in Range(node)
          PROVE  (CHOOSE c \in DOMAIN node : node[c] = i) \in LiveContracts
      BY <2>4 DEF Range
    <3> QED
      BY <2>5, <3>1
  <2>7. id \in [LiveContracts -> Nat]
    BY <2>3
  <2> HIDE DEF id
  <2>8. /\ \A i \in Present : state'[i] = state[i] /\ contract'[i] = contract[i]
        /\ \A c \in LiveContracts : state'[node[c]] = "pending" /\ contract'[node[c]] = id[c]
        /\ Present' = Present \cup Range(node)
    BY <2>1, <2>3, <2>5, <2>6, <2>7, CreatedIsPending
  <2>9. \A i \in Range(node) : state'[i] = "pending"
    BY <2>5, <2>4
  <2>10. /\ Unused' /\ DoneIsPassed' /\ Live' = Live \cup Range(node)
         /\ \A i \in Range(node) : \A v \in verdicts : v.task # i
    BY <1>1, <2>4, <2>8, <2>9, CreationIsHarmless
  <2>11. NothingBefore' /\ SplitUnderWay'
    BY <1>1, <2>2 DEF NothingBefore, SplitUnderWay
  <2>12. VerdictsStand'
    BY <1>0, <1>1, <2>2 DEF Accounted, VerdictsStand
  <2>13. OneLiveOwner'
    <3>1. \A p \in owns' : \E c \in LiveContracts : p[1] = node[c] /\ p[2] \in Declared(c)
      BY <2>1, <2>2
    <3>2. \A c \in LiveContracts : \A d \in Declared(c) : d[1] = c
      BY DEF Declared
    <3>3. \A c \in LiveContracts : node[c] \in Live' /\ contract'[node[c]] = c
      BY <2>4, <2>8, <2>10 DEF id, Range
    <3> QED
      BY <3>1, <3>2, <3>3 DEF OneLiveOwner, OwnedOnce
  <2> QED
    BY <2>10, <2>11, <2>12, <2>13 DEF Accounted
<1> QED
  BY <1>2, <1>3

\* The parts of a split exist and own nothing; who owned, owns still.
LEMMA SplitNodesStep ==
    ASSUME Inv, NEW i \in Ids, NEW S \in SUBSET Owed(i), NEW T \in SUBSET Owed(i),
           SplitNodes(i, <<S, T>>)
    PROVE  Accounted'
<1> DEFINE shares == <<S, T>>
           copy == [n \in DOMAIN shares |-> contract[i]]
<1>0. Accounted /\ TypeOK
  BY DEF Inv
<1>1. PICK node \in NewIds(DOMAIN shares) :
        /\ Created(node, LAMBDA n : contract[i])
        /\ call' = [kind |-> "split", of |-> i, first |-> node[1], parts |-> Range(node),
                    share |-> [j \in Range(node) |->
                                shares[CHOOSE n \in DOMAIN shares : node[n] = j]]]
  BY DEF SplitNodes
<1>2. /\ i \in Live /\ keys \subseteq keys'
      /\ UNCHANGED <<epoch, superseder, dutyVars, verdicts>>
  BY DEF SplitNodes
<1>3. DOMAIN shares \in SUBSET Nat
  OBVIOUS
<1>4. /\ node \in [DOMAIN shares -> Ids \ Present]
      /\ Range(node) \subseteq Ids \ Present
  BY <1>1, <1>3, NewIdsAreNew
<1>5. /\ state' = [k \in Ids |-> IF k \in Range(node) THEN "pending" ELSE state[k]]
      /\ contract' = [k \in Ids |-> IF k \in Range(node) THEN contract[i] ELSE contract[k]]
  BY <1>1 DEF Created
<1>6. /\ \A k \in Present : state'[k] = state[k] /\ contract'[k] = contract[k]
      /\ \A k \in Range(node) : state'[k] = "pending" /\ contract'[k] = contract[i]
      /\ Present' = Present \cup Range(node)
  BY <1>4, <1>5 DEF Present
<1>7. /\ Unused' /\ DoneIsPassed' /\ Live' = Live \cup Range(node)
      /\ \A k \in Range(node) : \A v \in verdicts : v.task # k
  BY <1>2, <1>4, <1>6, CreationIsHarmless DEF dutyVars
<1>8. \A j : Owed(j)' = Owed(j) /\ Frozen(j)' = Frozen(j)
  BY <1>2 DEF Owed, Frozen, dutyVars
<1>9. NothingBefore'
  BY <1>0, <1>2 DEF Accounted, NothingBefore, Live
<1>10. SplitUnderWay'
  <2>1. ASSUME NEW k \in Range(node)
        PROVE  call'.share[k] \subseteq Owed(i)
    <3>1. (CHOOSE n \in DOMAIN shares : node[n] = k) \in DOMAIN shares
      BY <1>4 DEF Range
    <3>2. \A n \in DOMAIN shares : shares[n] \subseteq Owed(i)
      OBVIOUS
    <3> HIDE DEF shares
    <3>3. call'.share[k] = shares[CHOOSE n \in DOMAIN shares : node[n] = k]
      BY <1>1
    <3> QED
      BY <3>1, <3>2, <3>3
  <2>2. call'.kind = "split" /\ call'.of = i /\ call'.parts = Range(node)
    BY <1>1
  <2>3. i \in Live' /\ Range(node) \subseteq Live' /\ contract'[i] = contract[i]
    BY <1>2, <1>6, <1>7 DEF Live
  <2> HIDE DEF shares
  <2> QED
    BY <1>2, <1>6, <1>7, <1>8, <2>1, <2>2, <2>3 DEF SplitUnderWay
<1>11. VerdictsStand'
  BY <1>0, <1>2, <1>6, <1>8 DEF Accounted, VerdictsStand
<1>12. OneLiveOwner'
  BY <1>0, <1>2, <1>6, <1>7 DEF Accounted, OneLiveOwner, OwnedOnce, Live, dutyVars
<1> QED
  BY <1>7, <1>9, <1>10, <1>11, <1>12 DEF Accounted

\* The wiring takes everything from the sub-task that was split, and gives its
\* parts, which have no verdict, only what it owed.
LEMMA SplitWiringStep == Inv /\ SplitWiring => Accounted'
<1> SUFFICES ASSUME Inv, SplitWiring PROVE Accounted'
  OBVIOUS
<1>0. Accounted /\ TypeOK
  BY DEF Inv
<1>1. /\ call.kind = "split" /\ OwnedOnce(Redistributed)
      /\ superseder' = [superseder EXCEPT ![call.of] = call.first]
      /\ owns' = Redistributed /\ keys \subseteq keys' /\ call'.kind = "none"
      /\ UNCHANGED <<state, contract, epoch, amended, dropped, verdicts>>
  BY DEF SplitWiring, Indexable, NoCall
<1>2. /\ call.of \in Live /\ call.parts \subseteq Live
      /\ call.of \in Ids /\ call.first \in Ids \ {0} /\ call.of \notin call.parts
      /\ \A p \in call.parts :
          /\ contract[p] = contract[call.of] /\ call.share[p] \subseteq Owed(call.of)
          /\ \A v \in verdicts : v.task # p
  BY <1>0, <1>1, IdsAreNumbers DEF Accounted, SplitUnderWay, TypeOK, Present
<1>3. Present' = Present /\ Live' = Live \ {call.of} /\ \A j : Passed(j)' = Passed(j)
  BY <1>0, <1>1, <1>2 DEF Present, Live, Passed, TypeOK
<1>4. Unused'
  BY <1>0, <1>1, <1>2 DEF Accounted, Unused, Live, Present, TypeOK
<1>5. NothingBefore' /\ SplitUnderWay' /\ DoneIsPassed'
  BY <1>0, <1>1, <1>2, <1>3
  DEF Accounted, NothingBefore, SplitUnderWay, DoneIsPassed, Live
<1>6. VerdictsStand'
  <2>1. ASSUME NEW j, j \notin call.parts
        PROVE  Frozen(j)' \subseteq Frozen(j)
    BY <1>1, <2>1 DEF Frozen, Owed, Redistributed
  <2>2. \A v \in verdicts : v.task \notin call.parts
    BY <1>2
  <2> QED
    BY <1>0, <1>1, <1>3, <2>1, <2>2 DEF Accounted, VerdictsStand
<1>7. OneLiveOwner'
  <2>1. ASSUME NEW p \in Redistributed
        PROVE  p[1] \in Live' /\ contract[p[1]] = p[2][1]
    <3>1. CASE p \in owns /\ p[1] # call.of
      BY <1>0, <1>3, <3>1 DEF Accounted, OneLiveOwner
    <3>2. CASE p \in call.parts \X Duties /\ p[2] \in call.share[p[1]]
      <4>1. <<call.of, p[2]>> \in owns
        BY <1>2, <3>2 DEF Owed
      <4>2. contract[call.of] = p[2][1]
        BY <1>0, <4>1 DEF Accounted, OneLiveOwner
      <4> QED
        BY <1>2, <1>3, <3>2, <4>2
    <3> QED
      BY <3>1, <3>2 DEF Redistributed
  <2> QED
    BY <1>1, <2>1 DEF OneLiveOwner, OwnedOnce
<1> QED
  BY <1>4, <1>5, <1>6, <1>7 DEF Accounted

---------------------------------------------------------------------------
(* The theorems.                                                           *)

LEMMA AccountedStep == Inv /\ [Next]_vars => Accounted'
<1> SUFFICES ASSUME Inv, [Next]_vars PROVE Accounted'
  OBVIOUS
<1>1. CASE Draft
  <2> DEFINE Quiet == /\ UNCHANGED <<state, contract, epoch, superseder, dutyVars, verdicts>>
                      /\ keys' = keys /\ call' = call
  <2>1. ASSUME NEW n, NEW links, NEW sizes, SubmitContracts(n, links, sizes) PROVE Quiet
    BY <2>1 DEF SubmitContracts, taskVars
  <2>2. ASSUME NEW c, NEW size, SupersedeContract(c, size) PROVE Quiet
    BY <2>2 DEF SupersedeContract, taskVars
  <2>3. ASSUME NEW c, RetireContract(c) PROVE Quiet
    BY <2>3 DEF RetireContract, taskVars
  <2>4. Quiet
    BY <1>1, <2>1, <2>2, <2>3 DEF Draft
  <2> QED
    BY <2>4, QuietStep
<1>2. CASE FinalizeNodes
  BY <1>2, FinalizeNodesStep
<1>3. CASE FinalizeEdges
  <2>1. keys \subseteq keys' /\ call'.kind = "capture"
    BY <1>3 DEF FinalizeEdges
  <2> QED
    BY <1>3, <2>1, QuietStep DEF FinalizeEdges
<1>4. CASE FinalizeUnresolved \/ CaptureFingerprint \/ SplitRefused \/ Crash
  <2>1. keys \subseteq keys' /\ call'.kind = "none"
    BY <1>4 DEF FinalizeUnresolved, CaptureFingerprint, SplitRefused, Crash, NoCall
  <2>2. UNCHANGED <<state, contract, epoch, superseder, dutyVars, verdicts>>
    BY <1>4 DEF FinalizeUnresolved, CaptureFingerprint, SplitRefused, Crash, taskVars
  <2> QED
    BY <2>1, <2>2, QuietStep
<1>5. CASE \E i \in Ids : Serve(i)
  BY <1>5, ServeStep
<1>6. CASE \E i \in Ids : \E evidence \in {Owed(i), Partial(i)} : Verify(i, evidence)
  BY <1>6, VerifyStep
<1>7. CASE \E i \in Ids, event \in Events : Report(i, event)
  BY <1>7, ReportStep
<1>8. CASE \E i \in Ids : \E S, T \in SUBSET Owed(i) : SplitNodes(i, <<S, T>>)
  BY <1>8, SplitNodesStep
<1>9. CASE SplitWiring
  BY <1>9, SplitWiringStep
<1>10. CASE Amend
  BY <1>10, AmendStep
<1>11. CASE UNCHANGED vars
  BY <1>11, QuietStep DEF vars, taskVars
<1> QED
  BY <1>1, <1>2, <1>3, <1>4, <1>5, <1>6, <1>7, <1>8, <1>9, <1>10, <1>11
  DEF Next, Finalize, Split

\* Inv is inductive: what finalizing, serving, splitting and amending rely on
\* of one another is true in every state the engine reaches.
THEOREM Invariance == Spec => []Inv
<1>1. Init => Inv
  BY InvInit
<1>2. Inv /\ [Next]_vars => Inv'
  BY TypeStep, AccountedStep DEF Inv
<1> QED
  BY <1>1, <1>2, PTL DEF Spec

\* The stored graph, the ledger of verdicts and the call under way always have
\* their types; so do the parts of a split between its transactions.
THEOREM TypesHold == Spec => []TypeOK
<1>1. Inv => TypeOK
  BY DEF Inv
<1> QED
  BY <1>1, Invariance, PTL

\* However many contracts are finalized and however often they are split, amended
\* or a call is cut short: a duty has one owner, live and of its own contract.
THEOREM DutiesHaveOneOwner == Spec => []OneLiveOwner
<1>1. Inv => OneLiveOwner
  BY DEF Inv, Accounted
<1> QED
  BY <1>1, Invariance, PTL

\* A verdict keeps covering what was frozen for as long as its serving lasts, so
\* that `done` is never a claim the evidence does not bear.
THEOREM DoneIsAlwaysAccounted == Spec => []DoneIsAccounted
<1>1. Inv => DoneIsAccounted
  <2> SUFFICES ASSUME Inv, NEW i \in Ids, state[i] = "done"
               PROVE  \E v \in verdicts : /\ v.task = i /\ v.epoch = epoch[i] /\ v.pass
                                          /\ Frozen(i) \subseteq v.evidence
    BY DEF DoneIsAccounted
  <2>1. PICK v \in verdicts : v.task = i /\ v.epoch = epoch[i] /\ v.pass
    BY DEF Inv, Accounted, DoneIsPassed, Passed
  <2>2. Frozen(v.task) \subseteq v.evidence
    BY <2>1 DEF Inv, Accounted, VerdictsStand
  <2> QED
    BY <2>1, <2>2
<1> QED
  BY <1>1, Invariance, PTL

---------------------------------------------------------------------------
(* Who waits for whom.                                                     *)

\* Whom a live sub-task waits for is live; nobody waits before he is there.
Waits ==
    /\ \A i \in Live : deps[i] \subseteq Live
    /\ \A i \in Ids \ Present : deps[i] = {}

\* Of any live sub-tasks, one waits for none of the others.
NoKnot == \A S \in SUBSET Live : S # {} => \E i \in S : deps[i] \cap S = {}

\* The graph is wired once, when the plan leaves draft.
WiredOnce ==
    /\ <<"finalize", "edges">> \in keys <=> finalized
    /\ ~finalized => \A i \in Ids : deps[i] = {}

\* The edges that finalizing has still to write were sorted before it began.
EdgesSorted ==
    call.kind = "finalize" =>
        /\ call.edges \subseteq Contracts \X Contracts
        /\ \A T \in SUBSET Contracts :
             T # {} => \E c \in T : \A d \in T : <<c, d>> \notin call.edges

\* Nobody waits for the parts of a split before they are wired.
PartsUnawaited ==
    call.kind = "split" => \A j \in Live : deps[j] \cap call.parts = {}

Untangled == Waits /\ NoKnot /\ WiredOnce /\ EdgesSorted /\ PartsUnawaited

LEMMA UntangledInit == Init => Untangled
<1> SUFFICES ASSUME Init PROVE Untangled
  OBVIOUS
<1>1. /\ Live = {} /\ keys = {} /\ ~finalized /\ call.kind = "none"
      /\ \A i \in Ids : deps[i] = {}
  BY DEF Init, Live, Present, NoCall
<1> QED
  BY <1>1 DEF Untangled, Waits, NoKnot, WiredOnce, EdgesSorted, PartsUnawaited

\* Steps that move no edge and make no sub-task.
LEMMA StillUntangled ==
    ASSUME Untangled,
           Present' = Present,
           UNCHANGED <<deps, superseder, finalized>>,
           <<"finalize", "edges">> \in keys' <=> <<"finalize", "edges">> \in keys,
           call' = call \/ call'.kind \notin {"finalize", "split"}
    PROVE  Untangled'
<1>1. Live' = Live
  BY DEF Live
<1>2. Waits' /\ NoKnot' /\ WiredOnce'
  BY <1>1 DEF Untangled, Waits, NoKnot, WiredOnce
<1>3. EdgesSorted' /\ PartsUnawaited'
  BY <1>1 DEF Untangled, EdgesSorted, PartsUnawaited
<1> QED
  BY <1>2, <1>3 DEF Untangled

\* New sub-tasks wait for nobody, and nobody waits for them.
LEMMA NewcomersUntangled ==
    ASSUME Untangled, NEW new \in SUBSET (Ids \ Present),
           Present' = Present \cup new,
           Live' = Live \cup new,
           UNCHANGED <<deps, finalized>>,
           <<"finalize", "edges">> \in keys' <=> <<"finalize", "edges">> \in keys
    PROVE  /\ Waits' /\ NoKnot' /\ WiredOnce'
           /\ \A j \in Live' : deps'[j] \cap new = {}
<1>1. \A i \in new : deps[i] = {}
  BY DEF Untangled, Waits
<1>2. Waits'
  BY <1>1 DEF Untangled, Waits
<1>3. \A j \in Live' : deps'[j] \cap new = {}
  BY <1>1 DEF Untangled, Waits, Live
<1>4. NoKnot'
  <2> SUFFICES ASSUME NEW S \in SUBSET (Live \cup new), S # {}
               PROVE  \E i \in S : deps[i] \cap S = {}
    BY DEF NoKnot
  <2>1. CASE \E i \in S : i \in new
    BY <1>1, <2>1
  <2>2. CASE S \subseteq Live
    BY <2>2 DEF Untangled, NoKnot
  <2> QED
    BY <2>1, <2>2
<1>5. WiredOnce'
  BY DEF Untangled, WiredOnce
<1> QED
  BY <1>2, <1>3, <1>4, <1>5

\* Contracts that can be sorted have edges that can.
LEMMA SortedEdges ==
    ASSUME TypeOK, Sortable
    PROVE  /\ Edges \subseteq Contracts \X Contracts
           /\ \A T \in SUBSET Contracts :
                T # {} => \E c \in T : \A d \in T : <<c, d>> \notin Edges
<1>1. Edges \subseteq Contracts \X Contracts
  BY DEF Edges, TypeOK
<1>2. \A c, d : <<c, d>> \in Edges => c \in LiveContracts /\ d \in LiveContracts
  BY DEF Edges
<1>3. ASSUME NEW T \in SUBSET Contracts, T # {}
      PROVE  \E c \in T : \A d \in T : <<c, d>> \notin Edges
  <2>1. CASE T \cap LiveContracts = {}
    BY <1>2, <1>3, <2>1
  <2>2. CASE T \cap LiveContracts # {}
    <3>1. PICK c \in T \cap LiveContracts :
            \A d \in T \cap LiveContracts : <<c, d>> \notin Edges
      BY <2>2 DEF Sortable
    <3> QED
      BY <1>2, <3>1
  <2> QED
    BY <2>1, <2>2
<1> QED
  BY <1>1, <1>3

\* The first finalizing makes one live sub-task of each live contract.
LEMMA NodesAreNew ==
    ASSUME Inv, FinalizeNodes, <<"finalize", "nodes">> \notin keys
    PROVE  \E node \in [LiveContracts -> Ids \ Present] :
             /\ Range(node) \in SUBSET (Ids \ Present)
             /\ Present' = Present \cup Range(node)
             /\ Live' = Live \cup Range(node)
             /\ \A c \in LiveContracts : contract'[node[c]] = c
             /\ \A i \in Present : contract'[i] = contract[i] /\ state'[i] = state[i]
             /\ \A i \in Range(node) : state'[i] = "pending"
<1>0. Accounted /\ TypeOK
  BY DEF Inv
<1>1. PICK node \in NewIds(LiveContracts) : Created(node, LAMBDA c : c)
  BY DEF FinalizeNodes
<1>2. LiveContracts \in SUBSET Nat
  BY <1>0, ContractsAreNumbers DEF LiveContracts, TypeOK
<1>3. /\ node \in [LiveContracts -> Ids \ Present]
      /\ Range(node) \in SUBSET (Ids \ Present)
      /\ \A c, d \in LiveContracts : node[c] = node[d] => c = d
  BY <1>2, NewIdsAreNew
<1>4. /\ state' = [i \in Ids |-> IF i \in Range(node) THEN "pending" ELSE state[i]]
      /\ contract' = [i \in Ids |-> IF i \in Range(node)
                                     THEN CHOOSE c \in DOMAIN node : node[c] = i
                                     ELSE contract[i]]
  BY <1>1 DEF Created
<1>5. /\ Present' = Present \cup Range(node)
      /\ \A i \in Present : contract'[i] = contract[i] /\ state'[i] = state[i]
      /\ \A i \in Range(node) : state'[i] = "pending"
  BY <1>3, <1>4 DEF Present
<1>6. Live' = Live \cup Range(node)
  <2>1. superseder' = superseder
    BY DEF FinalizeNodes
  <2> QED
    BY <1>0, <1>3, <1>5, <2>1 DEF Accounted, Unused, Live, Present
<1>7. ASSUME NEW c \in LiveContracts PROVE contract'[node[c]] = c
  <2>1. node[c] \in Range(node) /\ node[c] \in Ids
    BY <1>3 DEF Range
  <2>2. (CHOOSE d \in DOMAIN node : node[d] = node[c]) = c
    BY <1>3
  <2> QED
    BY <1>4, <2>1, <2>2
<1> QED
  BY <1>3, <1>5, <1>6, <1>7

LEMMA UntangledNodes == Inv /\ Untangled /\ FinalizeNodes => Untangled'
<1> SUFFICES ASSUME Inv, Untangled, FinalizeNodes PROVE Untangled'
  OBVIOUS
<1>0. Accounted /\ TypeOK
  BY DEF Inv
<1>1. /\ call' = [kind |-> "finalize", edges |-> Edges] /\ Sortable
      /\ UNCHANGED <<superseder, deps, finalized>>
      /\ <<"finalize", "edges">> \in keys' <=> <<"finalize", "edges">> \in keys
  <2>1. /\ call' = [kind |-> "finalize", edges |-> Edges] /\ Sortable
        /\ UNCHANGED <<superseder, deps, finalized>>
        /\ keys' = keys \/ keys' = keys \cup {<<"finalize", "nodes">>}
    BY DEF FinalizeNodes
  <2> QED
    BY <2>1
<1>2. EdgesSorted' /\ PartsUnawaited'
  BY <1>0, <1>1, SortedEdges DEF EdgesSorted, PartsUnawaited
<1>3. Waits' /\ NoKnot' /\ WiredOnce'
  <2>1. CASE <<"finalize", "nodes">> \in keys
    <3>1. Present' = Present /\ Live' = Live
      BY <1>1, <2>1 DEF FinalizeNodes, Present, Live
    <3> QED
      BY <1>1, <3>1 DEF Untangled, Waits, NoKnot, WiredOnce
  <2>2. CASE <<"finalize", "nodes">> \notin keys
    <3>1. PICK node \in [LiveContracts -> Ids \ Present] :
            /\ Range(node) \in SUBSET (Ids \ Present)
            /\ Present' = Present \cup Range(node)
            /\ Live' = Live \cup Range(node)
      BY <2>2, NodesAreNew
    <3> QED
      BY <1>1, <3>1, NewcomersUntangled
  <2> QED
    BY <2>1, <2>2
<1> QED
  BY <1>2, <1>3 DEF Untangled

\* Sub-tasks that waited for one another in a circle would be sub-tasks of contracts
\* that do.
LEMMA UntangledEdges == Inv /\ Untangled /\ FinalizeEdges => Untangled'
<1> SUFFICES ASSUME Inv, Untangled, FinalizeEdges PROVE Untangled'
  OBVIOUS
<1>1. /\ call.kind = "finalize" /\ call'.kind = "capture"
      /\ UNCHANGED <<state, contract, superseder>>
  BY DEF FinalizeEdges
<1>2. Present' = Present /\ Live' = Live
  BY <1>1 DEF Present, Live
<1>3. CASE <<"finalize", "edges">> \in keys
  BY <1>1, <1>2, <1>3, StillUntangled DEF FinalizeEdges
<1>4. CASE <<"finalize", "edges">> \notin keys
  <2>1. /\ deps' = [i \in Ids |-> deps[i] \cup
               UNION {NodeOf(l[2]) : l \in {m \in call.edges : i \in NodeOf(m[1])}}]
        /\ finalized' = TRUE /\ keys' = keys \cup {<<"finalize", "edges">>}
    BY <1>4 DEF FinalizeEdges
  <2>2. \A i \in Ids : deps[i] = {}
    BY <1>4 DEF Untangled, WiredOnce
  <2>3. \A c : \A i \in NodeOf(c) : i \in Live /\ contract[i] = c
    BY DEF NodeOf
  <2>4. ASSUME NEW i \in Ids, NEW j \in deps'[i]
        PROVE  /\ i \in Live /\ j \in Live
               /\ <<contract[i], contract[j]>> \in call.edges
               /\ contract[i] \in Contracts /\ contract[j] \in Contracts
    <3>1. PICK l \in call.edges : i \in NodeOf(l[1]) /\ j \in NodeOf(l[2])
      BY <2>1, <2>2
    <3>2. l \in Contracts \X Contracts
      BY <1>1 DEF Untangled, EdgesSorted
    <3> QED
      BY <2>3, <3>1, <3>2
  <2>5. Waits'
    BY <1>2, <2>4 DEF Waits, Live, Present
  <2>6. NoKnot'
    <3> SUFFICES ASSUME NEW S \in SUBSET Live, S # {}
                 PROVE  \E i \in S : deps'[i] \cap S = {}
      BY <1>2 DEF NoKnot
    <3> DEFINE T == {c \in Contracts : \E i \in S : contract[i] = c}
    <3>1. S \subseteq Ids
      BY DEF Live, Present
    <3>2. CASE T = {}
      BY <2>4, <3>1, <3>2
    <3>3. CASE T # {}
      <4>1. PICK c \in T : \A d \in T : <<c, d>> \notin call.edges
        BY <1>1, <3>3 DEF Untangled, EdgesSorted
      <4>2. PICK i \in S : contract[i] = c
        BY <4>1
      <4> QED
        BY <2>4, <3>1, <4>1, <4>2
    <3> QED
      BY <3>2, <3>3
  <2>7. WiredOnce'
    BY <2>1 DEF WiredOnce
  <2>8. EdgesSorted' /\ PartsUnawaited'
    BY <1>1 DEF EdgesSorted, PartsUnawaited
  <2> QED
    BY <2>5, <2>6, <2>7, <2>8 DEF Untangled
<1> QED
  BY <1>3, <1>4

\* The parts of a split are new: live, pending, of its sub-task's contract.
LEMMA PartsAreNew ==
    ASSUME Inv, NEW i \in Ids, NEW S \in SUBSET Owed(i), NEW T \in SUBSET Owed(i),
           SplitNodes(i, <<S, T>>)
    PROVE  /\ call'.kind = "split" /\ call'.parts \in SUBSET (Ids \ Present)
           /\ Present' = Present \cup call'.parts
           /\ Live' = Live \cup call'.parts
           /\ \A k \in Present : contract'[k] = contract[k] /\ state'[k] = state[k]
           /\ \A k \in call'.parts : contract'[k] = contract[i] /\ state'[k] = "pending"
           /\ S \cap T = {} =>
                \A p, q \in call'.parts : p # q => call'.share[p] \cap call'.share[q] = {}
<1> DEFINE shares == <<S, T>>
<1>0. Accounted /\ TypeOK
  BY DEF Inv
<1>1. PICK node \in NewIds(DOMAIN shares) :
        /\ Created(node, LAMBDA n : contract[i])
        /\ call' = [kind |-> "split", of |-> i, first |-> node[1], parts |-> Range(node),
                    share |-> [j \in Range(node) |->
                                shares[CHOOSE n \in DOMAIN shares : node[n] = j]]]
  BY DEF SplitNodes
<1>2. DOMAIN shares = {1, 2} /\ DOMAIN shares \in SUBSET Nat
  OBVIOUS
<1>3. /\ node \in [DOMAIN shares -> Ids \ Present]
      /\ Range(node) \in SUBSET (Ids \ Present)
  BY <1>1, <1>2, NewIdsAreNew
<1>4. /\ state' = [k \in Ids |-> IF k \in Range(node) THEN "pending" ELSE state[k]]
      /\ contract' = [k \in Ids |-> IF k \in Range(node) THEN contract[i] ELSE contract[k]]
  BY <1>1 DEF Created
<1>5. /\ \A k \in Present : contract'[k] = contract[k] /\ state'[k] = state[k]
      /\ \A k \in Range(node) : contract'[k] = contract[i] /\ state'[k] = "pending"
      /\ Present' = Present \cup Range(node)
  BY <1>3, <1>4 DEF Present
<1>6. Live' = Live \cup Range(node)
  <2>1. superseder' = superseder
    BY DEF SplitNodes
  <2> QED
    BY <1>0, <1>3, <1>5, <2>1 DEF Accounted, Unused, Live, Present
<1>7. ASSUME S \cap T = {}, NEW p \in Range(node), NEW q \in Range(node), p # q
      PROVE  call'.share[p] \cap call'.share[q] = {}
  <2> DEFINE at(k) == CHOOSE n \in DOMAIN shares : node[n] = k
  <2>1. /\ at(p) \in DOMAIN shares /\ node[at(p)] = p
        /\ at(q) \in DOMAIN shares /\ node[at(q)] = q
    BY <1>3 DEF Range
  <2>2. call'.share[p] = shares[at(p)] /\ call'.share[q] = shares[at(q)]
    BY <1>1
  <2>3. at(p) # at(q)
    BY <1>7, <2>1
  <2>4. \A m, n \in {1, 2} : m # n => shares[m] \cap shares[n] = {}
    BY <1>7
  <2> HIDE DEF at, shares
  <2> QED
    BY <1>2, <2>1, <2>2, <2>3, <2>4
<1>8. call'.kind = "split" /\ call'.parts = Range(node)
  BY <1>1
<1> HIDE DEF shares
<1> QED
  BY <1>3, <1>5, <1>6, <1>7, <1>8

LEMMA UntangledParts ==
    ASSUME Inv, Untangled, NEW i \in Ids, NEW S \in SUBSET Owed(i), NEW T \in SUBSET Owed(i),
           SplitNodes(i, <<S, T>>)
    PROVE  Untangled'
<1>1. /\ UNCHANGED <<superseder, deps, finalized>>
      /\ <<"finalize", "edges">> \in keys' <=> <<"finalize", "edges">> \in keys
  BY DEF SplitNodes
<1>2. /\ call'.kind = "split" /\ call'.parts \in SUBSET (Ids \ Present)
      /\ Present' = Present \cup call'.parts /\ Live' = Live \cup call'.parts
  BY PartsAreNew
<1>3. PICK new \in SUBSET (Ids \ Present) : new = call'.parts
  BY <1>2
<1>4. /\ Waits' /\ NoKnot' /\ WiredOnce'
      /\ \A j \in Live' : deps'[j] \cap new = {}
  BY <1>1, <1>2, <1>3, NewcomersUntangled
<1>5. EdgesSorted' /\ PartsUnawaited'
  BY <1>2, <1>3, <1>4 DEF EdgesSorted, PartsUnawaited
<1> QED
  BY <1>4, <1>5 DEF Untangled

\* A circle through the parts was one through the sub-task they are parts of.
LEMMA UntangledWiring == Inv /\ Untangled /\ SplitWiring => Untangled'
<1> SUFFICES ASSUME Inv, Untangled, SplitWiring PROVE Untangled'
  OBVIOUS
<1>0. Accounted /\ TypeOK
  BY DEF Inv
<1> DEFINE of == call.of
           parts == call.parts
<1>1. /\ call.kind = "split" /\ call'.kind = "none"
      /\ superseder' = [superseder EXCEPT ![of] = call.first]
      /\ deps' = Rewired
      /\ UNCHANGED <<state, finalized>>
      /\ <<"finalize", "edges">> \in keys' <=> <<"finalize", "edges">> \in keys
  BY DEF SplitWiring, NoCall
<1>2. of \in Live /\ parts \subseteq Live /\ call.first \in Ids \ {0} /\ of \notin parts
  BY <1>0, <1>1, IdsAreNumbers DEF Accounted, SplitUnderWay, TypeOK, Live, Present
<1>3. \A j \in Live : deps[j] \subseteq Live /\ deps[j] \cap parts = {}
  BY <1>1 DEF Untangled, Waits, PartsUnawaited
<1>4. of \notin deps[of]
  <2>1. \E i \in {of} : deps[i] \cap {of} = {}
    BY <1>2 DEF Untangled, NoKnot
  <2> QED
    BY <2>1
<1>5. Present' = Present /\ Live' = Live \ {of}
  BY <1>0, <1>1, <1>2 DEF Present, Live, TypeOK
<1>6. \A j \in Ids :
        deps'[j] = IF j \in parts THEN deps[of]
                   ELSE IF of \in deps[j] THEN (deps[j] \ {of}) \cup parts
                   ELSE deps[j]
  BY <1>1 DEF Rewired
<1>7. Live \subseteq Ids
  BY DEF Live, Present
<1> HIDE DEF of, parts
<1>8. Waits'
  <2>1. ASSUME NEW i \in Live \ {of} PROVE deps'[i] \subseteq Live \ {of}
    BY <1>2, <1>3, <1>4, <1>6, <1>7
  <2>2. ASSUME NEW i \in Ids \ Present PROVE deps'[i] = {}
    BY <1>2, <1>6 DEF Untangled, Waits, Live
  <2> QED
    BY <1>5, <2>1, <2>2 DEF Waits
<1>9. NoKnot'
  <2> SUFFICES ASSUME NEW S \in SUBSET (Live \ {of}), S # {},
                      \A i \in S : deps'[i] \cap S # {}
               PROVE  FALSE
    BY <1>5 DEF NoKnot
  <2> DEFINE S0 == (S \ parts) \cup (IF S \cap parts # {} THEN {of} ELSE {})
  <2>1. S0 \subseteq Live /\ S0 # {}
    BY <1>2
  <2>2. PICK i \in S0 : deps[i] \cap S0 = {}
    BY <2>1 DEF Untangled, NoKnot
  <2>3. CASE i = of
    <3>1. PICK p \in S \cap parts : TRUE
      BY <2>2, <2>3
    <3>2. deps'[p] = deps[of]
      BY <1>2, <1>6, <1>7, <3>1
    <3>3. PICK q \in S : q \in deps[of]
      BY <3>1, <3>2
    <3>4. q \in S0
      BY <1>2, <1>3, <3>3
    <3> QED
      BY <2>2, <2>3, <3>3, <3>4
  <2>4. CASE i \in S \ parts
    <3>1. PICK q \in S : q \in deps'[i]
      BY <2>4
    <3>2. CASE of \in deps[i]
      <4>1. of \notin S0
        BY <2>2, <3>2
      <4>2. S \cap parts = {}
        BY <4>1
      <4>3. q \in deps[i] /\ q \in S0
        BY <1>6, <1>7, <2>4, <3>1, <3>2, <4>2
      <4> QED
        BY <2>2, <4>3
    <3>3. CASE of \notin deps[i]
      <4>1. q \in deps[i]
        BY <1>6, <1>7, <2>4, <3>1, <3>3
      <4>2. q \in S0
        BY <1>3, <2>4, <4>1
      <4> QED
        BY <2>2, <4>1, <4>2
    <3> QED
      BY <3>2, <3>3
  <2> QED
    BY <2>2, <2>3, <2>4
<1>10. WiredOnce'
  <2>1. ASSUME ~finalized, NEW j \in Ids PROVE deps'[j] = {}
    BY <1>2, <1>6, <1>7, <2>1 DEF Untangled, WiredOnce
  <2> QED
    BY <1>1, <2>1 DEF Untangled, WiredOnce
<1>11. EdgesSorted' /\ PartsUnawaited'
  BY <1>1 DEF EdgesSorted, PartsUnawaited
<1> QED
  BY <1>8, <1>9, <1>10, <1>11 DEF Untangled

LEMMA UntangledStep == Inv /\ Untangled /\ [Next]_vars => Untangled'
<1> SUFFICES ASSUME Inv, Untangled, [Next]_vars PROVE Untangled'
  OBVIOUS
<1>0. TypeOK
  BY DEF Inv
<1> DEFINE Still == /\ Present' = Present
                    /\ UNCHANGED <<deps, superseder, finalized>>
                    /\ <<"finalize", "edges">> \in keys' <=> <<"finalize", "edges">> \in keys
                    /\ call' = call \/ call'.kind \notin {"finalize", "split"}
<1>1. CASE Draft
  <2>1. ASSUME NEW n, NEW links, NEW sizes, SubmitContracts(n, links, sizes) PROVE Still
    BY <2>1 DEF SubmitContracts, taskVars, Present
  <2>2. ASSUME NEW c, NEW size, SupersedeContract(c, size) PROVE Still
    BY <2>2 DEF SupersedeContract, taskVars, Present
  <2>3. ASSUME NEW c, RetireContract(c) PROVE Still
    BY <2>3 DEF RetireContract, taskVars, Present
  <2>4. Still
    BY <1>1, <2>1, <2>2, <2>3 DEF Draft
  <2> QED
    BY <2>4, StillUntangled
<1>2. CASE FinalizeNodes
  BY <1>2, UntangledNodes
<1>3. CASE FinalizeEdges
  BY <1>3, UntangledEdges
<1>4. CASE FinalizeUnresolved \/ CaptureFingerprint \/ SplitRefused \/ Crash
  <2>1. Still
    BY <1>4 DEF FinalizeUnresolved, CaptureFingerprint, SplitRefused, Crash, NoCall,
                taskVars, Present
  <2> QED
    BY <2>1, StillUntangled
<1>5. ASSUME NEW i \in Ids, Serve(i) PROVE Untangled'
  <2>1. /\ i \in Present /\ call'.kind = "capture"
        /\ state' = [state EXCEPT ![i] = "in_progress"]
    BY <1>5 DEF Serve, Live
  <2>2. Present' = Present
    BY <1>0, <2>1 DEF Present, TypeOK
  <2>3. Still
    BY <1>5, <2>1, <2>2 DEF Serve
  <2> QED
    BY <2>3, StillUntangled
<1>6. ASSUME NEW i \in Ids, NEW evidence, Verify(i, evidence) PROVE Untangled'
  <2>1. Still
    BY <1>6 DEF Verify, taskVars, Present
  <2> QED
    BY <2>1, StillUntangled
<1>7. ASSUME NEW i \in Ids, NEW event \in Events, Report(i, event) PROVE Untangled'
  <2>1. PICK next \in StoredStates : state' = [state EXCEPT ![i] = next]
    BY <1>7 DEF Report
  <2>2. Present' = Present
    BY <1>0, <1>7, <2>1 DEF Present, TypeOK, StoredStates, Report, Live
  <2>3. Still
    BY <1>7, <2>2 DEF Report
  <2> QED
    BY <2>3, StillUntangled
<1>8. ASSUME NEW i \in Ids, NEW S \in SUBSET Owed(i), NEW T \in SUBSET Owed(i),
             SplitNodes(i, <<S, T>>)
      PROVE  Untangled'
  BY <1>8, UntangledParts
<1>9. CASE SplitWiring
  BY <1>9, UntangledWiring
<1>10. CASE Amend
  <2>1. ASSUME NEW d, AmendRetire(d) PROVE Still
    BY <2>1 DEF AmendRetire, taskVars, Present
  <2>2. ASSUME NEW i, NEW d, AmendAdd(i, d) PROVE Still
    BY <2>2 DEF AmendAdd, taskVars, Present
  <2>3. Still
    BY <1>10, <2>1, <2>2 DEF Amend
  <2> QED
    BY <2>3, StillUntangled
<1>11. CASE UNCHANGED vars
  BY <1>11, StillUntangled DEF vars, taskVars, Present
<1> QED
  BY <1>1, <1>2, <1>3, <1>4, <1>5, <1>6, <1>7, <1>8, <1>9, <1>10, <1>11
  DEF Next, Finalize, Split

\* Whatever is split, refused, retried or cut short, the graph has no circle, and
\* nobody waits for a sub-task that left it.
THEOREM GraphStaysUntangled == Spec => []Untangled
<1>1. Init => Inv /\ Untangled
  BY InvInit, UntangledInit
<1>2. (Inv /\ Untangled) /\ [Next]_vars => (Inv /\ Untangled)'
  BY TypeStep, AccountedStep, UntangledStep DEF Inv
<1> QED
  BY <1>1, <1>2, PTL DEF Spec

\* While the build is unfinished somebody can be served, completed or unblocked: of
\* the live sub-tasks that are not done, one waits for none of the others.
THEOREM SomebodyCanMove == Spec => []NeverAllWaiting
<1>1. Inv /\ Untangled => NeverAllWaiting
  <2> SUFFICES ASSUME Inv, Untangled, \E i \in Live : state[i] # "done"
               PROVE  \E i \in Live : Presented(i) \in {"ready", "in_progress", "blocked"}
    BY DEF NeverAllWaiting
  <2> DEFINE W == {i \in Live : state[i] # "done"}
  <2>1. PICK i \in W : deps[i] \cap W = {}
    BY DEF Untangled, NoKnot
  <2>2. DepsSatisfied(i)
    BY <2>1 DEF Untangled, Waits, DepsSatisfied
  <2>3. state[i] \in {"pending", "in_progress", "blocked", "rework_flagged"}
    BY <2>1 DEF Inv, TypeOK, StoredStates, Live, Present
  <2>4. Presented(i) \in {"ready", "in_progress", "blocked"}
    BY <2>2, <2>3 DEF Presented
  <2> QED
    BY <2>1, <2>4
<1> QED
  BY <1>1, Invariance, GraphStaysUntangled, PTL

---------------------------------------------------------------------------
(* Who is built before whom, when no call dies between its transactions    *)
(* and no split is refused at its second one.                              *)

Undisturbed == ~Crashes /\ ~Overlaps

\* No contract depends on itself.
NoSelfLink == \A l \in depends : l[1] # l[2]

\* While finalizing has its edges to write, there is one sub-task for each contract
\* that is live, and for no other.
OneNodeEach ==
    (call.kind = "finalize" /\ ~finalized) =>
        /\ call.edges = Edges
        /\ \A c \in LiveContracts : \E i \in Live : contract[i] = c
        /\ \A i, j \in Live : contract[i] = contract[j] => i = j

\* Sub-tasks are of live contracts, and there are none in a draft between calls.
NodesAreDerived ==
    /\ <<"finalize", "nodes">> \in keys <=> (finalized \/ call.kind = "finalize")
    /\ \A i \in Live : contract[i] \in LiveContracts

Unwired == IF call.kind = "split" THEN call.parts ELSE {}

\* Once the graph is wired, who is of a contract waits for all who are of one that it
\* depends on.
LinksAreWired ==
    finalized =>
        \A i, j \in Live \ Unwired :
            <<contract[i], contract[j]>> \in depends => j \in deps[i]

\* A split is of a finalized plan, and gives no duty to two parts.
SplitFairly ==
    call.kind = "split" =>
        /\ finalized
        /\ \A p, q \in call.parts : p # q => call.share[p] \cap call.share[q] = {}

\* Who is in progress has been served.
ServedBefore == \A i \in Ids : state[i] = "in_progress" => epoch[i] > 0

InOrder ==
    /\ NoSelfLink
    /\ OneNodeEach
    /\ NodesAreDerived
    /\ LinksAreWired
    /\ SplitFairly
    /\ ServedBefore

LEMMA InOrderInit == Init => InOrder
<1> SUFFICES ASSUME Init PROVE InOrder
  OBVIOUS
<1>1. Live = {} /\ keys = {} /\ ~finalized /\ call.kind = "none" /\ depends = {}
  BY DEF Init, Live, Present, NoCall
<1>2. ServedBefore
  BY DEF Init, ServedBefore
<1> QED
  BY <1>1, <1>2
  DEF InOrder, NoSelfLink, OneNodeEach, NodesAreDerived, LinksAreWired, SplitFairly

\* Steps that leave rows, edges, sub-tasks and the stage of the plan alone.
LEMMA StillInOrder ==
    ASSUME InOrder,
           Present' = Present,
           UNCHANGED <<drafted, heir, retired, depends, contract, superseder, deps, finalized>>,
           <<"finalize", "nodes">> \in keys' <=> <<"finalize", "nodes">> \in keys,
           \/ call' = call
           \/ /\ call.kind \notin {"finalize", "split"}
              /\ call'.kind \notin {"finalize", "split"},
           ServedBefore'
    PROVE  InOrder'
<1>1. Live' = Live /\ LiveContracts' = LiveContracts /\ Edges' = Edges /\ Unwired' = Unwired
  BY DEF Live, LiveContracts, Edges, Unwired
<1>2. NoSelfLink' /\ OneNodeEach' /\ NodesAreDerived'
  BY <1>1 DEF InOrder, NoSelfLink, OneNodeEach, NodesAreDerived
<1>3. LinksAreWired' /\ SplitFairly'
  BY <1>1 DEF InOrder, LinksAreWired, SplitFairly
<1> QED
  BY <1>2, <1>3 DEF InOrder

\* In a draft between calls there is no sub-task, and its rows may move.
LEMMA DraftInOrder == Inv /\ InOrder /\ Draft => InOrder'
<1> SUFFICES ASSUME Inv, InOrder, Draft PROVE InOrder'
  OBVIOUS
<1> DEFINE Drafted == /\ ~finalized /\ call = NoCall
                      /\ UNCHANGED <<finalized, state, contract, epoch, superseder, keys, call>>
                      /\ depends' \subseteq depends \cup {l \in depends' : l[1] # l[2]}
<1>1. ASSUME NEW n, NEW links, NEW sizes, SubmitContracts(n, links, sizes) PROVE Drafted
  BY <1>1 DEF SubmitContracts, Drafting, taskVars
<1>2. ASSUME NEW c, NEW size, SupersedeContract(c, size) PROVE Drafted
  BY <1>2 DEF SupersedeContract, Drafting, taskVars
<1>3. ASSUME NEW c, RetireContract(c) PROVE Drafted
  BY <1>3 DEF RetireContract, Drafting, taskVars
<1>4. Drafted
  BY <1>1, <1>2, <1>3 DEF Draft
<1>5. call.kind = "none" /\ <<"finalize", "nodes">> \notin keys
  BY <1>4 DEF InOrder, NodesAreDerived, NoCall
<1>6. Live' = {}
  BY <1>4, <1>5 DEF Inv, Accounted, NothingBefore, Live, Present
<1>7. NoSelfLink' /\ ServedBefore'
  BY <1>4 DEF InOrder, NoSelfLink, ServedBefore
<1>8. OneNodeEach' /\ NodesAreDerived' /\ LinksAreWired' /\ SplitFairly'
  BY <1>4, <1>5, <1>6 DEF OneNodeEach, NodesAreDerived, LinksAreWired, SplitFairly
<1> QED
  BY <1>7, <1>8 DEF InOrder

LEMMA NodesInOrder == Inv /\ InOrder /\ FinalizeNodes => InOrder'
<1> SUFFICES ASSUME Inv, InOrder, FinalizeNodes PROVE InOrder'
  OBVIOUS
<1>1. /\ call.kind = "none" /\ call' = [kind |-> "finalize", edges |-> Edges]
      /\ UNCHANGED <<drafted, heir, retired, depends, epoch, superseder, deps, finalized>>
      /\ <<"finalize", "nodes">> \in keys'
  BY DEF FinalizeNodes, NoCall, draftVars
<1>2. LiveContracts' = LiveContracts /\ Edges' = Edges /\ Unwired = {} /\ Unwired' = {}
  BY <1>1 DEF LiveContracts, Edges, Unwired
<1>3. NoSelfLink' /\ SplitFairly'
  BY <1>1 DEF InOrder, NoSelfLink, SplitFairly
<1>4. CASE <<"finalize", "nodes">> \in keys
  <2>1. finalized
    BY <1>1, <1>4 DEF InOrder, NodesAreDerived
  <2>2. UNCHANGED <<state, contract>> /\ Live' = Live
    BY <1>1, <1>4 DEF FinalizeNodes, Live, Present
  <2>3. OneNodeEach' /\ NodesAreDerived' /\ LinksAreWired' /\ ServedBefore'
    BY <1>1, <1>2, <2>1, <2>2
    DEF InOrder, OneNodeEach, NodesAreDerived, LinksAreWired, ServedBefore
  <2> QED
    BY <1>3, <2>3 DEF InOrder
<1>5. CASE <<"finalize", "nodes">> \notin keys
  <2>1. ~finalized /\ Present = {} /\ Live = {}
    BY <1>1, <1>5 DEF InOrder, NodesAreDerived, Inv, Accounted, NothingBefore, Live
  <2>2. PICK node \in [LiveContracts -> Ids \ Present] :
          /\ Present' = Present \cup Range(node)
          /\ Live' = Live \cup Range(node)
          /\ \A c \in LiveContracts : contract'[node[c]] = c
          /\ \A i \in Range(node) : state'[i] = "pending"
    BY <1>5, NodesAreNew
  <2>3. \A i \in Live' : \E c \in LiveContracts : i = node[c]
    BY <2>1, <2>2 DEF Range
  <2>4. \A c \in LiveContracts : node[c] \in Live'
    BY <2>2 DEF Range
  <2>5. \A i \in Live' : contract'[i] \in LiveContracts /\ i = node[contract'[i]]
    BY <2>2, <2>3
  <2>6. OneNodeEach'
    BY <1>1, <1>2, <2>2, <2>4, <2>5 DEF OneNodeEach
  <2>7. NodesAreDerived' /\ LinksAreWired'
    BY <1>1, <1>2, <2>1, <2>5 DEF NodesAreDerived, LinksAreWired
  <2>8. ServedBefore'
    BY <2>1, <2>2 DEF ServedBefore, Present
  <2> QED
    BY <1>3, <2>6, <2>7, <2>8 DEF InOrder
<1> QED
  BY <1>4, <1>5

\* Of a contract there is one sub-task when the edges are written: the dictionary
\* from contract to sub-task has them all.
LEMMA EdgesInOrder == Inv /\ Untangled /\ InOrder /\ FinalizeEdges => InOrder'
<1> SUFFICES ASSUME Inv, Untangled, InOrder, FinalizeEdges PROVE InOrder'
  OBVIOUS
<1>1. /\ call.kind = "finalize" /\ call'.kind = "capture"
      /\ UNCHANGED <<drafted, heir, retired, depends, state, contract, epoch, superseder>>
      /\ <<"finalize", "nodes">> \in keys' <=> <<"finalize", "nodes">> \in keys
  BY DEF FinalizeEdges, draftVars
<1>2. /\ LiveContracts' = LiveContracts /\ Live' = Live
      /\ Unwired = {} /\ Unwired' = {}
  BY <1>1 DEF LiveContracts, Live, Present, Unwired
<1>3. /\ NoSelfLink' /\ OneNodeEach' /\ SplitFairly' /\ ServedBefore'
      /\ <<"finalize", "nodes">> \in keys /\ \A i \in Live : contract[i] \in LiveContracts
  BY <1>1 DEF InOrder, NoSelfLink, OneNodeEach, SplitFairly, ServedBefore, NodesAreDerived
<1>4. CASE <<"finalize", "edges">> \in keys
  <2>1. finalized /\ UNCHANGED <<deps, finalized>>
    BY <1>4 DEF Untangled, WiredOnce, FinalizeEdges
  <2>2. NodesAreDerived' /\ LinksAreWired'
    BY <1>1, <1>2, <1>3, <2>1 DEF InOrder, NodesAreDerived, LinksAreWired
  <2> QED
    BY <1>3, <2>2 DEF InOrder
<1>5. CASE <<"finalize", "edges">> \notin keys
  <2>1. /\ deps' = [i \in Ids |-> deps[i] \cup
               UNION {NodeOf(l[2]) : l \in {m \in call.edges : i \in NodeOf(m[1])}}]
        /\ finalized'
    BY <1>5 DEF FinalizeEdges
  <2>2. /\ call.edges = Edges
        /\ \A i, j \in Live : contract[i] = contract[j] => i = j
    BY <1>1, <1>5 DEF InOrder, OneNodeEach, Untangled, WiredOnce
  <2>3. ASSUME NEW i \in Live PROVE i \in NodeOf(contract[i])
    <3>1. i \in Nat
      BY IdsAreNumbers DEF Live, Present
    <3> QED
      BY <2>2, <3>1 DEF NodeOf
  <2>4. ASSUME NEW i \in Live, NEW j \in Live, <<contract[i], contract[j]>> \in depends
        PROVE  j \in deps'[i]
    <3> DEFINE l == <<contract[i], contract[j]>>
    <3>1. l \in call.edges
      BY <1>3, <2>2, <2>4 DEF Edges
    <3>2. i \in NodeOf(l[1]) /\ j \in NodeOf(l[2])
      BY <2>3
    <3>3. i \in Ids
      BY DEF Live, Present
    <3> HIDE DEF l
    <3> QED
      BY <2>1, <3>1, <3>2, <3>3
  <2>5. NodesAreDerived' /\ LinksAreWired'
    BY <1>1, <1>2, <1>3, <2>1, <2>4 DEF NodesAreDerived, LinksAreWired
  <2> QED
    BY <1>3, <2>5 DEF InOrder
<1> QED
  BY <1>4, <1>5

\* Every contract of an edge has its sub-task: the retry that finds a KeyError is one
\* whose plan was cut short and edited.
LEMMA UnresolvedInOrder ==
    Inv /\ Untangled /\ InOrder /\ FinalizeUnresolved => InOrder'
<1> SUFFICES ASSUME Inv, Untangled, InOrder, FinalizeUnresolved PROVE InOrder'
  OBVIOUS
<1>1. /\ call.kind = "finalize" /\ ~Resolved /\ call'.kind = "none"
      /\ UNCHANGED <<drafted, heir, retired, depends, finalized, state, contract, epoch,
                     superseder, deps, keys>>
  BY DEF FinalizeUnresolved, NoCall, draftVars, taskVars
<1>2. finalized
  <2> SUFFICES ASSUME ~finalized PROVE FALSE
    OBVIOUS
  <2>1. /\ call.edges = Edges
        /\ \A c \in LiveContracts : \E i \in Live : contract[i] = c
        /\ \A i, j \in Live : contract[i] = contract[j] => i = j
    BY <1>1 DEF InOrder, OneNodeEach
  <2>2. ASSUME NEW c \in LiveContracts PROVE NodeOf(c) # {}
    <3>1. PICK i \in Live : contract[i] = c
      BY <2>1
    <3>2. i \in Nat
      BY IdsAreNumbers DEF Live, Present
    <3>3. i \in NodeOf(c)
      BY <2>1, <3>1, <3>2 DEF NodeOf
    <3> QED
      BY <3>3
  <2>3. Resolved
    BY <2>1, <2>2 DEF Resolved, Edges
  <2> QED
    BY <1>1, <2>3
<1>3. /\ LiveContracts' = LiveContracts /\ Live' = Live
      /\ Unwired = {} /\ Unwired' = {}
  BY <1>1 DEF LiveContracts, Live, Present, Unwired
<1>4. NoSelfLink' /\ OneNodeEach' /\ SplitFairly' /\ ServedBefore'
  BY <1>1 DEF InOrder, NoSelfLink, OneNodeEach, SplitFairly, ServedBefore
<1>5. NodesAreDerived' /\ LinksAreWired'
  BY <1>1, <1>2, <1>3 DEF InOrder, NodesAreDerived, LinksAreWired
<1> QED
  BY <1>4, <1>5 DEF InOrder

LEMMA PartsInOrder ==
    ASSUME Undisturbed, Inv, InOrder, NEW i \in Ids,
           NEW S \in SUBSET Owed(i), NEW T \in SUBSET Owed(i), SplitNodes(i, <<S, T>>)
    PROVE  InOrder'
<1>1. /\ call.kind = "none" /\ i \in Live /\ Owed(i) # {}
      /\ UNCHANGED <<drafted, heir, retired, depends, finalized, epoch, superseder, deps>>
      /\ <<"finalize", "nodes">> \in keys' <=> <<"finalize", "nodes">> \in keys
  BY DEF SplitNodes, NoCall, draftVars
<1>2. /\ call'.kind = "split" /\ call'.parts \in SUBSET (Ids \ Present)
      /\ Present' = Present \cup call'.parts
      /\ Live' = Live \cup call'.parts
      /\ \A k \in Present : contract'[k] = contract[k] /\ state'[k] = state[k]
      /\ \A k \in call'.parts : contract'[k] = contract[i] /\ state'[k] = "pending"
      /\ S \cap T = {} =>
           \A p, q \in call'.parts : p # q => call'.share[p] \cap call'.share[q] = {}
  BY PartsAreNew
<1>3. finalized /\ <<"finalize", "nodes">> \in keys
  <2>1. owns # {}
    BY <1>1 DEF Owed
  <2> QED
    BY <1>1, <2>1 DEF Inv, Accounted, NothingBefore, InOrder, NodesAreDerived
<1>4. S \cap T = {}
  <2> DEFINE shares == <<S, T>>
  <2>1. \A m, n \in DOMAIN shares : m # n => shares[m] \cap shares[n] = {}
    BY DEF SplitNodes, Shared, Undisturbed
  <2>2. shares[1] \cap shares[2] = {}
    BY <2>1
  <2> QED
    BY <2>2
<1>5. /\ LiveContracts' = LiveContracts
      /\ Live' \ Unwired' = Live /\ Unwired = {}
  BY <1>1, <1>2 DEF LiveContracts, Unwired, Live
<1>6. Live \subseteq Present
  BY DEF Live
<1>7. NoSelfLink' /\ OneNodeEach' /\ SplitFairly'
  BY <1>1, <1>2, <1>3, <1>4 DEF InOrder, NoSelfLink, OneNodeEach, SplitFairly
<1>8. NodesAreDerived'
  BY <1>1, <1>2, <1>3, <1>5, <1>6 DEF InOrder, NodesAreDerived
<1>9. LinksAreWired'
  BY <1>1, <1>2, <1>3, <1>5, <1>6 DEF InOrder, LinksAreWired
<1>10. ServedBefore'
  BY <1>1, <1>2 DEF InOrder, ServedBefore, Present
<1> QED
  BY <1>7, <1>8, <1>9, <1>10 DEF InOrder

LEMMA WiringInOrder == Inv /\ InOrder /\ SplitWiring => InOrder'
<1> SUFFICES ASSUME Inv, InOrder, SplitWiring PROVE InOrder'
  OBVIOUS
<1>0. Accounted /\ TypeOK
  BY DEF Inv
<1> DEFINE of == call.of
           parts == call.parts
<1>1. /\ call.kind = "split" /\ call'.kind = "none"
      /\ superseder' = [superseder EXCEPT ![of] = call.first]
      /\ deps' = Rewired
      /\ UNCHANGED <<drafted, heir, retired, depends, finalized, state, contract, epoch>>
      /\ <<"finalize", "nodes">> \in keys' <=> <<"finalize", "nodes">> \in keys
  BY DEF SplitWiring, NoCall, draftVars
<1>2. /\ of \in Live /\ parts \subseteq Live /\ call.first \in Ids \ {0} /\ of \notin parts
      /\ \A p \in parts : contract[p] = contract[of]
  BY <1>0, <1>1, IdsAreNumbers DEF Accounted, SplitUnderWay, TypeOK, Live, Present
<1>3. Live' = Live \ {of}
  BY <1>0, <1>1, <1>2 DEF Present, Live, TypeOK
<1>4. \A j \in Ids :
        deps'[j] = IF j \in parts THEN deps[of]
                   ELSE IF of \in deps[j] THEN (deps[j] \ {of}) \cup parts
                   ELSE deps[j]
  BY <1>1 DEF Rewired
<1>5. Live \subseteq Ids /\ LiveContracts' = LiveContracts
      /\ Unwired = parts /\ Unwired' = {} /\ finalized
  BY <1>1 DEF Live, Present, LiveContracts, Unwired, InOrder, SplitFairly
<1> HIDE DEF of, parts
<1>6. LinksAreWired'
  <2> SUFFICES ASSUME NEW i \in Live \ {of}, NEW j \in Live \ {of},
                      <<contract[i], contract[j]>> \in depends
               PROVE  j \in deps'[i]
    BY <1>1, <1>3, <1>5 DEF LinksAreWired
  <2>1. \A m, n \in Live \ parts : <<contract[m], contract[n]>> \in depends => n \in deps[m]
    BY <1>5 DEF InOrder, LinksAreWired
  <2>2. CASE i \in parts /\ j \in parts
    <3>1. contract[i] = contract[j]
      BY <1>2, <2>2
    <3> QED
      BY <3>1 DEF InOrder, NoSelfLink
  <2>3. CASE i \in parts /\ j \notin parts
    <3>1. j \in deps[of]
      BY <1>2, <2>1, <2>3
    <3> QED
      BY <1>4, <1>5, <2>3, <3>1
  <2>4. CASE i \notin parts /\ j \in parts
    <3>1. of \in deps[i]
      BY <1>2, <2>1, <2>4
    <3> QED
      BY <1>4, <1>5, <2>4, <3>1
  <2>5. CASE i \notin parts /\ j \notin parts
    <3>1. j \in deps[i]
      BY <2>1, <2>5
    <3> QED
      BY <1>4, <1>5, <2>5, <3>1
  <2> QED
    BY <2>2, <2>3, <2>4, <2>5
<1>7. NoSelfLink' /\ OneNodeEach' /\ SplitFairly' /\ ServedBefore'
  BY <1>1 DEF InOrder, NoSelfLink, OneNodeEach, SplitFairly, ServedBefore
<1>8. NodesAreDerived'
  BY <1>1, <1>3, <1>5 DEF InOrder, NodesAreDerived
<1> QED
  BY <1>6, <1>7, <1>8 DEF InOrder

\* A split whose parts share no duty passes the index.
LEMMA FairIsIndexable ==
    ASSUME Inv, InOrder, call.kind = "split"
    PROVE  Indexable
<1>1. /\ OwnedOnce(owns)
      /\ \A p \in call.parts : call.share[p] \subseteq Owed(call.of)
      /\ \A p, q \in call.parts : p # q => call.share[p] \cap call.share[q] = {}
  BY DEF Inv, Accounted, OneLiveOwner, SplitUnderWay, InOrder, SplitFairly
<1>2. \A p \in call.parts : \A d \in call.share[p] : <<call.of, d>> \in owns
  BY <1>1 DEF Owed
<1> SUFFICES ASSUME NEW p \in Redistributed, NEW q \in Redistributed, p[2] = q[2]
             PROVE  p[1] = q[1]
  BY DEF Indexable, OwnedOnce
<1> DEFINE Kept(r) == r \in owns /\ r[1] # call.of
           Given(r) == r[1] \in call.parts /\ r[2] \in call.share[r[1]]
<1>3. (Kept(p) \/ Given(p)) /\ (Kept(q) \/ Given(q))
  BY DEF Redistributed
<1>4. ASSUME NEW r \in Redistributed, NEW s \in Redistributed, Kept(r), Given(s), r[2] = s[2]
      PROVE  FALSE
  <2>1. <<call.of, s[2]>> \in owns
    BY <1>2, <1>4
  <2>2. r[1] = <<call.of, s[2]>>[1]
    BY <1>1, <1>4, <2>1 DEF OwnedOnce
  <2> QED
    BY <1>4, <2>2
<1>5. CASE Kept(p) /\ Kept(q)
  BY <1>1, <1>5 DEF OwnedOnce
<1>6. CASE Given(p) /\ Given(q)
  BY <1>1, <1>6
<1> QED
  BY <1>3, <1>4, <1>5, <1>6

LEMMA InOrderStep ==
    Undisturbed /\ Inv /\ Untangled /\ InOrder /\ [Next]_vars => InOrder'
<1> SUFFICES ASSUME Undisturbed, Inv, Untangled, InOrder, [Next]_vars PROVE InOrder'
  OBVIOUS
<1>0. TypeOK
  BY DEF Inv
<1> DEFINE Still ==
        /\ Present' = Present
        /\ UNCHANGED <<drafted, heir, retired, depends, contract, superseder, deps, finalized>>
        /\ <<"finalize", "nodes">> \in keys' <=> <<"finalize", "nodes">> \in keys
        /\ \/ call' = call
           \/ /\ call.kind \notin {"finalize", "split"}
              /\ call'.kind \notin {"finalize", "split"}
        /\ ServedBefore'
<1>1. CASE Draft
  BY <1>1, DraftInOrder
<1>2. CASE FinalizeNodes
  BY <1>2, NodesInOrder
<1>3. CASE FinalizeEdges
  BY <1>3, EdgesInOrder
<1>4. CASE FinalizeUnresolved
  BY <1>4, UnresolvedInOrder
<1>5. CASE CaptureFingerprint
  <2>1. Still
    BY <1>5 DEF CaptureFingerprint, NoCall, draftVars, taskVars, Present, InOrder, ServedBefore
  <2> QED
    BY <2>1, StillInOrder
<1>6. ASSUME NEW i \in Ids, Serve(i) PROVE InOrder'
  <2>1. /\ i \in Present /\ call.kind = "none" /\ call'.kind = "capture"
        /\ state' = [state EXCEPT ![i] = "in_progress"]
        /\ epoch' = [epoch EXCEPT ![i] = epoch[i] + 1]
    BY <1>6 DEF Serve, Live, NoCall
  <2>2. Present' = Present
    BY <1>0, <2>1 DEF Present, TypeOK
  <2>3. ServedBefore'
    BY <1>0, <2>1 DEF InOrder, ServedBefore, TypeOK
  <2>4. Still
    BY <1>6, <2>1, <2>2, <2>3 DEF Serve, draftVars
  <2> QED
    BY <2>4, StillInOrder
<1>7. ASSUME NEW i \in Ids, NEW evidence, Verify(i, evidence) PROVE InOrder'
  <2>1. Still
    BY <1>7 DEF Verify, draftVars, taskVars, Present, InOrder, ServedBefore
  <2> QED
    BY <2>1, StillInOrder
<1>8. ASSUME NEW i \in Ids, NEW event \in Events, Report(i, event) PROVE InOrder'
  <2>1. PICK next \in StoredStates :
          Step(i, event, next) /\ state' = [state EXCEPT ![i] = next]
    BY <1>8 DEF Report
  <2>2. Present' = Present
    BY <1>0, <1>8, <2>1 DEF Present, TypeOK, StoredStates, Report, Live
  <2>3. epoch' = epoch /\ event \in Events
    BY <1>8 DEF Report
  <2>4. next = "in_progress" => event = "serve_brief"
    BY <2>1 DEF Step, Transitions
  <2>5. next # "in_progress"
    BY <2>3, <2>4, EventsAreReports
  <2>6. ServedBefore'
    BY <1>0, <2>1, <2>3, <2>5 DEF InOrder, ServedBefore, TypeOK
  <2>7. Still
    BY <1>8, <2>2, <2>6 DEF Report, draftVars
  <2> QED
    BY <2>7, StillInOrder
<1>9. ASSUME NEW i \in Ids, NEW S \in SUBSET Owed(i), NEW T \in SUBSET Owed(i),
             SplitNodes(i, <<S, T>>)
      PROVE  InOrder'
  BY <1>9, PartsInOrder
<1>10. CASE SplitWiring
  BY <1>10, WiringInOrder
<1>11. CASE SplitRefused
  BY <1>11, FairIsIndexable DEF SplitRefused
<1>12. CASE Amend
  <2>1. ASSUME NEW d, AmendRetire(d) PROVE Still
    BY <2>1 DEF AmendRetire, draftVars, taskVars, Present, InOrder, ServedBefore
  <2>2. ASSUME NEW i, NEW d, AmendAdd(i, d) PROVE Still
    BY <2>2 DEF AmendAdd, draftVars, taskVars, Present, InOrder, ServedBefore
  <2>3. Still
    BY <1>12, <2>1, <2>2 DEF Amend
  <2> QED
    BY <2>3, StillInOrder
<1>13. CASE Crash
  BY <1>13 DEF Crash, Undisturbed
<1>14. CASE UNCHANGED vars
  <2>1. Still
    BY <1>14 DEF vars, draftVars, taskVars, Present, InOrder, ServedBefore
  <2> QED
    BY <2>1, StillInOrder
<1> QED
  BY <1>1, <1>2, <1>3, <1>4, <1>5, <1>6, <1>7, <1>8, <1>9, <1>10, <1>11, <1>12, <1>13, <1>14
  DEF Next, Finalize, Split

\* Nothing but serving moves an epoch.
LEMMA ServingStartsEpochs ==
    ASSUME Next, NEW i \in Ids, epoch'[i] # epoch[i]
    PROVE  \E k \in Ids : Serve(k)
<1>1. Draft => epoch' = epoch
  BY DEF Draft, SubmitContracts, SupersedeContract, RetireContract, taskVars
<1>2. Finalize \/ CaptureFingerprint => epoch' = epoch
  BY DEF Finalize, FinalizeNodes, FinalizeEdges, FinalizeUnresolved, CaptureFingerprint, taskVars
<1>3. \A k, evidence : Verify(k, evidence) => epoch' = epoch
  BY DEF Verify, taskVars
<1>4. \A k, event : Report(k, event) => epoch' = epoch
  BY DEF Report
<1>5. Split => epoch' = epoch
  <2>1. \A k, shares : SplitNodes(k, shares) => epoch' = epoch
    BY DEF SplitNodes
  <2>2. SplitWiring \/ SplitRefused => epoch' = epoch
    BY DEF SplitWiring, SplitRefused, taskVars
  <2> QED
    BY <2>1, <2>2 DEF Split
<1>6. Amend \/ Crash => epoch' = epoch
  BY DEF Amend, AmendRetire, AmendAdd, Crash, taskVars
<1> QED
  BY <1>1, <1>2, <1>3, <1>4, <1>5, <1>6 DEF Next

\* However often contracts are split, amended and redrafted: what is served for the
\* first time finds everything built that its contract depends on - unless a call
\* died between its transactions, or a split was refused at its second, either of
\* which leaves sub-tasks that wait for nobody.
THEOREM BuiltInOrder == Undisturbed /\ Spec => ServedInOrder
<1> DEFINE Ordered == Undisturbed /\ Inv /\ Untangled /\ InOrder
<1>1. Undisturbed /\ Init => Ordered
  BY InvInit, UntangledInit, InOrderInit
<1>2. Ordered /\ [Next]_vars => Ordered'
  <2>1. Undisturbed => Undisturbed'
    BY DEF Undisturbed
  <2> QED
    BY <2>1, TypeStep, AccountedStep, UntangledStep, InOrderStep DEF Inv
<1>3. Ordered /\ [Next]_vars =>
        [\A i, j \in Ids :
          (epoch[i] = 0 /\ epoch'[i] = 1 /\ j \in Live /\ <<contract[i], contract[j]>> \in depends)
              => state[j] = "done"]_vars
  <2> SUFFICES ASSUME Ordered, Next, NEW i \in Ids, NEW j \in Live,
                      epoch[i] = 0, epoch'[i] = 1,
                      <<contract[i], contract[j]>> \in depends
               PROVE  state[j] = "done"
    OBVIOUS
  <2>1. PICK k \in Ids : Serve(k)
    BY ServingStartsEpochs
  <2>2. /\ k \in Live /\ Step(k, "serve_brief", "in_progress")
        /\ epoch' = [epoch EXCEPT ![k] = epoch[k] + 1] /\ call.kind = "none"
    BY <2>1 DEF Serve, NoCall
  <2>3. k = i
    BY <2>2 DEF Inv, TypeOK
  <2>4. state[i] # "in_progress" /\ i \in Live
    BY <2>2, <2>3 DEF InOrder, ServedBefore
  <2>5. DepsSatisfied(i)
    <3>1. Presented(i) \in {"ready", "in_progress"}
      BY <2>2, <2>3 DEF Step, Transitions
    <3>2. state[i] # "ready"
      BY DEF Inv, TypeOK, StoredStates
    <3> QED
      BY <2>4, <3>1, <3>2 DEF Presented
  <2>6. j \in deps[i]
    <3>1. finalized
      BY <2>2, <2>4 DEF Inv, Accounted, NothingBefore, Live, InOrder, NodesAreDerived
    <3>2. Unwired = {}
      BY <2>2 DEF Unwired
    <3> QED
      BY <2>4, <3>1, <3>2 DEF InOrder, LinksAreWired
  <2> QED
    BY <2>5, <2>6 DEF DepsSatisfied
<1> HIDE DEF Ordered
<1> QED
  BY <1>1, <1>2, <1>3, PTL DEF Spec, ServedInOrder
=============================================================================
