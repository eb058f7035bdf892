----------------------------- MODULE Ledgers_proofs -----------------------------
(***************************************************************************)
(* Theorems of Ledgers, for any plans, words, scopes and bounds: whose     *)
(* assent a meaning has (AssentIsGiven), that an experiment can always be  *)
(* brought to its end (SpikesConclude), that what is settled stays so      *)
(* (VerdictsStand), that a refutation contests all that rests on it and no *)
(* more (RefutationContests), that no row's reach grows unexplained        *)
(* (BroadeningsLogged), that briefs are chained (BriefsChain) and that     *)
(* what is quoted is there (QuotesVerified).                               *)
(*                                                                         *)
(* Most are about what the keys used say of the state, and rest on an      *)
(* invariant that says where in its life something can be while a key of   *)
(* its own is still free.                                                  *)
(***************************************************************************)
EXTENDS Ledgers, ListLemmas, Closures

---------------------------------------------------------------------------
(* The glossary.                                                           *)

Term == [word : Lexicon, means : Meanings, approved : BOOLEAN, banned : BOOLEAN,
         instead : Lexicon, live : BOOLEAN]

\* What a word means now is the last entry filed for it.
LastIsLive ==
    \A i, j \in DOMAIN terms : (i < j /\ terms[i].word = terms[j].word) => ~terms[i].live

\* Somebody has assented to an entry, as AssentIsGiven has it.
Assented(i) ==
    \/ <<"approve_term", i>> \in receipts
    \/ \E j \in 1..(i - 1) :
        /\ terms[j].word = terms[i].word /\ <<"succeed_term", j, TRUE>> \in receipts
        /\ \A k \in (j + 1)..(i - 1) : terms[k].word # terms[i].word

GlossaryInv == terms \in Seq(Term) /\ LastIsLive /\ AssentIsGiven

\* Whoever leaves the terms alone and takes no key back keeps the invariant.
LEMMA GlossaryElsewhere ==
    ASSUME GlossaryInv, UNCHANGED terms, receipts \subseteq receipts'
    PROVE  GlossaryInv'
BY DEF GlossaryInv, LastIsLive, AssentIsGiven

\* As long as no entry is taken out or becomes another word's, an assent stays one.
LEMMA AssentStays ==
    ASSUME GlossaryInv, receipts \subseteq receipts',
           \A k \in DOMAIN terms : terms'[k].word = terms[k].word,
           NEW i \in DOMAIN terms, terms[i].approved
    PROVE  Assented(i)'
<1>1. \A k \in 1..i : k \in DOMAIN terms
  BY DEF GlossaryInv
<1>2. i \in Nat
  BY DEF GlossaryInv
<1>3. Assented(i)
  BY Zenon DEF GlossaryInv, AssentIsGiven, Assented
<1>4. CASE <<"approve_term", i>> \in receipts
  BY <1>4 DEF Assented
<1>5. CASE <<"approve_term", i>> \notin receipts
  <2>1. PICK j \in 1..(i - 1) :
            /\ terms[j].word = terms[i].word /\ <<"succeed_term", j, TRUE>> \in receipts
            /\ \A k \in (j + 1)..(i - 1) : terms[k].word # terms[i].word
    BY <1>3, <1>5 DEF Assented
  <2>2. /\ terms'[j].word = terms'[i].word /\ <<"succeed_term", j, TRUE>> \in receipts'
        /\ \A k \in (j + 1)..(i - 1) : terms'[k].word # terms'[i].word
    BY <2>1, <1>1, <1>2
  <2> QED
    BY <2>2 DEF Assented
<1> QED
  BY <1>4, <1>5

\* A first meaning is nobody's yet.
LEMMA DefineKeepsAssent ==
    ASSUME GlossaryInv, NEW w \in Lexicon, NEW d \in Meanings, DefineTerm(w, d)
    PROVE  GlossaryInv'
<1> DEFINE e == Entry(w, d, FALSE, FALSE, w)
<1>1. e \in Term /\ e.word = w /\ ~e.approved
  BY DEF e, Entry, Term
<1>2. /\ terms' = Append(terms, e) /\ receipts \subseteq receipts'
      /\ \A i \in DOMAIN terms : terms[i].word = w => ~terms[i].live
  BY DEF DefineTerm, Current, Write
<1>3. terms \in Seq(Term)
  BY DEF GlossaryInv
<1> HIDE DEF e
<1>4. /\ terms' \in Seq(Term) /\ Len(terms') = Len(terms) + 1
      /\ DOMAIN terms' = DOMAIN terms \cup {Len(terms) + 1}
      /\ \A i \in DOMAIN terms : terms'[i] = terms[i]
      /\ terms'[Len(terms) + 1] = e
  BY <1>1, <1>2, <1>3
<1>5. LastIsLive'
  BY <1>1, <1>2, <1>3, <1>4 DEF GlossaryInv, LastIsLive
<1>6. \A i \in DOMAIN terms' : terms'[i].approved => Assented(i)'
  BY <1>1, <1>2, <1>4, AssentStays
<1> QED
  BY <1>4, <1>5, <1>6 DEF GlossaryInv, AssentIsGiven, Assented

\* The successor of an entry is the owner's if he wrote it on approving, and follows the
\* entry he was shown.
LEMMA SucceedKeepsAssent ==
    ASSUME GlossaryInv, NEW i \in DOMAIN terms, terms[i].live,
           NEW d \in Meanings, NEW assent \in BOOLEAN, Succeed(i, d, assent)
    PROVE  GlossaryInv'
<1> DEFINE e == Successor(terms[i], d, assent)
           old == [terms[i] EXCEPT !.live = FALSE]
           before == [terms EXCEPT ![i] = old]
<1> PICK n : n = Len(terms) + 1
  OBVIOUS
<1>1. terms \in Seq(Term) /\ terms[i] \in Term /\ n \in Nat /\ i \in 1..Len(terms)
  BY DEF GlossaryInv
<1>2. e \in Term /\ e.word = terms[i].word /\ e.approved = assent
  BY <1>1 DEF e, Successor, Entry, Term
<1>3. /\ terms' = Append(before, e)
      /\ receipts' = receipts \cup {<<"succeed_term", i, assent>>}
  BY DEF Succeed, Write
<1>4. /\ old \in Term /\ old.word = terms[i].word /\ old.approved = terms[i].approved
      /\ ~old.live
  BY <1>1 DEF Term, old
<1> HIDE DEF e, old
<1>5. /\ before \in Seq(Term) /\ Len(before) = Len(terms)
      /\ \A k \in 1..Len(terms) : before[k] = IF k = i THEN old ELSE terms[k]
  BY <1>1, <1>4, ExceptSeq
<1> HIDE DEF before
<1>6. /\ terms' \in Seq(Term) /\ Len(terms') = n
      /\ DOMAIN terms' = DOMAIN terms \cup {n}
      /\ terms'[n] = e
      /\ \A k \in 1..Len(terms) : terms'[k] = IF k = i THEN old ELSE terms[k]
  BY <1>1, <1>2, <1>3, <1>5
<1>7. \A k \in DOMAIN terms : /\ terms'[k].word = terms[k].word
                              /\ terms'[k].approved = terms[k].approved
                              /\ terms'[k].live => k # i /\ terms[k].live
  BY <1>1, <1>4, <1>6
<1>8. \A k \in DOMAIN terms : (k # i /\ terms[k].word = terms[i].word) => k < i /\ ~terms[k].live
  BY <1>1 DEF GlossaryInv, LastIsLive
<1>9. LastIsLive'
  <2> SUFFICES ASSUME NEW j \in DOMAIN terms', NEW k \in DOMAIN terms', j < k,
                      terms'[j].word = terms'[k].word
               PROVE  ~terms'[j].live
    BY DEF LastIsLive
  <2>1. j \in DOMAIN terms
    BY <1>1, <1>6
  <2>2. CASE k \in DOMAIN terms
    BY <2>1, <2>2, <1>7 DEF GlossaryInv, LastIsLive
  <2>3. CASE k = n
    BY <2>1, <2>3, <1>2, <1>6, <1>7, <1>8
  <2> QED
    BY <2>2, <2>3, <1>6
<1>10. Assented(n)' \/ ~assent
  <2> SUFFICES ASSUME assent PROVE Assented(n)'
    OBVIOUS
  <2>1. i \in 1..(n - 1) /\ terms'[i].word = terms'[n].word
    BY <1>1, <1>2, <1>6, <1>7
  <2>2. <<"succeed_term", i, TRUE>> \in receipts'
    BY <1>3
  <2>3. \A m \in (i + 1)..(n - 1) : terms'[m].word # terms'[n].word
    BY <1>1, <1>2, <1>6, <1>7, <1>8
  <2> QED
    BY <2>1, <2>2, <2>3 DEF Assented
<1>11. \A k \in DOMAIN terms : terms[k].approved => Assented(k)'
  BY <1>3, <1>7, AssentStays
<1>12. \A k \in DOMAIN terms' : terms'[k].approved => Assented(k)'
  BY <1>2, <1>6, <1>7, <1>10, <1>11
<1> QED
  BY <1>6, <1>9, <1>12 DEF GlossaryInv, AssentIsGiven, Assented

\* Approving as it stands, or retiring, marks an entry and moves none.
LEMMA MarkKeepsAssent ==
    ASSUME GlossaryInv, NEW i \in DOMAIN terms, NEW e \in Term,
           e.word = terms[i].word, e.live = terms[i].live,
           terms' = [terms EXCEPT ![i] = e],
           receipts \subseteq receipts',
           e.approved => terms[i].approved \/ <<"approve_term", i>> \in receipts'
    PROVE  GlossaryInv'
<1>1. terms \in Seq(Term) /\ i \in 1..Len(terms)
  BY DEF GlossaryInv
<1>2. /\ terms' \in Seq(Term) /\ DOMAIN terms' = DOMAIN terms
      /\ \A k \in DOMAIN terms : terms'[k] = IF k = i THEN e ELSE terms[k]
  BY <1>1, ExceptSeq
<1>3. \A k \in DOMAIN terms : terms'[k].word = terms[k].word /\ terms'[k].live = terms[k].live
  BY <1>2
<1>4. LastIsLive'
  BY <1>2, <1>3 DEF GlossaryInv, LastIsLive
<1>5. \A k \in DOMAIN terms : terms[k].approved => Assented(k)'
  BY <1>3, AssentStays
<1>6. \A k \in DOMAIN terms' : terms'[k].approved => Assented(k)'
  BY <1>2, <1>5 DEF Assented
<1> QED
  BY <1>2, <1>4, <1>6 DEF GlossaryInv, AssentIsGiven, Assented

\* So that every operation of the glossary keeps the invariant.
LEMMA NameKeepsAssent ==
    ASSUME GlossaryInv, Name
    PROVE  GlossaryInv'
<1>1. CASE \E w \in Lexicon, d \in Meanings : DefineTerm(w, d)
  BY <1>1, DefineKeepsAssent
<1>2. CASE \E w \in Lexicon, d \in Meanings : RedefineTerm(w, d)
  BY <1>2, SucceedKeepsAssent DEF RedefineTerm, Current
<1>3. ASSUME NEW w \in Lexicon, ApproveTerm(w)
      PROVE  GlossaryInv'
  <2>1. PICK i \in DOMAIN terms : /\ terms' = [terms EXCEPT ![i].approved = TRUE]
                                  /\ receipts' = receipts \cup {<<"approve_term", i>>}
    BY <1>3 DEF ApproveTerm, Current, Write
  <2> DEFINE e == [terms[i] EXCEPT !.approved = TRUE]
  <2>2. terms[i] \in Term
    BY DEF GlossaryInv
  <2>3. e \in Term /\ e.word = terms[i].word /\ e.live = terms[i].live
    BY <2>2 DEF Term
  <2>4. terms' = [terms EXCEPT ![i] = e]
    BY <2>1
  <2> HIDE DEF e
  <2> QED
    BY <2>1, <2>3, <2>4, MarkKeepsAssent
<1>4. CASE \E w \in Lexicon, d \in Meanings : ApproveRewritten(w, d)
  BY <1>4, SucceedKeepsAssent DEF ApproveRewritten, Current
<1>5. ASSUME NEW w \in Lexicon, NEW instead \in Lexicon, RetireTerm(w, instead)
      PROVE  GlossaryInv'
  <2>1. PICK i \in DOMAIN terms :
            terms' = [terms EXCEPT ![i].banned = TRUE, ![i].instead = instead]
    BY <1>5 DEF RetireTerm, Current
  <2>2. receipts \subseteq receipts'
    BY <1>5 DEF RetireTerm, Write
  <2> DEFINE e == [terms[i] EXCEPT !.banned = TRUE, !.instead = instead]
  <2>3. terms[i] \in Term
    BY DEF GlossaryInv
  <2>4. /\ e \in Term /\ e.word = terms[i].word /\ e.live = terms[i].live
        /\ e.approved = terms[i].approved
    BY <2>3 DEF Term
  <2>5. terms' = [terms EXCEPT ![i] = e]
    BY <2>1, <2>3 DEF GlossaryInv, Term
  <2> HIDE DEF e
  <2> QED
    BY <2>2, <2>4, <2>5, MarkKeepsAssent
<1> QED
  BY <1>1, <1>2, <1>3, <1>4, <1>5 DEF Name

---------------------------------------------------------------------------
(* Spikes.                                                                 *)

IsSpike(x) ==
    /\ x = [on |-> x.on, state |-> x.state, outcome |-> x.outcome]
    /\ x.state \in {"registered", "executing", "blocked", "concluded"}

\* An event has happened to a spike only if it is past it: nothing comes back from
\* concluded, and nothing back to registered.
SpikesPast ==
    /\ \A k \in receipts : k[1] = "spike" => k[2] \in DOMAIN spikes
    /\ \A i \in DOMAIN spikes :
        /\ spikes[i].state # "concluded" => <<"spike", i, "conclude">> \notin receipts
        /\ spikes[i].state = "registered" =>
               <<"spike", i, "start">> \notin receipts /\ <<"spike", i, "block">> \notin receipts

SpikeInv ==
    /\ IsList(spikes)
    /\ \A i \in DOMAIN spikes : IsSpike(spikes[i])
    /\ SpikesPast

\* A spike that is where its keys say has a way on to concluded.
LEMMA PastSpikesConclude == SpikeInv => SpikesConclude
<1> SUFFICES ASSUME SpikeInv, NEW i \in DOMAIN spikes, spikes[i].state # "concluded"
             PROVE  \/ \E t \in SpikeTransitions :
                       /\ t[1] = spikes[i].state /\ t[3] = "concluded"
                       /\ <<"spike", i, t[2]>> \notin receipts
                    \/ \E t, u \in SpikeTransitions :
                       /\ t[1] = spikes[i].state /\ <<"spike", i, t[2]>> \notin receipts
                       /\ u[1] = t[3] /\ u[3] = "concluded"
                       /\ <<"spike", i, u[2]>> \notin receipts
  BY DEF SpikesConclude
<1> DEFINE start == <<"registered", "start", "executing">>
           finish == <<"executing", "conclude", "concluded">>
           giveUp == <<"blocked", "conclude", "concluded">>
<1>1. {start, finish, giveUp} \subseteq SpikeTransitions
  BY DEF SpikeTransitions
<1>2. <<"spike", i, "conclude">> \notin receipts
  BY DEF SpikeInv, SpikesPast
<1>3. CASE spikes[i].state = "executing"
  BY <1>1, <1>2, <1>3
<1>4. CASE spikes[i].state = "blocked"
  BY <1>1, <1>2, <1>4
<1>5. CASE spikes[i].state = "registered"
  <2>1. <<"spike", i, "start">> \notin receipts
    BY <1>5 DEF SpikeInv, SpikesPast
  <2> QED
    BY <1>1, <1>2, <1>5, <2>1
<1> QED
  BY <1>3, <1>4, <1>5 DEF SpikeInv, IsSpike

\* Whoever leaves the spikes alone and uses no key of theirs keeps the invariant.
LEMMA SpikesElsewhere ==
    ASSUME SpikeInv, UNCHANGED spikes,
           \A k \in receipts' : k \in receipts \/ k[1] # "spike"
    PROVE  SpikeInv'
BY DEF SpikeInv, SpikesPast, IsSpike, IsList

\* A spike begins with none of its keys used.
LEMMA RegisteringKeepsSpikes ==
    ASSUME SpikeInv, NEW a, RegisterSpike(a)
    PROVE  SpikeInv'
<1> DEFINE x == [on |-> a, state |-> "registered", outcome |-> "none"]
<1> PICK n : n = Len(spikes) + 1
  OBVIOUS
<1>1. /\ spikes' = Append(spikes, x)
      /\ receipts' = receipts \cup {<<"register_spike", a>>}
  BY DEF RegisterSpike, Write
<1>2. IsSpike(x) /\ x.state = "registered"
  BY DEF IsSpike
<1> HIDE DEF x
<1>3. /\ IsList(spikes') /\ DOMAIN spikes' = DOMAIN spikes \cup {n}
      /\ n \notin DOMAIN spikes /\ spikes'[n] = x
      /\ \A i \in DOMAIN spikes : spikes'[i] = spikes[i]
  BY <1>1, ListShape, ListAppend DEF SpikeInv
<1>4. \A i \in DOMAIN spikes' : IsSpike(spikes'[i])
  BY <1>2, <1>3 DEF SpikeInv
<1>5. \A k \in receipts' : k[1] = "spike" => k \in receipts /\ k[2] \in DOMAIN spikes
  BY <1>1 DEF SpikeInv, SpikesPast
<1>6. \A e : <<"spike", n, e>> \notin receipts'
  BY <1>3, <1>5
<1>7. SpikesPast'
  BY <1>3, <1>5, <1>6 DEF SpikeInv, SpikesPast
<1> QED
  BY <1>3, <1>4, <1>7 DEF SpikeInv

\* A transition uses the key of its event, and leaves the states that event was free in.
LEMMA TransitionKeepsSpikes ==
    ASSUME SpikeInv, NEW i \in DOMAIN spikes, NEW event, NEW outcome,
           TransitionSpike(i, event, outcome)
    PROVE  SpikeInv'
<1>1. PICK t \in SpikeTransitions :
          /\ t[1] = spikes[i].state /\ t[2] = event
          /\ spikes' = [spikes EXCEPT ![i] = [on |-> @.on, state |-> t[3], outcome |-> outcome]]
  BY DEF TransitionSpike
<1>2. receipts' = receipts \cup {<<"spike", i, t[2]>>}
  BY <1>1 DEF TransitionSpike, Write
<1> DEFINE x == [on |-> spikes[i].on, state |-> t[3], outcome |-> outcome]
<1>3. spikes' = [spikes EXCEPT ![i] = x]
  BY <1>1
<1>4. IsSpike(x) /\ x.state = t[3]
  BY DEF IsSpike, SpikeTransitions
<1> HIDE DEF x
<1>5. /\ IsList(spikes') /\ DOMAIN spikes' = DOMAIN spikes
      /\ \A j \in DOMAIN spikes : spikes'[j] = IF j = i THEN x ELSE spikes[j]
  BY <1>3, ListUpdate DEF SpikeInv
<1>6. \A j \in DOMAIN spikes' : IsSpike(spikes'[j])
  BY <1>4, <1>5 DEF SpikeInv
<1>7. \A k \in receipts' : k[1] = "spike" => k[2] \in DOMAIN spikes'
  BY <1>2, <1>5 DEF SpikeInv, SpikesPast
<1>8. ASSUME NEW j \in DOMAIN spikes'
      PROVE  /\ spikes'[j].state # "concluded" => <<"spike", j, "conclude">> \notin receipts'
             /\ spikes'[j].state = "registered" =>
                    /\ <<"spike", j, "start">> \notin receipts'
                    /\ <<"spike", j, "block">> \notin receipts'
  <2>1. CASE j = i
    <3>1. t[3] # "registered" /\ (t[3] # "concluded" => t[2] # "conclude" /\ t[1] # "concluded")
      BY DEF SpikeTransitions
    <3>2. t[3] # "concluded" => <<"spike", i, "conclude">> \notin receipts
      BY <3>1, <1>1 DEF SpikeInv, SpikesPast
    <3> QED
      BY <2>1, <3>1, <3>2, <1>2, <1>4, <1>5
  <2>2. CASE j # i
    BY <2>2, <1>2, <1>5 DEF SpikeInv, SpikesPast
  <2> QED
    BY <2>1, <2>2
<1> QED
  BY <1>5, <1>6, <1>7, <1>8 DEF SpikeInv, SpikesPast

\* The assumptions of a plan come with a spike each.
LEMMA SpikesBegin == Init => SpikeInv
<1> SUFFICES ASSUME Init PROVE SpikeInv
  OBVIOUS
<1>1. PICK p \in Plans :
          spikes = [i \in 1..Cardinality(p.assumed) |->
                      [on |-> SetToSeq(p.assumed)[i], state |-> "registered", outcome |-> "none"]]
  BY DEF Init, ValidationInit
<1>2. Cardinality(p.assumed) \in Nat
  BY FS_CardinalityType, PlansAreFinite
<1>3. IsList(spikes)
  BY <1>1, <1>2, ListOfLength
<1>4. \A i \in DOMAIN spikes : IsSpike(spikes[i])
  BY <1>1 DEF IsSpike
<1>5. SpikesPast
  BY DEF SpikesPast, Init
<1> QED
  BY <1>3, <1>4, <1>5 DEF SpikeInv

---------------------------------------------------------------------------
(* What a refutation contests.                                             *)

IsClaim(x) ==
    \E refs, kind, state, satisfied, red, fenced :
        x = [refs |-> refs, kind |-> kind, state |-> state, satisfied |-> satisfied,
             red |-> red, fenced |-> fenced]

PlanStands ==
    /\ IsFiniteSet(PlanRows)
    /\ \A l \in rests : l[1] \in PlanRows /\ l[2] \in PlanRows

TrialsStand ==
    /\ IsList(spikes) /\ IsList(claims)
    /\ \A i \in DOMAIN spikes : spikes[i].on \in PlanRows
    /\ \A j \in DOMAIN claims : IsClaim(claims[j]) /\ claims[j].refs \subseteq PlanRows

\* What rows are contested for has been recorded: it is not recorded twice.
Recorded(cause) ==
    \/ \E i : cause = <<"spike", i>> /\ <<"spike_resolves", cause>> \in receipts
    \/ \E j \in DOMAIN claims : cause = <<"claim", j>> /\ claims[j].state # "validating"

\* The rows contested so far and those to do are all there are to contest.
Splits(cause, todo, rows) ==
    \A r : r \in rows <=> r \in Range(todo) \/ <<r, cause>> \in contested

CauseStands(cause, todo) ==
    \/ \E i \in DOMAIN spikes :
        /\ cause = <<"spike", i>> /\ standing[spikes[i].on] = "rejected"
        /\ Splits(cause, todo, Affected({spikes[i].on}))
    \/ \E j \in DOMAIN claims :
        /\ cause = <<"claim", j>>
        /\ Splits(cause, todo, claims[j].refs \cup Affected(claims[j].refs))

ErrandStands ==
    \/ errand = NoErrand
    \/ \E i \in DOMAIN spikes : errand = [step |-> "resolve", cause |-> <<"spike", i>>]
    \/ \E cause, todo :
        /\ errand = [step |-> "contest", cause |-> cause, todo |-> todo]
        /\ IsList(todo) /\ Recorded(cause) /\ CauseStands(cause, todo)

ContestInv ==
    /\ PlanStands /\ TrialsStand /\ ErrandStands
    /\ \A c \in contested : Recorded(c[2])

\* The rows that rest on some, by their definition: a walk along the links.
LEMMA RestingIsWalked ==
    ASSUME NEW roots, Cardinality(PlanRows) \in Nat
    PROVE  \E f : /\ Walk(f, roots, rests, Cardinality(PlanRows))
                  /\ Affected(roots) = f[Cardinality(PlanRows)] \ roots
<1> DEFINE N == Cardinality(PlanRows)
           W == CHOOSE f : Walk(f, roots, rests, N)
<1>1. Walk(W, roots, rests, N)
  BY WalkExists
<1>2. Affected(roots) = W[N] \ roots
  BY Zenon DEF Affected, Walk, Inbound
<1> QED
  BY <1>1, <1>2

\* They are rows of the plan, and with the roots the smallest set that will do.
LEMMA RestingIsClosure ==
    ASSUME PlanStands, NEW roots \in SUBSET PlanRows
    PROVE  /\ Affected(roots) \subseteq PlanRows
           /\ Closed(rests, roots \cup Affected(roots))
           /\ \A S : (roots \subseteq S /\ Closed(rests, S)) => Affected(roots) \subseteq S
<1> PICK U, N : U = PlanRows /\ N = Cardinality(U)
  OBVIOUS
<1>1. IsFiniteSet(U) /\ N \in Nat /\ Cardinality(U) <= N
  BY FS_CardinalityType DEF PlanStands
<1>2. Closed(rests, U)
  BY DEF PlanStands, Closed
<1>3. PICK f : Walk(f, roots, rests, N) /\ Affected(roots) = f[N] \ roots
  BY <1>1, RestingIsWalked
<1>4. roots \subseteq U /\ N \in 0..N
  BY <1>1
<1>5. roots \subseteq f[N] /\ f[N] \subseteq U /\ Closed(rests, f[N])
  BY <1>1, <1>2, <1>3, <1>4, WalkIsClosure
<1>6. ASSUME NEW S, roots \subseteq S, Closed(rests, S) PROVE f[N] \subseteq S
  BY <1>1, <1>3, <1>4, <1>6, WalkStaysInside
<1>7. roots \cup Affected(roots) = f[N]
  BY <1>3, <1>5
<1> QED
  BY <1>3, <1>5, <1>6, <1>7

\* While the links and the rows stay, so does what rests on what.
LEMMA RestingStays ==
    ASSUME rests' = rests, PlanRows' = PlanRows, NEW roots
    PROVE  Affected(roots)' = Affected(roots)
BY DEF Affected

\* What has been recorded stays so.
LEMMA RecordedStays ==
    ASSUME receipts \subseteq receipts',
           \A j \in DOMAIN claims : /\ j \in DOMAIN claims'
                                    /\ claims[j].state # "validating" =>
                                           claims'[j].state # "validating",
           NEW cause, Recorded(cause)
    PROVE  Recorded(cause)'
BY DEF Recorded

\* A call that finds no other under way, and contests nothing itself yet, ...
Settled ==
    /\ PlanRows' = PlanRows /\ UNCHANGED <<rests, contested>>
    /\ receipts \subseteq receipts'
    /\ errand' = NoErrand

LEMMA SettledKeepsContests ==
    ASSUME ContestInv, Settled, TrialsStand',
           \A j \in DOMAIN claims : /\ j \in DOMAIN claims'
                                    /\ claims[j].state # "validating" =>
                                           claims'[j].state # "validating"
    PROVE  ContestInv'
<1>1. PlanStands'
  BY DEF ContestInv, Settled, PlanStands
<1>2. ErrandStands'
  BY DEF Settled, ErrandStands, NoErrand
<1>3. \A c \in contested : Recorded(c[2])'
  BY RecordedStays DEF ContestInv, Settled
<1> QED
  BY <1>1, <1>2, <1>3 DEF ContestInv, Settled

\* ... if it leaves spikes and claims alone, too.
LEMMA IdleKeepsContests ==
    ASSUME ContestInv, Settled, UNCHANGED <<spikes, claims>>
    PROVE  ContestInv'
<1>1. TrialsStand'
  BY DEF ContestInv, TrialsStand, Settled
<1> QED
  BY <1>1, SettledKeepsContests

\* Others leave the whole of validation alone.
LEMMA ContestsElsewhere ==
    ASSUME ContestInv, UNCHANGED validationVars, receipts \subseteq receipts'
    PROVE  ContestInv'
<1>1. PlanRows' = PlanRows /\ UNCHANGED <<rests, standing, spikes, claims, contested, errand>>
  BY DEF validationVars, PlanRows
<1>2. PlanStands' /\ TrialsStand'
  BY <1>1 DEF ContestInv, PlanStands, TrialsStand
<1>3. \A cause : Recorded(cause) => Recorded(cause)'
  BY <1>1 DEF Recorded
<1>4. ASSUME NEW cause, NEW todo, CauseStands(cause, todo) PROVE CauseStands(cause, todo)'
  <2>1. \A rows : Affected(rows)' = Affected(rows)
    BY <1>1, RestingStays
  <2>2. CASE \E i \in DOMAIN spikes :
                /\ cause = <<"spike", i>> /\ standing[spikes[i].on] = "rejected"
                /\ Splits(cause, todo, Affected({spikes[i].on}))
    <3>1. PICK i \in DOMAIN spikes :
                /\ cause = <<"spike", i>> /\ standing[spikes[i].on] = "rejected"
                /\ Splits(cause, todo, Affected({spikes[i].on}))
      BY <2>2
    <3>2. Splits(cause, todo, Affected({spikes[i].on}))'
      BY <1>1, <3>1, <2>1 DEF Splits
    <3> QED
      BY <1>1, <3>1, <3>2 DEF CauseStands
  <2>3. CASE \E j \in DOMAIN claims :
                /\ cause = <<"claim", j>>
                /\ Splits(cause, todo, claims[j].refs \cup Affected(claims[j].refs))
    <3>1. PICK j \in DOMAIN claims :
                /\ cause = <<"claim", j>>
                /\ Splits(cause, todo, claims[j].refs \cup Affected(claims[j].refs))
      BY <2>3
    <3>2. Splits(cause, todo, claims[j].refs \cup Affected(claims[j].refs))'
      BY <1>1, <3>1, <2>1 DEF Splits
    <3> QED
      BY <1>1, <3>1, <3>2 DEF CauseStands
  <2> QED
    BY <1>4, <2>2, <2>3 DEF CauseStands
<1>5. ErrandStands'
  BY <1>1, <1>3, <1>4 DEF ContestInv, ErrandStands
<1> QED
  BY <1>1, <1>2, <1>3, <1>5 DEF ContestInv
\* A spike's transition is about the same assumption.
LEMMA TransitionKeepsTrials ==
    ASSUME TrialsStand, PlanRows' = PlanRows, UNCHANGED claims,
           NEW i \in DOMAIN spikes, NEW event, NEW outcome, TransitionSpike(i, event, outcome)
    PROVE  /\ TrialsStand' /\ receipts \subseteq receipts'
           /\ i \in DOMAIN spikes'
<1>1. PICK x : x.on = spikes[i].on /\ spikes' = [spikes EXCEPT ![i] = x]
  <2>1. PICK t \in SpikeTransitions :
            spikes' = [spikes EXCEPT ![i] = [on |-> @.on, state |-> t[3], outcome |-> outcome]]
    BY DEF TransitionSpike
  <2> DEFINE y == [on |-> spikes[i].on, state |-> t[3], outcome |-> outcome]
  <2>2. spikes' = [spikes EXCEPT ![i] = y] /\ y.on = spikes[i].on
    BY <2>1
  <2> QED
    BY <2>2
<1>2. /\ IsList(spikes') /\ DOMAIN spikes' = DOMAIN spikes
      /\ \A k \in DOMAIN spikes : spikes'[k] = IF k = i THEN x ELSE spikes[k]
  BY <1>1, ListUpdate DEF TrialsStand
<1>3. \A k \in DOMAIN spikes' : spikes'[k].on \in PlanRows'
  BY <1>1, <1>2 DEF TrialsStand
<1>4. receipts \subseteq receipts'
  BY DEF TransitionSpike, Write
<1> QED
  BY <1>2, <1>3, <1>4 DEF TrialsStand

\* What is done to a claim leaves the rows it names, and its state or settles it.
LEMMA ClaimKeepsTrials ==
    ASSUME TrialsStand, PlanRows' = PlanRows, UNCHANGED spikes,
           NEW j \in DOMAIN claims, NEW x, IsClaim(x), x.refs = claims[j].refs,
           claims' = [claims EXCEPT ![j] = x],
           claims[j].state # "validating" => x.state # "validating"
    PROVE  /\ TrialsStand'
           /\ DOMAIN claims' = DOMAIN claims /\ claims'[j] = x
           /\ \A k \in DOMAIN claims : claims[k].state # "validating" =>
                                            claims'[k].state # "validating"
<1>1. /\ IsList(claims') /\ DOMAIN claims' = DOMAIN claims
      /\ \A k \in DOMAIN claims : claims'[k] = IF k = j THEN x ELSE claims[k]
  BY ListUpdate DEF TrialsStand
<1>2. TrialsStand'
  BY <1>1 DEF TrialsStand
<1> QED
  BY <1>1, <1>2

\* An assumption that is refuted has what rests on it to do, and nothing was contested
\* for that spike before: the key of its resolution was free.
LEMMA ResolvingKeepsContests ==
    ASSUME ContestInv, ResolveAssumption
    PROVE  ContestInv'
<1>1. PICK i \in DOMAIN spikes : errand = [step |-> "resolve", cause |-> <<"spike", i>>]
  BY DEF ContestInv, ErrandStands, ResolveAssumption, NoErrand
<1> PICK cause, a : cause = <<"spike", i>> /\ a = spikes[i].on
  OBVIOUS
<1>2. /\ standing[a] = "open" /\ a \in PlanRows
      /\ cause \notin {c[2] : c \in contested}
      /\ receipts' = receipts \cup {<<"spike_resolves", cause>>}
      /\ PlanRows' = PlanRows /\ UNCHANGED <<rests, spikes, claims, contested>>
  <2>1. <<"spike_resolves", cause>> \notin receipts
    BY <1>1 DEF ResolveAssumption, Write, Fresh
  <2>2. ~Recorded(cause)
    BY <2>1 DEF Recorded
  <2>3. standing[a] = "open" /\ UNCHANGED <<rests, spikes, claims, contested>>
    BY <1>1 DEF ResolveAssumption, Tried
  <2>4. receipts' = receipts \cup {<<"spike_resolves", cause>>}
    BY <1>1 DEF ResolveAssumption, Write
  <2>5. PlanRows' = PlanRows
    BY DEF ResolveAssumption, Settle, PlanRows
  <2> QED
    BY <2>2, <2>3, <2>4, <2>5 DEF ContestInv, TrialsStand
<1>3. CASE spikes[i].outcome = "refuted"
  <2>1. standing' = [standing EXCEPT ![a] = "rejected"]
    BY <1>1, <1>3 DEF ResolveAssumption, Settle, Tried
  <2>2. standing'[a] = "rejected"
    BY <1>2, <2>1 DEF PlanRows
  <2> PICK todo : todo = SetToSeq(Affected({a}))
    OBVIOUS
  <2>3. errand' = [step |-> "contest", cause |-> cause, todo |-> todo]
    BY <1>1, <1>3 DEF ResolveAssumption, Tried, Contest
  <2>4. Affected({a}) \subseteq PlanRows
    BY <1>2, RestingIsClosure DEF ContestInv
  <2>5. IsList(todo) /\ Range(todo) = Affected({a})
    <3>1. IsFiniteSet(Affected({a}))
      BY <2>4, FS_Subset DEF ContestInv, PlanStands
    <3> QED
      BY <3>1, ListOfSet
  <2>6. Affected({a})' = Affected({a})
    BY <1>2, RestingStays
  <2>7. \A r : r \in Affected({a}) <=> r \in Range(todo) \/ <<r, cause>> \in contested
    <3>1. \A r : <<r, cause>> \notin contested
      <4> SUFFICES ASSUME NEW r, <<r, cause>> \in contested PROVE FALSE
        OBVIOUS
      <4>1. <<r, cause>>[2] = cause
        OBVIOUS
      <4> QED
        BY <1>2, <4>1
    <3> QED
      BY <2>5, <3>1
  <2>8. Splits(cause, todo, Affected({a}))'
    BY <1>2, <2>6, <2>7 DEF Splits
  <2>9. CauseStands(cause, todo)'
    BY <1>2, <2>2, <2>8 DEF CauseStands
  <2>10. Recorded(cause)'
    BY <1>2 DEF Recorded
  <2>11. ErrandStands'
    BY <2>3, <2>5, <2>9, <2>10 DEF ErrandStands
  <2>12. \A c \in contested' : Recorded(c[2])'
    BY <1>2, RecordedStays DEF ContestInv
  <2>13. PlanStands' /\ TrialsStand'
    BY <1>2 DEF ContestInv, PlanStands, TrialsStand
  <2> QED
    BY <2>11, <2>12, <2>13 DEF ContestInv
<1>4. CASE spikes[i].outcome # "refuted"
  <2>1. errand' = NoErrand
    BY <1>1, <1>4 DEF ResolveAssumption, Tried
  <2>2. Settled
    BY <1>2, <2>1 DEF Settled
  <2> QED
    BY <1>2, <2>2, IdleKeepsContests
<1> QED
  BY <1>3, <1>4

\* A row that is contested is one less to do.
LEMMA ContestingKeepsContests ==
    ASSUME ContestInv, ContestNext
    PROVE  ContestInv'
<1>1. PICK cause, todo :
        /\ errand = [step |-> "contest", cause |-> cause, todo |-> todo]
        /\ IsList(todo) /\ Recorded(cause) /\ CauseStands(cause, todo)
  BY DEF ContestInv, ErrandStands, ContestNext, NoErrand
<1> PICK r0, rest : r0 = Head(todo) /\ rest = Tail(todo)
  OBVIOUS
<1>2. /\ errand' = [step |-> "contest", cause |-> cause, todo |-> rest]
      /\ contested' = contested \cup {<<r0, cause>>}
      /\ receipts \subseteq receipts'
      /\ UNCHANGED <<rests, standing, spikes, claims>> /\ PlanRows' = PlanRows
  BY <1>1 DEF ContestNext, Write, PlanRows
<1>3. IsList(rest) /\ \A r : r \in Range(todo) <=> r = r0 \/ r \in Range(rest)
  <2>1. todo # <<>>
    BY <1>1 DEF ContestNext
  <2>2. IsList(todo)
    BY <1>1
  <2>3. /\ IsList(rest)
        /\ \A r : r \in {todo[i] : i \in DOMAIN todo} <=>
                      r = r0 \/ r \in {rest[i] : i \in DOMAIN rest}
    BY <2>1, <2>2, ListTail
  <2> QED
    BY <2>3 DEF Range
<1>4. CauseStands(cause, rest)'
  <2>1. CASE \E i \in DOMAIN spikes :
                /\ cause = <<"spike", i>> /\ standing[spikes[i].on] = "rejected"
                /\ Splits(cause, todo, Affected({spikes[i].on}))
    <3>1. PICK i \in DOMAIN spikes :
                /\ cause = <<"spike", i>> /\ standing[spikes[i].on] = "rejected"
                /\ Splits(cause, todo, Affected({spikes[i].on}))
      BY <2>1
    <3>2. Affected({spikes[i].on})' = Affected({spikes[i].on})
      BY <1>2, RestingStays
    <3>3. Splits(cause, rest, Affected({spikes[i].on}))'
      BY <1>2, <1>3, <3>1, <3>2 DEF Splits
    <3> QED
      BY <1>2, <3>1, <3>3 DEF CauseStands
  <2>2. CASE \E j \in DOMAIN claims :
                /\ cause = <<"claim", j>>
                /\ Splits(cause, todo, claims[j].refs \cup Affected(claims[j].refs))
    <3>1. PICK j \in DOMAIN claims :
                /\ cause = <<"claim", j>>
                /\ Splits(cause, todo, claims[j].refs \cup Affected(claims[j].refs))
      BY <2>2
    <3>2. Affected(claims[j].refs)' = Affected(claims[j].refs)
      BY <1>2, RestingStays
    <3>3. Splits(cause, rest, claims[j].refs \cup Affected(claims[j].refs))'
      BY <1>2, <1>3, <3>1, <3>2 DEF Splits
    <3> QED
      BY <1>2, <3>1, <3>3 DEF CauseStands
  <2> QED
    BY <1>1, <2>1, <2>2 DEF CauseStands
<1>5. \A c : Recorded(c) => Recorded(c)'
  BY <1>2 DEF Recorded
<1>6. ErrandStands'
  BY <1>1, <1>2, <1>3, <1>4, <1>5 DEF ErrandStands
<1>7. \A c \in contested' : Recorded(c[2])'
  BY <1>1, <1>2, <1>5 DEF ContestInv
<1>8. PlanStands' /\ TrialsStand'
  BY <1>2 DEF ContestInv, PlanStands, TrialsStand
<1> QED
  BY <1>6, <1>7, <1>8 DEF ContestInv
\* The ends of finitely many links are finitely many.
LEMMA EndsAreFinite ==
    ASSUME NEW links, IsFiniteSet(links)
    PROVE  IsFiniteSet({l[1] : l \in links}) /\ IsFiniteSet({l[2] : l \in links})
<1>1. ASSUME NEW k \in {1, 2} PROVE IsFiniteSet({l[k] : l \in links})
  <2> DEFINE T == {l[k] : l \in links}
             f == [l \in links |-> l[k]]
  <2>1. f \in Surjection(links, T)
    BY DEF Surjection
  <2> HIDE DEF f, T
  <2>2. IsFiniteSet(T)
    BY <2>1, FS_Surjection
  <2> QED
    BY <2>2 DEF T
<1> QED
  BY <1>1

\* A claim that fails has its own rows and what rests on them to do, for the first time:
\* it was not settled.
LEMMA FailingKeepsContests ==
    ASSUME ContestInv, NEW j \in DOMAIN claims, NEW outcome, RecordClaimOutcome(j, outcome)
    PROVE  ContestInv'
<1> PICK cause, refs : cause = <<"claim", j>> /\ refs = claims[j].refs
  OBVIOUS
<1>1. /\ claims[j].state = "validating" /\ outcome # "validating"
      /\ claims' = [claims EXCEPT ![j].state = outcome]
      /\ receipts \subseteq receipts' /\ PlanRows' = PlanRows
      /\ UNCHANGED <<rests, standing, spikes, contested>>
  BY DEF RecordClaimOutcome, Outcomes, Write, PlanRows
<1>2. PICK x : /\ claims' = [claims EXCEPT ![j] = x]
               /\ IsClaim(x) /\ x.refs = refs /\ x.state = outcome
  <2>1. PICK refs0, kind, state, satisfied, red, fenced :
            claims[j] = [refs |-> refs0, kind |-> kind, state |-> state,
                         satisfied |-> satisfied, red |-> red, fenced |-> fenced]
    BY DEF ContestInv, TrialsStand, IsClaim
  <2> DEFINE y == [claims[j] EXCEPT !.state = outcome]
  <2>2. y = [refs |-> refs0, kind |-> kind, state |-> outcome, satisfied |-> satisfied,
             red |-> red, fenced |-> fenced]
    BY <2>1
  <2>3. claims' = [claims EXCEPT ![j] = y]
    BY <1>1
  <2> HIDE DEF y
  <2>4. IsClaim(y)
    BY <2>2 DEF IsClaim
  <2>5. y.refs = refs /\ y.state = outcome
    BY <2>1, <2>2
  <2> QED
    BY <2>3, <2>4, <2>5
<1>3. /\ TrialsStand' /\ DOMAIN claims' = DOMAIN claims /\ claims'[j] = x
      /\ \A k \in DOMAIN claims : claims[k].state # "validating" =>
                                       claims'[k].state # "validating"
  BY <1>1, <1>2, ClaimKeepsTrials DEF ContestInv
<1>4. CASE outcome = "failed"
  <2> PICK todo : todo = SetToSeq(refs \cup Affected(refs))
    OBVIOUS
  <2>1. errand' = [step |-> "contest", cause |-> cause, todo |-> todo]
    BY <1>4 DEF RecordClaimOutcome
  <2>2. refs \subseteq PlanRows
    BY DEF ContestInv, TrialsStand
  <2>3. refs \cup Affected(refs) \subseteq PlanRows
    BY <2>2, RestingIsClosure DEF ContestInv
  <2>4. IsList(todo) /\ Range(todo) = refs \cup Affected(refs)
    <3>1. IsFiniteSet(refs \cup Affected(refs))
      BY <2>3, FS_Subset DEF ContestInv, PlanStands
    <3> QED
      BY <3>1, ListOfSet
  <2>5. \A r : <<r, cause>> \notin contested
    <3> SUFFICES ASSUME NEW r, <<r, cause>> \in contested PROVE FALSE
      OBVIOUS
    <3>1. Recorded(cause)
      <4>1. <<r, cause>>[2] = cause
        OBVIOUS
      <4> QED
        BY <4>1 DEF ContestInv
    <3> QED
      BY <1>1, <3>1 DEF Recorded
  <2>6. Affected(refs)' = Affected(refs)
    BY <1>1, RestingStays
  <2>7. Splits(cause, todo, refs \cup Affected(refs))'
    BY <1>1, <2>4, <2>5, <2>6 DEF Splits
  <2>8. CauseStands(cause, todo)'
    <3>1. j \in DOMAIN claims' /\ claims'[j].refs = refs
      BY <1>2, <1>3
    <3> QED
      BY <2>7, <3>1 DEF CauseStands
  <2>9. Recorded(cause)'
    BY <1>1, <1>2, <1>3 DEF Recorded
  <2>10. ErrandStands'
    BY <2>1, <2>4, <2>8, <2>9 DEF ErrandStands
  <2>11. \A c \in contested' : Recorded(c[2])'
    BY <1>1, <1>3, RecordedStays DEF ContestInv
  <2>12. PlanStands'
    BY <1>1 DEF ContestInv, PlanStands
  <2> QED
    BY <1>3, <2>10, <2>11, <2>12 DEF ContestInv
<1>5. CASE outcome # "failed"
  <2>1. errand' = NoErrand
    BY <1>5 DEF RecordClaimOutcome
  <2>2. Settled
    BY <1>1, <2>1 DEF Settled
  <2> QED
    BY <1>3, <2>2, SettledKeepsContests
<1> QED
  BY <1>4, <1>5

\* The other operations on claims and spikes.
LEMMA TryingKeepsContests ==
    ASSUME ContestInv, Validate
    PROVE  ContestInv'
<1>1. ASSUME NEW a, WithdrawAssumption(a) \/ \E v : OwnerResolves(a, v) PROVE ContestInv'
  <2>1. Settled /\ UNCHANGED <<spikes, claims>>
    BY <1>1 DEF WithdrawAssumption, OwnerResolves, AtRest, Settled, PlanRows
  <2> QED
    BY <2>1, IdleKeepsContests
<1>2. ASSUME ResolutionRefused \/ Return \/ Die PROVE ContestInv'
  <2>1. Settled /\ UNCHANGED <<spikes, claims>>
    BY <1>2 DEF ResolutionRefused, Return, Die, Settled, PlanRows
  <2> QED
    BY <2>1, IdleKeepsContests
<1>3. ASSUME NEW a \in PlanRows, RegisterSpike(a) PROVE ContestInv'
  <2> DEFINE x == [on |-> a, state |-> "registered", outcome |-> "none"]
  <2>1. /\ Settled /\ UNCHANGED claims /\ PlanRows' = PlanRows
        /\ spikes' = Append(spikes, x) /\ x.on = a
    BY <1>3 DEF RegisterSpike, AtRest, Settled, PlanRows, Write
  <2> HIDE DEF x
  <2>2. /\ IsList(spikes') /\ DOMAIN spikes' = DOMAIN spikes \cup {Len(spikes) + 1}
        /\ \A i \in DOMAIN spikes : spikes'[i] = spikes[i]
        /\ spikes'[Len(spikes) + 1] = x
    BY <2>1, ListAppend DEF ContestInv, TrialsStand
  <2>3. TrialsStand'
    BY <2>1, <2>2 DEF ContestInv, TrialsStand
  <2> QED
    BY <2>1, <2>3, SettledKeepsContests
<1>4. ASSUME NEW i \in DOMAIN spikes, StartSpike(i) \/ UnblockSpike(i) PROVE ContestInv'
  <2>1. /\ UNCHANGED <<rests, claims, contested>> /\ errand' = NoErrand /\ PlanRows' = PlanRows
        /\ \E event, outcome : TransitionSpike(i, event, outcome)
    BY <1>4 DEF StartSpike, UnblockSpike, AtRest, PlanRows
  <2>2. TrialsStand' /\ receipts \subseteq receipts'
    BY <2>1, TransitionKeepsTrials DEF ContestInv
  <2> QED
    BY <2>1, <2>2, SettledKeepsContests DEF Settled
<1>5. ASSUME NEW i \in DOMAIN spikes, NEW o, RecordSpikeResult(i, o) PROVE ContestInv'
  <2>1. /\ UNCHANGED <<rests, claims, contested>> /\ PlanRows' = PlanRows
        /\ \E event, outcome : TransitionSpike(i, event, outcome)
        /\ errand' = NoErrand \/ errand' = [step |-> "resolve", cause |-> <<"spike", i>>]
    BY <1>5 DEF RecordSpikeResult, PlanRows
  <2>2. TrialsStand' /\ receipts \subseteq receipts' /\ i \in DOMAIN spikes'
    BY <2>1, TransitionKeepsTrials DEF ContestInv
  <2>3. CASE errand' = NoErrand
    BY <2>1, <2>2, <2>3, SettledKeepsContests DEF Settled
  <2>4. CASE errand' = [step |-> "resolve", cause |-> <<"spike", i>>]
    <3>1. ErrandStands'
      BY <2>2, <2>4 DEF ErrandStands
    <3>2. \A c \in contested' : Recorded(c[2])'
      BY <2>1, <2>2 DEF ContestInv, Recorded
    <3>3. PlanStands'
      BY <2>1 DEF ContestInv, PlanStands
    <3> QED
      BY <2>2, <3>1, <3>2, <3>3 DEF ContestInv
  <2> QED
    BY <2>1, <2>3, <2>4
<1>6. ASSUME NEW refs \in SUBSET PlanRows, NEW kind, NEW red, FileClaim(refs, kind, red)
      PROVE  ContestInv'
  <2> DEFINE x == [refs |-> refs, kind |-> kind, state |-> "validating",
                   satisfied |-> {}, red |-> red, fenced |-> FALSE]
  <2>1. /\ Settled /\ UNCHANGED spikes /\ PlanRows' = PlanRows
        /\ claims' = Append(claims, x)
    BY <1>6 DEF FileClaim, AtRest, Settled, PlanRows, Write
  <2>2. IsClaim(x) /\ x.refs \subseteq PlanRows
    BY DEF IsClaim
  <2> HIDE DEF x
  <2>3. /\ IsList(claims') /\ DOMAIN claims' = DOMAIN claims \cup {Len(claims) + 1}
        /\ \A j \in DOMAIN claims : claims'[j] = claims[j]
        /\ claims'[Len(claims) + 1] = x
    BY <2>1, ListAppend DEF ContestInv, TrialsStand
  <2>4. TrialsStand'
    BY <2>1, <2>2, <2>3 DEF ContestInv, TrialsStand
  <2> QED
    BY <2>1, <2>3, <2>4, SettledKeepsContests
<1>7. ASSUME NEW j \in DOMAIN claims,
             FenceClaim(j) \/ \E t \in {"spike", "research"} : SatisfyTrack(j, t)
      PROVE  ContestInv'
  <2>1. Settled /\ UNCHANGED spikes /\ PlanRows' = PlanRows
    BY <1>7 DEF FenceClaim, SatisfyTrack, AtRest, Settled, PlanRows, Write
  <2>2. PICK refs, kind, state, satisfied, red, fenced :
            claims[j] = [refs |-> refs, kind |-> kind, state |-> state,
                         satisfied |-> satisfied, red |-> red, fenced |-> fenced]
    BY DEF ContestInv, TrialsStand, IsClaim
  <2>3. PICK x : /\ claims' = [claims EXCEPT ![j] = x]
                 /\ IsClaim(x) /\ x.refs = refs /\ x.state = state
    <3>1. CASE FenceClaim(j)
      <4>1. PICK yes : yes = TRUE
        OBVIOUS
      <4> DEFINE y == [claims[j] EXCEPT !.fenced = yes]
      <4>2. y = [refs |-> refs, kind |-> kind, state |-> state,
                 satisfied |-> satisfied, red |-> red, fenced |-> yes]
        BY <2>2
      <4>3. claims' = [claims EXCEPT ![j] = y]
        BY <3>1, <4>1 DEF FenceClaim
      <4> HIDE DEF y
      <4>4. IsClaim(y)
        BY <4>2 DEF IsClaim
      <4>5. y.refs = refs /\ y.state = state
        BY <4>2
      <4> QED
        BY <4>3, <4>4, <4>5
    <3>2. ASSUME NEW t, SatisfyTrack(j, t)
          PROVE  \E x : /\ claims' = [claims EXCEPT ![j] = x]
                        /\ IsClaim(x) /\ x.refs = refs /\ x.state = state
      <4> DEFINE y == [claims[j] EXCEPT !.satisfied = @ \cup {t}]
      <4>1. claims' = [claims EXCEPT ![j] = y]
        BY <3>2 DEF SatisfyTrack
      <4>2. y = [refs |-> refs, kind |-> kind, state |-> state,
                 satisfied |-> satisfied \cup {t}, red |-> red, fenced |-> fenced]
        BY <2>2
      <4> HIDE DEF y
      <4>3. IsClaim(y)
        BY <4>2 DEF IsClaim
      <4>4. y.refs = refs /\ y.state = state
        BY <4>2
      <4> QED
        BY <4>1, <4>3, <4>4
    <3> QED
      BY <1>7, <3>1, <3>2
  <2>4. /\ TrialsStand' /\ DOMAIN claims' = DOMAIN claims
        /\ \A k \in DOMAIN claims : claims[k].state # "validating" =>
                                         claims'[k].state # "validating"
    <3>1. TrialsStand /\ claims[j].refs = refs /\ claims[j].state = state
      BY <2>2 DEF ContestInv
    <3> QED
      BY <2>1, <2>3, <3>1, ClaimKeepsTrials
  <2> QED
    BY <2>1, <2>4, SettledKeepsContests
<1> QED
  BY <1>1, <1>2, <1>3, <1>4, <1>5, <1>6, <1>7, ResolvingKeepsContests,
     ContestingKeepsContests, FailingKeepsContests DEF Validate

\* Validation starts with nothing recorded and a finite plan.
LEMMA ContestsBegin == Init => ContestInv
<1> SUFFICES ASSUME Init PROVE ContestInv
  OBVIOUS
<1>1. PICK p \in Plans :
          /\ rests = p.rests
          /\ standing = [r \in p.assumed \cup {l[1] : l \in p.rests} \cup {l[2] : l \in p.rests} |->
                             IF r \in p.assumed THEN "open" ELSE "decided"]
          /\ spikes = [i \in 1..Cardinality(p.assumed) |->
                        [on |-> SetToSeq(p.assumed)[i], state |-> "registered", outcome |-> "none"]]
  BY DEF Init, ValidationInit
<1>2. claims = <<>> /\ contested = {} /\ errand = NoErrand
  BY DEF Init, ValidationInit
<1>3. PlanRows = p.assumed \cup {l[1] : l \in p.rests} \cup {l[2] : l \in p.rests}
  BY <1>1 DEF PlanRows
<1>4. IsFiniteSet(p.assumed) /\ IsFiniteSet(p.rests)
  BY PlansAreFinite
<1>5. IsFiniteSet({l[1] : l \in p.rests}) /\ IsFiniteSet({l[2] : l \in p.rests})
  BY <1>4, EndsAreFinite
<1>6. IsFiniteSet(PlanRows)
  BY <1>3, <1>4, <1>5, FS_Union
<1>7. PlanStands
  BY <1>1, <1>3, <1>6 DEF PlanStands
<1>8. /\ SetToSeq(p.assumed) \in [1..Cardinality(p.assumed) -> p.assumed]
      /\ Cardinality(p.assumed) \in Nat
  BY <1>4, ListOfSet, FS_CardinalityType
<1>9. IsList(spikes)
  BY <1>1, <1>8, ListOfLength
<1>10. \A i \in DOMAIN spikes : spikes[i].on \in PlanRows
  BY <1>1, <1>3, <1>8
<1>11. IsList(claims) /\ DOMAIN claims = {}
  BY <1>2 DEF IsList
<1> QED
  BY <1>2, <1>7, <1>9, <1>10, <1>11 DEF ContestInv, TrialsStand, ErrandStands

\* When nothing is left to do, what was contested is what rests on the cause: no less and
\* no more.
LEMMA ContestedIsAll == ContestInv => RefutationContests
<1> SUFFICES ASSUME ContestInv, errand.step = "contest", errand.todo = <<>>
             PROVE  LET claim == errand.cause[1] = "claim"
                        roots == IF claim THEN claims[errand.cause[2]].refs ELSE {Tried.on}
                        all == {r \in PlanRows : <<r, errand.cause>> \in contested}
                    IN  /\ \A l \in rests : l[2] \in all \cup roots => l[1] \in all \cup roots
                        /\ claim => roots \subseteq all
                        /\ \A r \in all \ roots : \E l \in rests : l[1] = r /\ l[2] \in all \cup roots
                        /\ claim \/ standing[Tried.on] = "rejected"
  BY DEF RefutationContests
<1>1. PICK cause, todo :
        /\ errand = [step |-> "contest", cause |-> cause, todo |-> todo]
        /\ CauseStands(cause, todo)
  BY DEF ContestInv, ErrandStands, NoErrand
<1> DEFINE all == {r \in PlanRows : <<r, cause>> \in contested}
<1>2. errand.cause = cause /\ Range(todo) = {}
  BY <1>1 DEF Range
<1>3. ASSUME NEW roots \in SUBSET PlanRows, NEW rows,
             Splits(cause, todo, rows), roots \cup rows = roots \cup Affected(roots)
      PROVE  /\ \A l \in rests : l[2] \in all \cup roots => l[1] \in all \cup roots
             /\ \A r \in all \ roots : \E l \in rests : l[1] = r /\ l[2] \in all \cup roots
             /\ all = rows
  <2>1. /\ Affected(roots) \subseteq PlanRows
        /\ Closed(rests, roots \cup Affected(roots))
        /\ \A S : (roots \subseteq S /\ Closed(rests, S)) => Affected(roots) \subseteq S
    BY RestingIsClosure DEF ContestInv
  <2>2. all = rows
    <3>1. \A r : r \in rows <=> <<r, cause>> \in contested
      BY <1>2, <1>3 DEF Splits
    <3>2. rows \subseteq PlanRows
      BY <1>3, <2>1
    <3> QED
      BY <3>1, <3>2
  <2> HIDE DEF all
  <2>3. all \cup roots = roots \cup Affected(roots)
    BY <1>3, <2>2
  <2>4. Closed(rests, all \cup roots)
    BY <2>1, <2>3
  <2>5. ASSUME NEW r \in all \ roots, ~\E l \in rests : l[1] = r /\ l[2] \in all \cup roots
        PROVE  FALSE
    <3> PICK S : S = (all \cup roots) \ {r}
      OBVIOUS
    <3>1. roots \subseteq S
      BY <2>5
    <3>2. Closed(rests, S)
      BY <2>4, <2>5 DEF Closed
    <3>3. Affected(roots) \subseteq S
      BY <2>1, <3>1, <3>2
    <3>4. r \in roots \cup Affected(roots) /\ r \notin roots
      BY <2>3, <2>5
    <3> QED
      BY <3>3, <3>4
  <2> QED
    BY <2>2, <2>4, <2>5 DEF Closed
<1>4. CASE \E i \in DOMAIN spikes :
              /\ cause = <<"spike", i>> /\ standing[spikes[i].on] = "rejected"
              /\ Splits(cause, todo, Affected({spikes[i].on}))
  <2>1. PICK i \in DOMAIN spikes :
              /\ cause = <<"spike", i>> /\ standing[spikes[i].on] = "rejected"
              /\ Splits(cause, todo, Affected({spikes[i].on}))
    BY <1>4
  <2>2. cause[1] # "claim" /\ Tried = spikes[i]
    BY <1>2, <2>1 DEF Tried
  <2>3. {spikes[i].on} \in SUBSET PlanRows
    BY DEF ContestInv, TrialsStand
  <2> HIDE DEF all
  <2> PICK roots : roots = {spikes[i].on}
    OBVIOUS
  <2>4. /\ \A l \in rests : l[2] \in all \cup roots => l[1] \in all \cup roots
        /\ \A r \in all \ roots : \E l \in rests : l[1] = r /\ l[2] \in all \cup roots
    BY <1>3, <2>1, <2>3
  <2> QED
    BY <1>2, <2>1, <2>2, <2>4 DEF all
<1>5. CASE \E j \in DOMAIN claims :
              /\ cause = <<"claim", j>>
              /\ Splits(cause, todo, claims[j].refs \cup Affected(claims[j].refs))
  <2>1. PICK j \in DOMAIN claims :
              /\ cause = <<"claim", j>>
              /\ Splits(cause, todo, claims[j].refs \cup Affected(claims[j].refs))
    BY <1>5
  <2> PICK roots : roots = claims[j].refs
    OBVIOUS
  <2>2. cause[1] = "claim" /\ claims[cause[2]].refs = roots
    BY <2>1
  <2>3. roots \in SUBSET PlanRows
    BY DEF ContestInv, TrialsStand
  <2> HIDE DEF all
  <2>4. roots \cup (roots \cup Affected(roots)) = roots \cup Affected(roots)
    OBVIOUS
  <2>5. /\ \A l \in rests : l[2] \in all \cup roots => l[1] \in all \cup roots
        /\ \A r \in all \ roots : \E l \in rests : l[1] = r /\ l[2] \in all \cup roots
        /\ all = roots \cup Affected(roots)
    BY <1>3, <2>1, <2>3, <2>4
  <2> QED
    BY <1>2, <2>2, <2>5 DEF all
<1> QED
  BY <1>1, <1>4, <1>5 DEF CauseStands

---------------------------------------------------------------------------
(* What is placed.                                                         *)

IsPlacement(x) ==
    \E root, level, scope, from, live :
        /\ x = [root |-> root, level |-> level, scope |-> scope, from |-> from, live |-> live]
        /\ level \in DOMAIN Breadth /\ live \in BOOLEAN

\* A placement is live if it is the last one of its root, and there is one if there was
\* ever any.
PlacementInv ==
    /\ IsList(placements)
    /\ \A i \in DOMAIN placements : IsPlacement(placements[i])
    /\ \A i \in DOMAIN placements :
           placements[i].live <=>
               \A k \in DOMAIN placements : placements[k].root = placements[i].root => k <= i
    /\ BroadeningsLogged

\* What BroadeningsLogged says of one placement.
IsLast(i, j, rows) ==
    /\ i \in 1..(j - 1) /\ rows[i].root = rows[j].root
    /\ \A k \in 1..(j - 1) : rows[k].root = rows[j].root => k <= i

IsLogged(j, rows) ==
    \A i : IsLast(i, j, rows) =>
        rows[j].from = IF Breadth[rows[j].level] > Breadth[rows[i].level]
                       THEN rows[i].level ELSE "none"

\* The last of some numbers is the one that is chosen.
LEMMA LastChosen ==
    ASSUME NEW S \in SUBSET Nat, IsFiniteSet(S), S # {}
    PROVE  \E n \in S : /\ \A m \in S : m <= n
                        /\ n = CHOOSE i \in S : \A k \in S : k <= i
<1> DEFINE Covers(m) == \A k \in S : k <= m
           T == {m \in Nat : Covers(m)}
<1>1. PICK r \in S : Rank(S, r) = Cardinality(S)
  <2>1. Cardinality(S) \in Nat /\ Cardinality(S) # 0
    BY FS_CardinalityType, FS_EmptySet
  <2> QED
    BY <2>1, Ranking
<1>2. \A m \in S : m <= r
  <2> SUFFICES ASSUME NEW m \in S, ~(m <= r) PROVE FALSE
    OBVIOUS
  <2> DEFINE upTo == {s \in S : s <= r}
  <2>1. upTo \subseteq S /\ m \notin upTo
    OBVIOUS
  <2>2. Cardinality(upTo) = Cardinality(S)
    BY <1>1 DEF Rank
  <2> HIDE DEF upTo
  <2>3. upTo = S
    BY <2>1, <2>2, FS_Subset
  <2> QED
    BY <2>1, <2>3
<1>3. \A n \in S : (\A k \in S : k <= n) => n = r
  <2> TAKE n \in S
  <2> HAVE \A k \in S : k <= n
  <2>1. r <= n /\ n <= r /\ n \in Nat /\ r \in Nat
    BY <1>2
  <2> QED
    BY <2>1
<1>4. r = CHOOSE i \in S : \A k \in S : k <= i
  BY <1>2, <1>3
<1> QED
  BY <1>2, <1>4

\* BroadeningsLogged of any list, ...
Logs(rows) ==
    \A j \in DOMAIN rows :
        LET root == rows[j].root
            earlier == {i \in 1..(j - 1) : rows[i].root = root}
            last == CHOOSE i \in earlier : \A k \in earlier : k <= i
        IN  earlier # {} =>
                IF Breadth[rows[j].level] > Breadth[rows[last].level]
                THEN rows[j].from = rows[last].level
                ELSE rows[j].from = "none"

\* ... which says the same an entry at a time.
LEMMA LoggedEach ==
    ASSUME NEW rows, IsList(rows)
    PROVE  Logs(rows) <=> \A j \in DOMAIN rows : IsLogged(j, rows)
<1> DEFINE earlier(j) == {i \in 1..(j - 1) : rows[i].root = rows[j].root}
           last(j) == CHOOSE i \in earlier(j) : \A k \in earlier(j) : k <= i
<1>1. Logs(rows) <=>
        \A j \in DOMAIN rows : earlier(j) # {} =>
            rows[j].from =
                IF Breadth[rows[j].level] > Breadth[rows[last(j)].level]
                THEN rows[last(j)].level ELSE "none"
  BY DEF Logs
<1>2. ASSUME NEW j \in DOMAIN rows
      PROVE  /\ \A i : IsLast(i, j, rows) => earlier(j) # {} /\ i = last(j)
             /\ earlier(j) # {} => IsLast(last(j), j, rows)
  <2>1. j \in Nat
    BY ListShape
  <2>2. earlier(j) \in SUBSET Nat /\ IsFiniteSet(earlier(j))
    <3>1. earlier(j) \subseteq 1..(j - 1) /\ IsFiniteSet(1..(j - 1))
      BY <2>1, FS_Interval
    <3> QED
      BY <2>1, <3>1, FS_Subset
  <2>3. \A i : IsLast(i, j, rows) <=>
                   i \in earlier(j) /\ \A k \in earlier(j) : k <= i
    BY DEF IsLast
  <2>4. \A i, k \in earlier(j) : (i <= k /\ k <= i) => i = k
    BY <2>2
  <2>5. earlier(j) # {} => /\ last(j) \in earlier(j)
                           /\ \A m \in earlier(j) : m <= last(j)
    <3> HIDE DEF earlier
    <3> QED
      BY <2>2, LastChosen
  <2> HIDE DEF earlier
  <2> QED
    BY <2>3, <2>4, <2>5
<1> HIDE DEF earlier, last
<1> QED
  BY <1>1, <1>2 DEF IsLogged
\* An entry that is added to a list leaves what is said of the ones before.
LEMMA LoggedStays ==
    ASSUME NEW rows, NEW rows2, NEW N \in Nat, NEW j \in 1..N,
           \A i \in 1..N : /\ rows2[i].root = rows[i].root /\ rows2[i].level = rows[i].level
                           /\ rows2[i].from = rows[i].from,
           IsLogged(j, rows)
    PROVE  IsLogged(j, rows2)
<1>1. \A i : IsLast(i, j, rows2) => i \in 1..N /\ IsLast(i, j, rows)
  BY DEF IsLast
<1> QED
  BY <1>1 DEF IsLogged

\* The place a root has is the last one it was given.
LEMMA PlacedIsLast ==
    ASSUME PlacementInv, NEW r
    PROVE  /\ \A i \in Placed(r) : \A k \in DOMAIN placements :
                  placements[k].root = r => k <= i
           /\ \A i \in DOMAIN placements :
                  (/\ placements[i].root = r
                   /\ \A k \in DOMAIN placements : placements[k].root = r => k <= i)
                  => i \in Placed(r)
BY DEF PlacementInv, Placed

\* A placement has the scope its predecessor had as what it is promoted from, if it is
\* broader.
LEMMA FromIsLast ==
    ASSUME PlacementInv, NEW r, NEW level, NEW i \in Placed(r)
    PROVE  From(r, level) = IF Breadth[level] > Breadth[placements[i].level]
                            THEN placements[i].level ELSE "none"
<1>1. Placed(r) = {i}
  <2>1. Placed(r) \subseteq DOMAIN placements /\ DOMAIN placements \subseteq Nat
    BY ListShape DEF PlacementInv, Placed
  <2>2. \A k \in Placed(r) : k <= i /\ i <= k
    BY PlacedIsLast DEF Placed
  <2> QED
    BY <2>1, <2>2
<1> DEFINE narrower == {k \in Placed(r) : Breadth[level] > Breadth[placements[k].level]}
<1>2. From(r, level) = IF narrower = {} THEN "none"
                       ELSE placements[CHOOSE k \in narrower : TRUE].level
  BY DEF From
<1>3. CASE Breadth[level] > Breadth[placements[i].level]
  <2>1. narrower = {i}
    BY <1>1, <1>3
  <2> QED
    BY <1>2, <1>3, <2>1
<1>4. CASE ~(Breadth[level] > Breadth[placements[i].level])
  <2>1. narrower = {}
    BY <1>1, <1>4
  <2> QED
    BY <1>2, <1>4, <2>1
<1> QED
  BY <1>3, <1>4

\* Attaching makes the new entry the live one of its root and no other root's.
LEMMA AttachKeepsPlacements ==
    ASSUME PlacementInv, NEW r, NEW level \in DOMAIN Breadth, NEW scope, NEW why,
           Attach(r, level, scope, why)
    PROVE  PlacementInv'
<1> DEFINE x == [root |-> r, level |-> level, scope |-> scope, from |-> From(r, level),
                 live |-> TRUE]
           old == [i \in DOMAIN placements |->
                      [placements[i] EXCEPT !.live = @ /\ i \notin Placed(r)]]
<1> PICK n : n = Len(placements) + 1
  OBVIOUS
<1>1. /\ n - 1 \in Nat /\ n - 1 = Len(placements) /\ DOMAIN placements = 1..(n - 1)
      /\ IsList(placements)
  BY ListShape DEF PlacementInv
<1>2. placements' = Append(old, x)
  BY DEF Attach
<1>3. /\ IsPlacement(x) /\ x.root = r /\ x.level = level /\ x.from = From(r, level)
      /\ x.live = TRUE
  BY DEF IsPlacement
<1>4. /\ IsList(old) /\ DOMAIN old = 1..(n - 1) /\ Len(old) = n - 1
  <2>1. DOMAIN old = 1..(n - 1) /\ old = [i \in 1..(n - 1) |-> old[i]]
    BY <1>1
  <2> HIDE DEF old
  <2>2. IsList(old)
    BY <1>1, <2>1, ListOfLength
  <2> QED
    BY <1>1, <2>1, <2>2, ListShape
<1>5. ASSUME NEW i \in 1..(n - 1)
      PROVE  /\ IsPlacement(old[i]) /\ old[i].root = placements[i].root
             /\ old[i].level = placements[i].level /\ old[i].from = placements[i].from
             /\ old[i].live <=> placements[i].live /\ placements[i].root # r
  <2>1. PICK root, lvl, sc, from, live :
            /\ placements[i] = [root |-> root, level |-> lvl, scope |-> sc, from |-> from,
                                live |-> live]
            /\ lvl \in DOMAIN Breadth /\ live \in BOOLEAN
    BY <1>1 DEF PlacementInv, IsPlacement
  <2>2. PICK gone : gone = (live /\ i \notin Placed(r))
    OBVIOUS
  <2>3. old[i] = [root |-> root, level |-> lvl, scope |-> sc, from |-> from, live |-> gone]
    BY <1>1, <2>1, <2>2
  <2>4. gone \in BOOLEAN /\ (gone <=> live /\ root # r)
    <3>1. i \in Placed(r) <=> root = r /\ live
      BY <1>1, <2>1 DEF Placed
    <3>2. live \in BOOLEAN
      BY <2>1
    <3> HIDE <2>1
    <3> QED
      BY Zenon, <2>2, <3>1, <3>2
  <2> HIDE DEF old
  <2>5. IsPlacement(old[i])
    BY <2>1, <2>3, <2>4 DEF IsPlacement
  <2> QED
    BY <2>1, <2>3, <2>4, <2>5
<1> HIDE DEF old, x
<1>6. /\ IsList(placements') /\ DOMAIN placements' = 1..n /\ placements'[n] = x
      /\ \A i \in 1..(n - 1) : placements'[i] = old[i]
  <2>1. (1..(n - 1)) \cup {n} = 1..n
    BY <1>1
  <2> QED
    BY <1>2, <1>4, <2>1, ListAppend
<1>7. \A i \in DOMAIN placements' : IsPlacement(placements'[i])
  BY <1>1, <1>3, <1>5, <1>6
<1>8. ASSUME NEW i \in DOMAIN placements'
      PROVE  placements'[i].live <=>
               \A k \in DOMAIN placements' : placements'[k].root = placements'[i].root => k <= i
  <2>1. CASE i = n
    BY <1>1, <1>3, <1>6, <2>1
  <2>2. CASE i # n
    <3>1. i \in 1..(n - 1) /\ n \in Nat /\ ~(n <= i)
      BY <1>1, <1>6, <2>2
    <3>2. /\ placements'[i].root = placements[i].root
          /\ placements'[i].live <=> placements[i].live /\ placements[i].root # r
          /\ placements'[n].root = r
      BY <1>3, <1>5, <1>6, <3>1
    <3>3. placements[i].live <=>
            \A k \in 1..(n - 1) : placements[k].root = placements[i].root => k <= i
      BY <1>1, <3>1 DEF PlacementInv
    <3>4. \A k \in 1..(n - 1) : placements'[k].root = placements[k].root
      BY <1>5, <1>6
    <3>5. \A k : k \in 1..n <=> k \in 1..(n - 1) \/ k = n
      BY <1>1
    <3> QED
      BY <1>6, <3>1, <3>2, <3>3, <3>4, <3>5
  <2> QED
    BY <2>1, <2>2
<1>9. ASSUME NEW j \in DOMAIN placements' PROVE IsLogged(j, placements')
  <2>1. CASE j # n
    <3>1. j \in 1..(n - 1)
      BY <1>1, <1>6, <2>1
    <3>2. Logs(placements)
      BY DEF PlacementInv, BroadeningsLogged, Logs
    <3>3. IsLogged(j, placements)
      BY <1>1, <3>1, <3>2, LoggedEach
    <3>4. \A i \in 1..(n - 1) : /\ placements'[i].root = placements[i].root
                                /\ placements'[i].level = placements[i].level
                                /\ placements'[i].from = placements[i].from
      BY <1>5, <1>6
    <3> QED
      BY <1>1, <3>1, <3>3, <3>4, LoggedStays
  <2>2. CASE j = n
    <3> SUFFICES ASSUME NEW i, IsLast(i, n, placements')
                 PROVE  placements'[n].from =
                            IF Breadth[placements'[n].level] > Breadth[placements'[i].level]
                            THEN placements'[i].level ELSE "none"
      BY <2>2 DEF IsLogged
    <3>1. /\ i \in 1..(n - 1) /\ placements'[i].root = r
          /\ \A k \in 1..(n - 1) : placements'[k].root = r => k <= i
      BY <1>3, <1>6 DEF IsLast
    <3>2. \A k \in 1..(n - 1) : /\ placements'[k].root = placements[k].root
                                /\ placements'[k].level = placements[k].level
      BY <1>5, <1>6
    <3>3. i \in Placed(r)
      BY <1>1, <3>1, <3>2, PlacedIsLast
    <3>4. From(r, level) = IF Breadth[level] > Breadth[placements[i].level]
                           THEN placements[i].level ELSE "none"
      BY <3>3, FromIsLast
    <3> QED
      BY <1>3, <1>6, <3>1, <3>2, <3>4
  <2> QED
    BY <2>1, <2>2
<1>10. BroadeningsLogged'
  <2>1. Logs(placements')
    BY <1>6, <1>9, LoggedEach
  <2> QED
    BY <2>1 DEF BroadeningsLogged, Logs
<1> QED
  BY <1>6, <1>7, <1>8, <1>10 DEF PlacementInv
---------------------------------------------------------------------------
(* The briefs.                                                             *)

IsBrief(x) ==
    \E subtask, epoch, fate, live, before :
        /\ x = [subtask |-> subtask, serving |-> epoch, live |-> live, before |-> before,
                fate |-> fate]
        /\ live \in BOOLEAN

\* Brief i is the one before brief j.
IsBefore(i, j, rows) ==
    /\ i \in 1..(j - 1) /\ rows[i].subtask = rows[j].subtask
    /\ \A k \in 1..(j - 1) : rows[k].subtask = rows[j].subtask => k <= i

IsLinked(j, rows) ==
    /\ (\A i : ~IsBefore(i, j, rows)) => rows[j].before = 0
    /\ \A i : IsBefore(i, j, rows) => rows[j].before = i

\* A key that composed names what was the live brief then: there is a later one now.
ComposedLater ==
    \A s, e, i : <<"compose", s, e, i>> \in receipts =>
        \E k \in DOMAIN briefs : briefs[k].subtask = s /\ i < k

BriefInv ==
    /\ IsList(briefs)
    /\ \A i \in DOMAIN briefs : IsBrief(briefs[i]) /\ IsLinked(i, briefs)
    /\ \A i \in DOMAIN briefs :
           briefs[i].live <=>
               \A k \in DOMAIN briefs : briefs[k].subtask = briefs[i].subtask => k <= i
    /\ ComposedLater

\* Numbers below another have a last one, if there are any.
LEMMA LastBelow ==
    ASSUME NEW j \in Nat, NEW S, S \subseteq 1..(j - 1), S # {}
    PROVE  \E n \in S : /\ \A m \in S : m <= n
                        /\ \A m \in S : (\A k \in S : k <= m) => m = n
<1>1. S \in SUBSET Nat
  OBVIOUS
<1>2. IsFiniteSet(S)
  <2>1. IsFiniteSet(1..(j - 1))
    BY FS_Interval
  <2> QED
    BY <2>1, FS_Subset
<1>3. PICK n \in S : \A m \in S : m <= n
  BY <1>1, <1>2, LastChosen
<1>4. ASSUME NEW m \in S, \A k \in S : k <= m PROVE m = n
  <2>1. m \in Nat /\ n \in Nat /\ m <= n /\ n <= m
    BY <1>1, <1>3, <1>4
  <2> QED
    BY <2>1
<1> QED
  BY <1>3, <1>4

\* The brief a recomposition follows is the last of its sub-task, and 0 if there is none.
LEMMA PreviousIsLast ==
    ASSUME BriefInv, NEW s
    PROVE  /\ Previous(s) \in Nat
           /\ \A k \in DOMAIN briefs : briefs[k].subtask = s => k <= Previous(s)
           /\ Previous(s) # 0 =>
                /\ Previous(s) \in DOMAIN briefs /\ briefs[Previous(s)].subtask = s
                /\ LiveBrief(s) = {Previous(s)}
           /\ Previous(s) = 0 => LiveBrief(s) = {}
<1> DEFINE of == {k \in DOMAIN briefs : briefs[k].subtask = s}
<1>1. Len(briefs) \in Nat /\ DOMAIN briefs = 1..Len(briefs)
  BY ListShape DEF BriefInv
<1>2. \A k : k \in LiveBrief(s) <=> k \in of /\ \A m \in of : m <= k
  BY DEF LiveBrief, BriefInv
<1>3. CASE of = {}
  <2>1. LiveBrief(s) = {}
    BY <1>2, <1>3
  <2> QED
    BY <1>3, <2>1 DEF Previous
<1>4. CASE of # {}
  <2>1. of \subseteq 1..((Len(briefs) + 1) - 1) /\ Len(briefs) + 1 \in Nat
    BY <1>1
  <2>2. PICK n \in of : /\ \A m \in of : m <= n
                        /\ \A m \in of : (\A k \in of : k <= m) => m = n
    <3> HIDE DEF of
    <3> QED
      BY <1>4, <2>1, LastBelow
  <2>3. LiveBrief(s) = {n}
    <3>1. n \in LiveBrief(s)
      BY <1>2, <2>2
    <3>2. \A k \in LiveBrief(s) : k = n
      BY <1>2, <2>2
    <3> QED
      BY <3>1, <3>2
  <2>4. Previous(s) = n
    BY <2>3 DEF Previous
  <2>5. n \in Nat /\ n # 0
    BY <1>1, <2>2
  <2> QED
    BY <2>2, <2>3, <2>4, <2>5
<1> QED
  BY <1>3, <1>4

\* A brief that is filed leaves what is said of the ones before it.
LEMMA LinkedStays ==
    ASSUME NEW rows, NEW rows2, NEW N \in Nat, NEW j \in 1..N,
           \A i \in 1..N : /\ rows2[i].subtask = rows[i].subtask
                           /\ rows2[i].before = rows[i].before,
           IsLinked(j, rows)
    PROVE  IsLinked(j, rows2)
<1>1. \A i : IsBefore(i, j, rows2) <=> IsBefore(i, j, rows)
  BY DEF IsBefore
<1> QED
  BY <1>1 DEF IsLinked

\* Composing files a brief with a link to the one it supersedes, under a key of its own.
LEMMA ComposeKeepsBriefs ==
    ASSUME BriefInv, NEW s, NEW omitted, ComposeBrief(s, omitted)
    PROVE  BriefInv'
<1> DEFINE x == [subtask |-> s, serving |-> serving[s], live |-> TRUE, before |-> Previous(s),
                 fate |-> [r \in Candidates(s) |->
                               IF r \in omitted THEN "omitted" ELSE "included"]]
           old == [i \in DOMAIN briefs |->
                      [briefs[i] EXCEPT !.live = @ /\ i \notin LiveBrief(s)]]
<1> PICK n : n = Len(briefs) + 1
  OBVIOUS
<1> PICK p : p = Previous(s)
  OBVIOUS
<1>1. /\ n - 1 \in Nat /\ n - 1 = Len(briefs) /\ DOMAIN briefs = 1..(n - 1)
      /\ IsList(briefs)
  BY ListShape DEF BriefInv
<1>2. briefs' = Append(old, x)
  BY DEF ComposeBrief
<1>3. IsBrief(x) /\ x.subtask = s /\ x.live = TRUE /\ x.before = p
  BY DEF IsBrief
<1>4. /\ IsList(old) /\ DOMAIN old = 1..(n - 1) /\ Len(old) = n - 1
  <2>1. DOMAIN old = 1..(n - 1) /\ old = [i \in 1..(n - 1) |-> old[i]]
    BY <1>1
  <2> HIDE DEF old
  <2>2. IsList(old)
    BY <1>1, <2>1, ListOfLength
  <2> QED
    BY <1>1, <2>1, <2>2, ListShape
<1>5. ASSUME NEW i \in 1..(n - 1)
      PROVE  /\ IsBrief(old[i]) /\ old[i].subtask = briefs[i].subtask
             /\ old[i].before = briefs[i].before
             /\ old[i].live <=> briefs[i].live /\ briefs[i].subtask # s
  <2>1. PICK subtask, epoch, fate, live, before :
            /\ briefs[i] = [subtask |-> subtask, serving |-> epoch, live |-> live,
                            before |-> before, fate |-> fate]
            /\ live \in BOOLEAN
    BY <1>1 DEF BriefInv, IsBrief
  <2>2. PICK stays : stays = (live /\ i \notin LiveBrief(s))
    OBVIOUS
  <2>3. old[i] = [subtask |-> subtask, serving |-> epoch, live |-> stays,
                  before |-> before, fate |-> fate]
    BY <1>1, <2>1, <2>2
  <2>4. stays \in BOOLEAN /\ (stays <=> live /\ subtask # s)
    <3>1. i \in LiveBrief(s) <=> subtask = s /\ live
      BY <1>1, <2>1 DEF LiveBrief
    <3>2. live \in BOOLEAN
      BY <2>1
    <3> QED
      BY Zenon, <2>2, <3>1, <3>2
  <2> HIDE DEF old
  <2>5. IsBrief(old[i])
    BY <2>1, <2>3, <2>4 DEF IsBrief
  <2> QED
    BY <2>1, <2>3, <2>4, <2>5
<1> HIDE DEF old, x
<1>6. /\ IsList(briefs') /\ DOMAIN briefs' = 1..n /\ briefs'[n] = x
      /\ \A i \in 1..(n - 1) : briefs'[i] = old[i]
  <2>1. (1..(n - 1)) \cup {n} = 1..n
    BY <1>1
  <2> QED
    BY <1>2, <1>4, <2>1, ListAppend
<1>7. \A i \in DOMAIN briefs' : IsBrief(briefs'[i])
  BY <1>1, <1>3, <1>5, <1>6
<1>8. ASSUME NEW i \in DOMAIN briefs'
      PROVE  briefs'[i].live <=>
               \A k \in DOMAIN briefs' : briefs'[k].subtask = briefs'[i].subtask => k <= i
  <2>1. CASE i = n
    BY <1>1, <1>3, <1>6, <2>1
  <2>2. CASE i # n
    <3>1. i \in 1..(n - 1) /\ n \in Nat /\ ~(n <= i)
      BY <1>1, <1>6, <2>2
    <3>2. /\ briefs'[i].subtask = briefs[i].subtask
          /\ briefs'[i].live <=> briefs[i].live /\ briefs[i].subtask # s
          /\ briefs'[n].subtask = s
      BY <1>3, <1>5, <1>6, <3>1
    <3>3. briefs[i].live <=>
            \A k \in 1..(n - 1) : briefs[k].subtask = briefs[i].subtask => k <= i
      BY <1>1, <3>1 DEF BriefInv
    <3>4. \A k \in 1..(n - 1) : briefs'[k].subtask = briefs[k].subtask
      BY <1>5, <1>6
    <3>5. \A k : k \in 1..n <=> k \in 1..(n - 1) \/ k = n
      BY <1>1
    <3> QED
      BY <1>6, <3>1, <3>2, <3>3, <3>4, <3>5
  <2> QED
    BY <2>1, <2>2
<1>9. /\ p \in Nat
      /\ \A k \in 1..(n - 1) : briefs[k].subtask = s => k <= p
      /\ p # 0 => p \in 1..(n - 1) /\ briefs[p].subtask = s
  BY <1>1, PreviousIsLast
<1>10. ASSUME NEW j \in DOMAIN briefs' PROVE IsLinked(j, briefs')
  <2>1. CASE j # n
    <3>1. j \in 1..(n - 1)
      BY <1>1, <1>6, <2>1
    <3>2. IsLinked(j, briefs)
      BY <1>1, <3>1 DEF BriefInv
    <3>3. \A i \in 1..(n - 1) : /\ briefs'[i].subtask = briefs[i].subtask
                                /\ briefs'[i].before = briefs[i].before
      BY <1>5, <1>6
    <3> QED
      BY <1>1, <3>1, <3>2, <3>3, LinkedStays
  <2>2. CASE j = n
    <3>1. briefs'[n].subtask = s /\ briefs'[n].before = p
      BY <1>3, <1>6
    <3>2. \A k \in 1..(n - 1) : k \in Nat /\ briefs'[k].subtask = briefs[k].subtask
      BY <1>5, <1>6
    <3>3. \A i : IsBefore(i, n, briefs') <=>
                     /\ i \in 1..(n - 1) /\ briefs[i].subtask = s
                     /\ \A k \in 1..(n - 1) : briefs[k].subtask = s => k <= i
      BY <3>1, <3>2 DEF IsBefore
    <3>4. p # 0 => IsBefore(p, n, briefs')
      BY <1>9, <3>3
    <3>5. \A i : IsBefore(i, n, briefs') => i = p
      BY <1>9, <3>2, <3>3
    <3> QED
      BY <2>2, <3>1, <3>4, <3>5 DEF IsLinked
  <2> QED
    BY <2>1, <2>2
<1>11. ComposedLater'
  <2> SUFFICES ASSUME NEW t, NEW e, NEW i, <<"compose", t, e, i>> \in receipts'
               PROVE  \E k \in DOMAIN briefs' : briefs'[k].subtask = t /\ i < k
    BY DEF ComposedLater
  <2>1. receipts' = receipts \cup {<<"compose", s, serving[s], p>>}
    BY DEF ComposeBrief, Write, ComposeKey
  <2>2. CASE <<"compose", t, e, i>> \in receipts
    <3>1. PICK k \in DOMAIN briefs : briefs[k].subtask = t /\ i < k
      BY <2>2 DEF BriefInv, ComposedLater
    <3>2. k \in DOMAIN briefs' /\ briefs'[k].subtask = t
      BY <1>1, <1>5, <1>6, <3>1
    <3> QED
      BY <3>1, <3>2
  <2>3. CASE <<"compose", t, e, i>> \notin receipts
    <3>1. t = s /\ i = p
      BY <2>1, <2>3
    <3>2. n \in DOMAIN briefs' /\ briefs'[n].subtask = s
      BY <1>1, <1>3, <1>6
    <3>3. p < n
      BY <1>1, <1>9
    <3> QED
      BY <3>1, <3>2, <3>3
  <2> QED
    BY <2>2, <2>3
<1> QED
  BY <1>6, <1>7, <1>8, <1>10, <1>11 DEF BriefInv

\* Whoever leaves the briefs alone and composes nothing keeps the invariant.
LEMMA BriefsElsewhere ==
    ASSUME BriefInv, UNCHANGED briefs, \A k \in receipts' : k \in receipts \/ k[1] # "compose"
    PROVE  BriefInv'
<1>1. \A s, e, i : <<"compose", s, e, i>> \in receipts' => <<"compose", s, e, i>> \in receipts
  OBVIOUS
<1>2. ComposedLater'
  BY <1>1 DEF BriefInv, ComposedLater
<1> QED
  BY <1>2 DEF BriefInv

\* What is live is last and what is linked is a chain, so that the next key is free.
LEMMA BriefsAreAChain == BriefInv => BriefsChain
<1> SUFFICES ASSUME BriefInv, NEW s \in SubTasks
             PROVE  LET of == {i \in DOMAIN briefs : briefs[i].subtask = s}
                    IN  /\ \A i \in of : briefs[i].live <=> \A k \in of : k <= i
                        /\ \A i \in of : briefs[i].before =
                                IF \A k \in of : k >= i THEN 0
                                ELSE CHOOSE k \in of : k < i /\ \A m \in of : m < i => m <= k
                        /\ ComposeKey(s) \notin receipts
  BY DEF BriefsChain
<1> DEFINE of == {i \in DOMAIN briefs : briefs[i].subtask = s}
<1>1. Len(briefs) \in Nat /\ DOMAIN briefs = 1..Len(briefs)
  BY ListShape DEF BriefInv
<1>2. \A i \in of : briefs[i].live <=> \A k \in of : k <= i
  BY DEF BriefInv
<1>3. ASSUME NEW i \in of
      PROVE  briefs[i].before =
                IF \A k \in of : k >= i THEN 0
                ELSE CHOOSE k \in of : k < i /\ \A m \in of : m < i => m <= k
  <2> DEFINE S == {k \in of : k < i}
  <2>1. i \in Nat /\ S \subseteq 1..(i - 1) /\ IsLinked(i, briefs) /\ \A k \in of : k \in Nat
    BY <1>1 DEF BriefInv
  <2>2. \A k : IsBefore(k, i, briefs) <=> k \in S /\ \A m \in S : m <= k
    BY <1>1 DEF IsBefore
  <2>3. CASE S = {}
    <3>1. \A k \in of : k >= i
      BY <2>1, <2>3
    <3>2. briefs[i].before = 0
      BY <2>1, <2>2, <2>3 DEF IsLinked
    <3> QED
      BY <3>1, <3>2
  <2>4. CASE S # {}
    <3>1. PICK n \in S : /\ \A m \in S : m <= n
                         /\ \A m \in S : (\A k \in S : k <= m) => m = n
      <4> HIDE DEF S
      <4> QED
        BY <2>1, <2>4, LastBelow
    <3>2. ~(\A k \in of : k >= i)
      BY <2>1, <3>1
    <3>3. \A k : (k \in of /\ k < i /\ \A m \in of : m < i => m <= k) <=> k = n
      BY <3>1
    <3>4. n = CHOOSE k \in of : k < i /\ \A m \in of : m < i => m <= k
      BY <3>3
    <3>5. briefs[i].before = n
      BY <2>1, <2>2, <3>1 DEF IsLinked
    <3> QED
      BY <3>2, <3>4, <3>5
  <2> QED
    BY <2>3, <2>4
<1>4. ComposeKey(s) \notin receipts
  <2> SUFFICES ASSUME <<"compose", s, serving[s], Previous(s)>> \in receipts PROVE FALSE
    BY DEF ComposeKey
  <2>1. PICK k \in DOMAIN briefs : briefs[k].subtask = s /\ Previous(s) < k
    BY DEF BriefInv, ComposedLater
  <2>2. k <= Previous(s) /\ k \in Nat /\ Previous(s) \in Nat
    BY <1>1, <2>1, PreviousIsLast
  <2> QED
    BY <2>1, <2>2
<1> QED
  BY <1>2, <1>3, <1>4

---------------------------------------------------------------------------
(* Citations: reading a text, a character at a time.                       *)

NothingRead == [out |-> <<>>, pending |-> FALSE, joining |-> FALSE]

\* f[n] is what is left of the first n characters.
ReadTo(f, s, keep, N) ==
    f = [i \in 0..N |-> IF i = 0 THEN NothingRead ELSE ReadOn(f[i - 1], s, i, keep)]

\* There is such a reading of any length, so that its definition by recursion means it.
LEMMA ReadingExists ==
    ASSUME NEW s, NEW keep, NEW N \in Nat
    PROVE  \E f : ReadTo(f, s, keep, N)
<1> DEFINE S == {n \in Nat : \E f : ReadTo(f, s, keep, n)}
<1>1. 0 \in S
  <2> DEFINE f == [i \in 0..0 |-> NothingRead]
  <2>1. f = [i \in 0..0 |-> IF i = 0 THEN NothingRead ELSE ReadOn(f[i - 1], s, i, keep)]
    OBVIOUS
  <2> QED
    BY <2>1 DEF ReadTo
<1>2. ASSUME NEW k \in Nat, k \in S PROVE k + 1 \in S
  <2>1. PICK f : ReadTo(f, s, keep, k)
    BY <1>2
  <2>2. PICK j : j = k + 1
    OBVIOUS
  <2> DEFINE g == [i \in 0..j |-> IF i = j THEN ReadOn(f[k], s, j, keep) ELSE f[i]]
  <2>3. \A i \in 0..k : f[i] = IF i = 0 THEN NothingRead ELSE ReadOn(f[i - 1], s, i, keep)
    BY <2>1 DEF ReadTo
  <2>4. \A i \in 0..j : i # 0 => i - 1 \in 0..k /\ g[i - 1] = f[i - 1]
    BY <2>2
  <2>5. \A i \in 0..j :
            g[i] = IF i = 0 THEN NothingRead ELSE ReadOn(g[i - 1], s, i, keep)
    <3> TAKE i \in 0..j
    <3>1. CASE i = j
      <4>1. j # 0 /\ j - 1 = k /\ g[j] = ReadOn(f[k], s, j, keep)
        BY <2>2
      <4>2. g[j - 1] = f[k]
        BY <2>2, <2>4, <4>1
      <4> QED
        BY <3>1, <4>1, <4>2
    <3>2. CASE i # j
      <4>1. i \in 0..k /\ g[i] = f[i]
        BY <2>2, <3>2
      <4> QED
        BY <4>1, <2>3, <2>4
    <3> QED
      BY <3>1, <3>2
  <2>6. g = [i \in 0..j |-> g[i]]
    OBVIOUS
  <2> HIDE DEF g
  <2>7. ReadTo(g, s, keep, j)
    BY <2>5, <2>6, Zenon DEF ReadTo
  <2> QED
    BY <2>2, <2>7
<1> HIDE DEF S
<1>3. Nat \subseteq S
  BY <1>1, <1>2, Induction
<1> QED
  BY <1>3 DEF S

LEMMA NormalIsRead ==
    ASSUME NEW s, NEW keep, Len(s) \in Nat
    PROVE  \E f : ReadTo(f, s, keep, Len(s)) /\ Normal(s, keep) = f[Len(s)].out
<1> DEFINE W == CHOOSE f : ReadTo(f, s, keep, Len(s))
<1>1. ReadTo(W, s, keep, Len(s))
  BY ReadingExists
<1>2. Normal(s, keep) = W[Len(s)].out
  BY Zenon DEF Normal, ReadTo, NothingRead
<1> QED
  BY <1>1, <1>2

\* What is read of the first i characters of s: those that are kept, each once and in
\* order, with blanks among them.
Reads(out, s, keep, i) ==
    /\ \A m \in DOMAIN out : out[m][1] # Space =>
            /\ out[m][2] \in Kept(s, keep) /\ out[m][2] <= i
            /\ s[out[m][2]] = out[m][1]
    /\ \A p \in Kept(s, keep) : p <= i =>
            \E m \in DOMAIN out : out[m][1] # Space /\ out[m][2] = p
    /\ \A m, n \in DOMAIN out :
            (m < n /\ out[m][1] # Space /\ out[n][1] # Space) => out[m][2] < out[n][2]

StartsSolid(out) == out # <<>> => out[1][1] # Space
EndsSolid(out) == out # <<>> => out[Len(out)][1] # Space

ReadInv(acc, s, keep, i) ==
    /\ acc = [out |-> acc.out, pending |-> acc.pending, joining |-> acc.joining]
    /\ acc.pending \in BOOLEAN /\ acc.joining \in BOOLEAN
    /\ IsList(acc.out)
    /\ acc.pending => acc.out # <<>>
    /\ Reads(acc.out, s, keep, i)
    /\ StartsSolid(acc.out) /\ EndsSolid(acc.out)

LEMMA KeptAreNumbers ==
    ASSUME NEW s, IsList(s), NEW keep
    PROVE  \A p \in Kept(s, keep) : p \in 1..Len(s) /\ p \in Nat /\ s[p] # Space
<1>1. \A p \in Kept(s, keep) : p \in DOMAIN s /\ s[p] # Space
  BY DEF Kept, Blank
<1>2. \A p \in DOMAIN s : p \in 1..Len(s) /\ p \in Nat
  BY ListShape
<1> QED
  BY <1>1, <1>2, Zenon

After(j, i) == j = i + 1

\* A character that is not kept is passed over.
LEMMA PassOver ==
    ASSUME NEW s, IsList(s), NEW keep, NEW i \in Nat, NEW j, After(j, i), j \notin Kept(s, keep),
           NEW out, Reads(out, s, keep, i)
    PROVE  Reads(out, s, keep, j)
<1>1. \A p \in Kept(s, keep) : p \in Nat /\ (p <= j <=> p <= i)
  BY KeptAreNumbers DEF After
<1>2. \A m \in DOMAIN out : out[m][1] # Space =>
            /\ out[m][2] \in Kept(s, keep) /\ out[m][2] <= j
            /\ s[out[m][2]] = out[m][1]
  BY <1>1 DEF Reads
<1>3. \A p \in Kept(s, keep) : p <= j =>
            \E m \in DOMAIN out : out[m][1] # Space /\ out[m][2] = p
  BY <1>1 DEF Reads
<1> QED
  BY <1>2, <1>3 DEF Reads

\* A blank is nothing of the text.
LEMMA AddBlank ==
    ASSUME NEW s, NEW keep, NEW i, NEW out, IsList(out), out # <<>>, StartsSolid(out),
           Reads(out, s, keep, i),
           NEW p, NEW new, new = Append(out, <<Space, p>>)
    PROVE  IsList(new) /\ new # <<>> /\ Reads(new, s, keep, i) /\ StartsSolid(new)
<1>1. /\ IsList(new) /\ Len(new) = Len(out) + 1
      /\ DOMAIN new = DOMAIN out \cup {Len(out) + 1}
      /\ \A m \in DOMAIN out : new[m] = out[m]
      /\ new[Len(out) + 1] = <<Space, p>>
  BY ListAppend
<1>2. Len(out) \in Nat /\ DOMAIN out = 1..Len(out)
  BY ListShape
<1>3. Len(out) # 0
  BY DEF IsList
<1>4. new[1] = out[1] /\ new # <<>>
  BY <1>1, <1>2, <1>3
<1>5. \A m \in DOMAIN new : new[m][1] # Space => m \in DOMAIN out
  BY <1>1
<1>6. Reads(new, s, keep, i)
  BY <1>1, <1>5 DEF Reads
<1> QED
  BY <1>1, <1>4, <1>6 DEF StartsSolid

\* A character that is kept is the next.
LEMMA AddSolid ==
    ASSUME NEW s, IsList(s), NEW keep, NEW i \in Nat, NEW j, After(j, i), j \in Kept(s, keep),
           NEW out, IsList(out), StartsSolid(out), Reads(out, s, keep, i),
           NEW e, e = <<s[j], j>>, NEW new, new = Append(out, e)
    PROVE  /\ IsList(new) /\ new # <<>> /\ Reads(new, s, keep, j)
           /\ StartsSolid(new) /\ EndsSolid(new)
<1>. j \in Nat
  BY DEF After
<1>1. /\ IsList(new) /\ Len(new) = Len(out) + 1
      /\ DOMAIN new = DOMAIN out \cup {Len(out) + 1}
      /\ \A m \in DOMAIN out : new[m] = out[m]
      /\ new[Len(out) + 1] = <<s[j], j>>
  BY ListAppend
<1>2. Len(out) \in Nat /\ DOMAIN out = 1..Len(out)
  BY ListShape
<1>3. PICK last : last = Len(out) + 1
  OBVIOUS
<1>4. /\ s[j] # Space /\ new[last][1] = s[j] /\ new[last][2] = j
      /\ \A p \in Kept(s, keep) : p \in Nat /\ (p <= j => p <= i \/ p = j)
  BY <1>1, <1>3, KeptAreNumbers DEF After
<1>5. EndsSolid(new)
  <2>1. Len(new) = last
    BY <1>1, <1>3
  <2> QED
    BY <2>1, <1>4 DEF EndsSolid
<1>6. new # <<>> /\ StartsSolid(new)
  <2>1. CASE out = <<>>
    BY <1>1, <1>3, <1>4, <2>1 DEF StartsSolid
  <2>2. CASE out # <<>>
    <3>1. Len(out) # 0
      BY <2>2 DEF IsList
    <3> QED
      BY <1>1, <1>2, <2>2, <3>1 DEF StartsSolid
  <2> QED
    BY <2>1, <2>2
<1>7. \A m \in DOMAIN out : out[m][1] # Space =>
          out[m][2] \in Kept(s, keep) /\ out[m][2] < j /\ out[m][2] <= j
  <2>1. \A p \in Kept(s, keep) : p \in Nat /\ (p <= i => p < j /\ p <= j)
    BY <1>4 DEF After
  <2> QED
    BY <2>1 DEF Reads
<1>8. \A m \in DOMAIN new : new[m][1] # Space =>
            /\ new[m][2] \in Kept(s, keep) /\ new[m][2] <= j
            /\ s[new[m][2]] = new[m][1]
  <2> TAKE m \in DOMAIN new
  <2>1. CASE m \in DOMAIN out
    <3>1. out[m][1] # Space => s[out[m][2]] = out[m][1]
      BY <2>1 DEF Reads
    <3>3. new[m] = out[m]
      BY <1>1, <2>1
    <3>4. out[m][1] # Space => out[m][2] \in Kept(s, keep) /\ out[m][2] <= j
      BY <1>7, <2>1
    <3> QED
      BY <3>1, <3>3, <3>4
  <2>2. CASE m = last
    BY <1>4, <2>2
  <2> QED
    BY <1>1, <1>3, <2>1, <2>2
<1>9. ASSUME NEW p \in Kept(s, keep), p <= j
      PROVE  \E m \in DOMAIN new : new[m][1] # Space /\ new[m][2] = p
  <2>1. CASE p = j
    BY <1>1, <1>3, <1>4, <2>1
  <2>2. CASE p <= i
    <3>1. PICK m \in DOMAIN out : out[m][1] # Space /\ out[m][2] = p
      BY <2>2 DEF Reads
    <3> QED
      BY <1>1, <3>1
  <2> QED
    BY <1>4, <1>9, <2>1, <2>2
<1>10. ASSUME NEW m \in DOMAIN new, NEW n \in DOMAIN new,
              m < n, new[m][1] # Space, new[n][1] # Space
       PROVE  new[m][2] < new[n][2]
  <2>1. m \in DOMAIN out
    BY <1>1, <1>2, <1>10
  <2>2. CASE n = last
    BY <1>1, <1>4, <1>7, <1>10, <2>1, <2>2
  <2>3. CASE n \in DOMAIN out
    BY <1>1, <1>10, <2>1, <2>3 DEF Reads
  <2> QED
    BY <1>1, <1>3, <2>2, <2>3
<1> QED
  BY <1>1, <1>5, <1>6, <1>8, <1>9, <1>10 DEF Reads
LEMMA ReadOf ==
    ASSUME NEW s, NEW keep, NEW i, NEW out, NEW pending \in BOOLEAN, NEW joining \in BOOLEAN,
           IsList(out), pending => out # <<>>, Reads(out, s, keep, i),
           StartsSolid(out), EndsSolid(out),
           NEW acc, acc = [out |-> out, pending |-> pending, joining |-> joining]
    PROVE  ReadInv(acc, s, keep, i)
BY DEF ReadInv

LEMMA ReadStep ==
    ASSUME NEW s, IsList(s), NEW keep, NEW i \in Nat, NEW j, After(j, i),
           j \in DOMAIN s, NEW acc, ReadInv(acc, s, keep, i),
           NEW next, next = ReadOn(acc, s, j, keep)
    PROVE  ReadInv(next, s, keep, j)
<1>0. PICK out : out = acc.out
  OBVIOUS
<1>1. /\ EndsLine(s, j) => s[j] \notin Blank
      /\ j \in Kept(s, keep) <=> s[j] \notin Blank /\ (keep \/ ~EndsLine(s, j))
  BY DEF EndsLine, Kept, Blank, Space, Break, Hyphen
<1>2. /\ acc = [out |-> out, pending |-> acc.pending, joining |-> acc.joining]
      /\ acc.pending \in BOOLEAN /\ acc.joining \in BOOLEAN
      /\ IsList(out) /\ (acc.pending => out # <<>>)
      /\ Reads(out, s, keep, i) /\ StartsSolid(out) /\ EndsSolid(out)
  BY <1>0 DEF ReadInv
<1>3. CASE acc.joining /\ s[j] \in Blank
  <2>1. ~EndsLine(s, j)
    BY <1>1, <1>3
  <2>3. next = acc
    BY <1>3, <2>1 DEF ReadOn
  <2>2. Reads(out, s, keep, j)
    BY <1>1, <1>2, <1>3, PassOver
  <2> QED
    BY <1>2, <2>2, <2>3 DEF ReadInv
<1>4. CASE EndsLine(s, j)
  <2>1. ~(acc.joining /\ s[j] \in Blank) /\ ~(~acc.joining /\ s[j] \in Blank)
    BY <1>1, <1>4
  <2>2. next = [acc EXCEPT !.joining = TRUE,
                           !.out = IF keep THEN Append(out, <<Hyphen, j>>) ELSE out]
    BY <1>0, <1>4, <2>1 DEF ReadOn
  <2>3. CASE keep
    <3>4. PICK e : e = <<s[j], j>>
      OBVIOUS
    <3>1. PICK new : new = Append(out, e)
      OBVIOUS
    <3>0. j \in Kept(s, keep)
      BY <1>1, <1>4, <2>3
    <3>2. /\ IsList(new) /\ new # <<>> /\ Reads(new, s, keep, j)
          /\ StartsSolid(new) /\ EndsSolid(new)
      <4>1. IsList(out) /\ StartsSolid(out) /\ Reads(out, s, keep, i)
        BY <1>2
      <4> QED
        BY <3>0, <3>1, <3>4, <4>1, AddSolid
    <3>3. next = [out |-> new, pending |-> acc.pending, joining |-> TRUE]
      BY <1>2, <1>4, <2>2, <2>3, <3>1, <3>4 DEF EndsLine
    <3> QED
      BY <1>2, <3>2, <3>3, ReadOf
  <2>4. CASE ~keep
    <3>1. next = [out |-> out, pending |-> acc.pending, joining |-> TRUE]
      BY <1>2, <2>2, <2>4
    <3>2. Reads(out, s, keep, j)
      BY <1>1, <1>2, <1>4, <2>4, PassOver
    <3> QED
      BY <1>2, <3>1, <3>2, ReadOf
  <2> QED
    BY <2>3, <2>4
<1>5. CASE ~acc.joining /\ s[j] \in Blank
  <2>1. ~(acc.joining /\ s[j] \in Blank) /\ ~EndsLine(s, j)
    BY <1>1, <1>5
  <2>2. next = [acc EXCEPT !.pending = acc.out # <<>>]
    BY <1>5, <2>1 DEF ReadOn
  <2>3. next = [out |-> out, pending |-> out # <<>>, joining |-> acc.joining]
    BY <1>2, <2>2
  <2>4. Reads(out, s, keep, j)
    BY <1>1, <1>2, <1>5, PassOver
  <2> QED
    BY <1>2, <2>3, <2>4, ReadOf
<1>6. CASE s[j] \notin Blank /\ ~EndsLine(s, j)
  <2>1. PICK wide : wide = IF acc.pending THEN Append(out, <<Space, j>>) ELSE out
    OBVIOUS
  <2>0. PICK e : e = <<s[j], j>>
    OBVIOUS
  <2>2. PICK new : new = Append(wide, e)
    OBVIOUS
  <2>3. next = [out |-> new, pending |-> FALSE, joining |-> FALSE]
    BY <1>0, <1>6, <2>0, <2>1, <2>2 DEF ReadOn
  <2>4. IsList(wide) /\ Reads(wide, s, keep, i) /\ StartsSolid(wide)
    <3>1. CASE acc.pending
      BY <1>2, <2>1, <3>1, AddBlank
    <3>2. CASE ~acc.pending
      BY <1>2, <2>1, <3>2
    <3> QED
      BY <3>1, <3>2
  <2>5. j \in Kept(s, keep)
    BY <1>1, <1>6
  <2>6. /\ IsList(new) /\ new # <<>> /\ Reads(new, s, keep, j)
        /\ StartsSolid(new) /\ EndsSolid(new)
    <3>1. \A w, n : /\ IsList(w) /\ StartsSolid(w) /\ Reads(w, s, keep, i)
                    /\ n = Append(w, e)
                    => /\ IsList(n) /\ n # <<>> /\ Reads(n, s, keep, j)
                       /\ StartsSolid(n) /\ EndsSolid(n)
      BY <2>0, <2>5, AddSolid
    <3> QED
      BY <2>2, <2>4, <3>1
  <2> QED
    BY <2>3, <2>6, ReadOf
<1> QED
  BY <1>3, <1>4, <1>5, <1>6

\* A reading of the whole is a list of what is kept, with no blank at either end.
LEMMA NormalReads ==
    ASSUME NEW s, IsList(s), NEW keep
    PROVE  /\ IsList(Normal(s, keep)) /\ Reads(Normal(s, keep), s, keep, Len(s))
           /\ StartsSolid(Normal(s, keep)) /\ EndsSolid(Normal(s, keep))
<1>1. Len(s) \in Nat /\ DOMAIN s = 1..Len(s)
  BY ListShape
<1>2. PICK f : ReadTo(f, s, keep, Len(s)) /\ Normal(s, keep) = f[Len(s)].out
  BY <1>1, NormalIsRead
<1>3. \A i \in 0..Len(s) : f[i] = IF i = 0 THEN NothingRead ELSE ReadOn(f[i - 1], s, i, keep)
  BY <1>2 DEF ReadTo
<1> DEFINE S == {i \in Nat : i <= Len(s) => ReadInv(f[i], s, keep, i)}
<1>4. 0 \in S
  <2>1. f[0] = NothingRead
    BY <1>1, <1>3
  <2>2. IsList(<<>>)
    BY DEF IsList
  <2>3. \A p \in Kept(s, keep) : p \in Nat /\ ~(p <= 0)
    BY KeptAreNumbers
  <2>4. Reads(<<>>, s, keep, 0)
    BY <2>3 DEF Reads
  <2>5. ReadInv(NothingRead, s, keep, 0)
    BY <2>2, <2>4 DEF ReadInv, NothingRead, StartsSolid, EndsSolid
  <2> QED
    BY <2>1, <2>5
<1>5. ASSUME NEW i \in Nat, i \in S PROVE i + 1 \in S
  <2>1. PICK j : j = i + 1
    OBVIOUS
  <2>2. ASSUME j <= Len(s) PROVE ReadInv(f[j], s, keep, j)
    <3>0. After(j, i)
      BY <2>1 DEF After
    <3>1. /\ i <= Len(s) /\ j \in DOMAIN s /\ j \in 0..Len(s) /\ j # 0 /\ j - 1 = i
      BY <1>1, <2>1, <2>2
    <3>2. ReadInv(f[i], s, keep, i)
      BY <1>5, <3>1
    <3>3. PICK next : next = ReadOn(f[i], s, j, keep)
      OBVIOUS
    <3>4. f[j] = next
      BY <1>3, <3>1, <3>3
    <3>5. ReadInv(next, s, keep, j)
      BY <3>0, <3>1, <3>2, <3>3, ReadStep
    <3> QED
      BY <3>4, <3>5
  <2> QED
    BY <2>1, <2>2
<1> HIDE DEF S
<1>6. Nat \subseteq S
  BY <1>4, <1>5, Induction
<1>7. ReadInv(f[Len(s)], s, keep, Len(s))
  BY <1>1, <1>6 DEF S
<1> QED
  BY <1>2, <1>7 DEF ReadInv
\* The characters that are left of a text are those at the places that follow one
\* another as the members of M do.
Lists(f, M, K) ==
    /\ M \in SUBSET Nat /\ IsFiniteSet(M)
    /\ f \in [M -> K]
    /\ \A k \in K : \E m \in M : f[m] = k
    /\ \A m, n \in M : m < n => f[m] < f[n]

LEMMA KeptAreFew ==
    ASSUME NEW s, IsList(s), NEW keep
    PROVE  Kept(s, keep) \in SUBSET Nat /\ IsFiniteSet(Kept(s, keep))
<1>1. IsFiniteSet(1..Len(s))
  BY ListShape, FS_Interval
<1>2. Kept(s, keep) \in SUBSET (1..Len(s)) /\ Kept(s, keep) \in SUBSET Nat
  BY KeptAreNumbers
<1> QED
  BY <1>1, <1>2, FS_Subset

LEMMA NthHasRank ==
    ASSUME NEW S \in SUBSET Nat, IsFiniteSet(S), NEW n \in 1..Cardinality(S)
    PROVE  Nth(S, n) \in S /\ Rank(S, Nth(S, n)) = n
<1>1. \E r \in S : Rank(S, r) = n
  BY Ranking
<1>2. Nth(S, n) = CHOOSE i \in S : Rank(S, i) = n
  BY DEF Nth, Rank
<1> QED
  BY <1>1, <1>2

LEMMA NthInOrder ==
    ASSUME NEW M, NEW K \in SUBSET Nat, IsFiniteSet(K), NEW f, Lists(f, M, K)
    PROVE  /\ Cardinality(K) = Cardinality(M)
           /\ \A n \in 1..Cardinality(M) : Nth(M, n) \in M /\ f[Nth(M, n)] = Nth(K, n)
<1>1. /\ M \in SUBSET Nat /\ IsFiniteSet(M) /\ f \in [M -> K]
      /\ \A k \in K : \E m \in M : f[m] = k
      /\ \A m, n \in M : m < n => f[m] < f[n]
  BY DEF Lists
<1>2. Cardinality(K) = Cardinality(M) /\ \A m \in M : Rank(K, f[m]) = Rank(M, m)
  BY <1>1, SameOrder
<1>3. ASSUME NEW n \in 1..Cardinality(M)
      PROVE  Nth(M, n) \in M /\ f[Nth(M, n)] = Nth(K, n)
  <2>1. Nth(M, n) \in M /\ Rank(M, Nth(M, n)) = n
    BY <1>1, NthHasRank
  <2>2. Nth(K, n) \in K /\ Rank(K, Nth(K, n)) = n
    BY <1>2, NthHasRank
  <2>3. f[Nth(M, n)] \in K /\ Rank(K, f[Nth(M, n)]) = n
    BY <1>1, <1>2, <2>1
  <2>4. \A r, q \in K : Rank(K, r) = Rank(K, q) => r = q
    BY Ranking
  <2> QED
    BY <2>1, <2>2, <2>3, <2>4
<1> QED
  BY <1>2, <1>3

\* Two texts with the same characters at such places have the same left.
LEMMA SameSolid ==
    ASSUME NEW s, IsList(s), NEW ks, NEW t, IsList(t), NEW kt, NEW M,
           NEW f, Lists(f, M, Kept(s, ks)), NEW g, Lists(g, M, Kept(t, kt)),
           \A m \in M : s[f[m]] = t[g[m]]
    PROVE  Solid(s, ks) = Solid(t, kt)
<1>1. /\ Cardinality(Kept(s, ks)) = Cardinality(M)
      /\ \A n \in 1..Cardinality(M) : /\ Nth(M, n) \in M
                                      /\ f[Nth(M, n)] = Nth(Kept(s, ks), n)
  BY KeptAreFew, NthInOrder
<1>2. /\ Cardinality(Kept(t, kt)) = Cardinality(M)
      /\ \A n \in 1..Cardinality(M) : /\ Nth(M, n) \in M
                                      /\ g[Nth(M, n)] = Nth(Kept(t, kt), n)
  BY KeptAreFew, NthInOrder
<1>3. \A n \in 1..Cardinality(M) : s[Nth(Kept(s, ks), n)] = t[Nth(Kept(t, kt), n)]
  BY <1>1, <1>2
<1> QED
  BY <1>1, <1>2, <1>3 DEF Solid

Letters(out) == {m \in DOMAIN out : out[m][1] # Space}

\* A reading lists what is left of its text.
LEMMA ReadingLists ==
    ASSUME NEW s, IsList(s), NEW keep, NEW out, IsList(out), Reads(out, s, keep, Len(s)),
           NEW f, f = [m \in Letters(out) |-> out[m][2]]
    PROVE  /\ Lists(f, Letters(out), Kept(s, keep))
           /\ \A m \in Letters(out) : s[f[m]] = out[m][1]
<1>1. DOMAIN out = 1..Len(out) /\ Len(out) \in Nat
  BY ListShape
<1>2. IsFiniteSet(Letters(out)) /\ Letters(out) \in SUBSET Nat
  <2>1. IsFiniteSet(1..Len(out))
    BY <1>1, FS_Interval
  <2>2. Letters(out) \in SUBSET (1..Len(out)) /\ Letters(out) \in SUBSET Nat
    BY <1>1 DEF Letters
  <2> QED
    BY <2>1, <2>2, FS_Subset
<1>3. \A m \in Letters(out) : f[m] = out[m][2] /\ f[m] \in Kept(s, keep)
  BY DEF Letters, Reads
<1>4. f \in [Letters(out) -> Kept(s, keep)]
  BY <1>3
<1>5. \A k \in Kept(s, keep) : k <= Len(s)
  BY KeptAreNumbers, ListShape
<1>6. ASSUME NEW k \in Kept(s, keep) PROVE \E m \in Letters(out) : f[m] = k
  <2>1. PICK m \in DOMAIN out : out[m][1] # Space /\ out[m][2] = k
    BY <1>5 DEF Reads
  <2> QED
    BY <1>3, <2>1 DEF Letters
<1>7. \A m, n \in Letters(out) : m < n => f[m] < f[n]
  BY <1>3 DEF Letters, Reads
<1>8. \A m \in Letters(out) : s[f[m]] = out[m][1]
  BY <1>3 DEF Letters, Reads
<1> QED
  BY <1>2, <1>4, <1>6, <1>7, <1>8 DEF Lists
IsPassage(found, raw, keep, a, b) ==
    /\ IsList(found)
    /\ \A r \in Kept(raw, keep) : (a <= r /\ r <= b) =>
           r - a + 1 \in Kept(found, keep) /\ found[r - a + 1] = raw[r]
    /\ \A p \in Kept(found, keep) : \E r \in Kept(raw, keep) :
           a <= r /\ r <= b /\ p = r - a + 1

\* What is left of a passage is what is left of the text, from its first character to
\* its last, when the last is left of the text.
LEMMA PassageKeeps ==
    ASSUME NEW raw, IsList(raw), NEW keep, NEW a \in Nat, NEW b, b \in Kept(raw, keep),
           a >= 1, a <= b,
           NEW found, found = SubSeq(raw, a, b)
    PROVE  IsPassage(found, raw, keep, a, b)
<1>1. /\ Len(raw) \in Nat /\ DOMAIN raw = 1..Len(raw)
      /\ b \in Nat /\ b <= Len(raw)
  BY ListShape, KeptAreNumbers
<1>2. PICK S : raw \in Seq(S)
  BY DEF IsList
<1>3. \A i \in a..b : raw[i] \in S
  BY <1>1, <1>2
<1>4. /\ found \in Seq(S) /\ Len(found) = b - a + 1
      /\ \A p \in 1..(b - a + 1) : found[p] = raw[a + p - 1]
  <2>1. /\ SubSeq(raw, a, b) \in Seq(S)
        /\ Len(SubSeq(raw, a, b)) = IF a <= b THEN b - a + 1 ELSE 0
        /\ \A i \in 1..(b - a + 1) : SubSeq(raw, a, b)[i] = raw[a + i - 1]
    <3>1. a \in Int /\ b \in Int
      BY <1>1
    <3> QED
      BY <1>3, <3>1, SubSeqProperties
  <2> QED
    BY <2>1
<1>5. IsList(found) /\ DOMAIN found = 1..(b - a + 1)
  <2>1. IsList(found)
    BY <1>4 DEF IsList
  <2> QED
    BY <1>4, <2>1, ListShape
<1>6. ASSUME NEW r \in Nat, NEW p \in Nat, r >= a, r <= b, p = r - a + 1
      PROVE  /\ found[p] = raw[r]
             /\ r \in Kept(raw, keep) <=> p \in Kept(found, keep)
  <2>1. p \in DOMAIN found /\ r \in DOMAIN raw /\ p \in 1..(b - a + 1) /\ a + p - 1 = r
    BY <1>1, <1>5, <1>6
  <2>2. found[p] = raw[r]
    BY <1>4, <2>1
  <2>3. CASE r = b
    <3>1. p \in Kept(found, keep)
      <4>1. ~(p < Len(found))
        BY <1>1, <1>4, <1>6, <2>3
      <4>2. raw[r] \notin Blank
        BY <2>3 DEF Kept
      <4> QED
        BY <2>1, <2>2, <4>1, <4>2 DEF Kept
    <3> QED
      BY <2>2, <2>3, <3>1
  <2>4. CASE r # b
    <3>1. PICK r1 \in Nat, p1 \in Nat : r1 = r + 1 /\ p1 = p + 1
      OBVIOUS
    <3>2. /\ r < Len(raw) /\ p < Len(found)
          /\ p1 \in 1..(b - a + 1) /\ a + p1 - 1 = r1
      <4>1. Len(found) = b - a + 1 /\ Len(raw) \in Nat /\ b \in Nat /\ b <= Len(raw)
        BY <1>1, <1>4
      <4>2. r < b
        BY <1>6, <2>4, <4>1
      <4> QED
        BY <1>6, <3>1, <4>1, <4>2
    <3>3. found[p1] = raw[r1]
      BY <1>4, <3>2
    <3> QED
      BY <2>1, <2>2, <3>1, <3>2, <3>3 DEF Kept
  <2> QED
    BY <2>3, <2>4
<1>7. ASSUME NEW r \in Kept(raw, keep), a <= r, r <= b
      PROVE  r - a + 1 \in Kept(found, keep) /\ found[r - a + 1] = raw[r]
  <2>1. r \in Nat /\ r - a + 1 \in Nat
    BY <1>1, <1>7, KeptAreNumbers
  <2>2. PICK p \in Nat : p = r - a + 1
    BY <2>1
  <2> QED
    BY <1>6, <1>7, <2>1, <2>2
<1>8. ASSUME NEW p \in Kept(found, keep)
      PROVE  \E r \in Kept(raw, keep) : a <= r /\ r <= b /\ p = r - a + 1
  <2>1. p \in 1..(b - a + 1)
    BY <1>5 DEF Kept
  <2>2. PICK r \in Nat : r = a + p - 1
    BY <1>1, <2>1
  <2>3. p \in Nat /\ a <= r /\ r <= b /\ p = r - a + 1
    BY <1>1, <2>1, <2>2
  <2> QED
    BY <1>6, <2>3
<1> QED
  BY <1>5, <1>7, <1>8 DEF IsPassage

ReadFrom(reading, m, place) == place = reading[m][2]

\* The characters of q are those of t from one place to another.
Matches(t, q, at, last) ==
    /\ at \in Nat /\ at >= 1 /\ last \in Nat /\ last = at + Len(q) - 1 /\ last <= Len(t)
    /\ \A m \in 1..Len(q) : t[at + m - 1][1] = q[m][1]

\* Where the characters of a reading of the quote are those of a reading of the text,
\* what is left of the quote is what is left of the text from there.
LEMMA MatchIsQuote ==
    ASSUME NEW raw, IsList(raw), NEW kt, NEW t, IsList(t), Reads(t, raw, kt, Len(raw)),
           NEW quote, IsList(quote), NEW kq, NEW q, IsList(q), Reads(q, quote, kq, Len(quote)),
           q # <<>>, StartsSolid(q), EndsSolid(q),
           NEW at, NEW last, Matches(t, q, at, last),
           NEW a, ReadFrom(t, at, a), NEW b, ReadFrom(t, last, b)
    PROVE  /\ a \in 1..Len(raw) /\ b \in 1..Len(raw) /\ a <= b
           /\ Solid(SubSeq(raw, a, b), kt) = Solid(quote, kq)
<1> DEFINE M == Letters(q)
           found == SubSeq(raw, a, b)
           f == [m \in M |-> t[at + m - 1][2] - a + 1]
           g == [m \in M |-> q[m][2]]
<1>1. /\ Len(q) \in Nat /\ Len(q) # 0 /\ DOMAIN q = 1..Len(q)
      /\ Len(t) \in Nat /\ DOMAIN t = 1..Len(t) /\ Len(raw) \in Nat
  BY ListShape DEF IsList
<1>. /\ at \in Nat /\ at >= 1 /\ last \in Nat /\ last = at + Len(q) - 1 /\ last <= Len(t)
     /\ \A m \in 1..Len(q) : t[at + m - 1][1] = q[m][1]
  BY DEF Matches
<1>2. \A m \in 1..Len(q) : at + m - 1 \in DOMAIN t /\ at + m - 1 \in Nat
  BY <1>1
<1>3. \A m \in DOMAIN t : t[m][1] # Space =>
          /\ t[m][2] \in Kept(raw, kt) /\ t[m][2] \in Nat /\ t[m][2] \in 1..Len(raw)
          /\ raw[t[m][2]] = t[m][1]
  BY KeptAreNumbers DEF Reads
<1>4. /\ at \in DOMAIN t /\ t[at][1] # Space
      /\ last \in DOMAIN t /\ t[last][1] # Space
  <2>1. /\ 1 \in 1..Len(q) /\ at + 1 - 1 = at /\ Len(q) \in 1..Len(q)
    BY <1>1
  <2>2. t[at][1] = q[1][1] /\ t[last][1] = q[Len(q)][1]
    BY <1>1, <2>1
  <2> QED
    BY <1>1, <2>2 DEF StartsSolid, EndsSolid
<1>5. \A m, n \in DOMAIN t : (m < n /\ t[m][1] # Space /\ t[n][1] # Space) => t[m][2] < t[n][2]
  BY DEF Reads
<1>6. /\ a \in Kept(raw, kt) /\ a \in 1..Len(raw) /\ a \in Nat /\ a >= 1
      /\ b \in Kept(raw, kt) /\ b \in 1..Len(raw) /\ b \in Nat
  BY <1>3, <1>4 DEF ReadFrom
<1>0. a = t[at][2] /\ b = t[last][2]
  BY DEF ReadFrom
<1>7. \A m \in DOMAIN t : (t[m][1] # Space /\ at <= m /\ m <= last) => a <= t[m][2] /\ t[m][2] <= b
  <2> SUFFICES ASSUME NEW m \in DOMAIN t, t[m][1] # Space, at <= m, m <= last
               PROVE  a <= t[m][2] /\ t[m][2] <= b
    OBVIOUS
  <2>1. m \in Nat /\ t[m][2] \in Nat
    BY <1>1, <1>3
  <2>2. a <= t[m][2]
    <3>1. CASE m = at
      BY <1>0, <1>6, <3>1
    <3>2. CASE at < m
      BY <1>0, <1>4, <1>5, <1>6, <2>1, <3>2
    <3> QED
      BY <2>1, <3>1, <3>2
  <2>3. t[m][2] <= b
    <3>1. CASE m = last
      BY <1>0, <1>6, <3>1
    <3>2. CASE m < last
      BY <1>0, <1>4, <1>5, <1>6, <2>1, <3>2
    <3> QED
      BY <2>1, <3>1, <3>2
  <2> QED
    BY <2>2, <2>3
<1>8. a <= b
  <2>1. at <= last
    BY <1>1
  <2> QED
    BY <1>0, <1>4, <1>7, <2>1
<1>9. /\ IsList(found)
      /\ \A r \in Kept(raw, kt) : (a <= r /\ r <= b) =>
             r - a + 1 \in Kept(found, kt) /\ found[r - a + 1] = raw[r]
      /\ \A p \in Kept(found, kt) : \E r \in Kept(raw, kt) :
             a <= r /\ r <= b /\ p = r - a + 1
  <2> HIDE DEF found
  <2>1. found = SubSeq(raw, a, b)
    BY DEF found
  <2>2. IsPassage(found, raw, kt, a, b)
    BY <1>6, <1>8, <2>1, PassageKeeps
  <2> QED
    BY <2>2 DEF IsPassage
<1>10. Lists(g, M, Kept(quote, kq)) /\ \A m \in M : quote[g[m]] = q[m][1]
  BY ReadingLists
<1>11. \A m \in M : /\ m \in 1..Len(q) /\ m \in Nat /\ at + m - 1 \in DOMAIN t
                    /\ at <= at + m - 1 /\ at + m - 1 <= last
                    /\ t[at + m - 1][1] # Space /\ t[at + m - 1][1] = q[m][1]
  BY <1>1 DEF Letters
<1>12. \A m \in M : LET r == t[at + m - 1][2]
                    IN  /\ r \in Kept(raw, kt) /\ r \in Nat /\ a <= r /\ r <= b
                        /\ raw[r] = q[m][1]
                        /\ f[m] = r - a + 1
  <2> TAKE m \in M
  <2>1. PICK k : k = at + m - 1
    OBVIOUS
  <2>2. /\ k \in DOMAIN t /\ at <= k /\ k <= last /\ t[k][1] # Space /\ t[k][1] = q[m][1]
    BY <1>11, <2>1
  <2>3. /\ t[k][2] \in Kept(raw, kt) /\ t[k][2] \in Nat /\ a <= t[k][2] /\ t[k][2] <= b
        /\ raw[t[k][2]] = q[m][1]
    BY <1>3, <1>7, <2>2
  <2> QED
    BY <2>1, <2>3
<1>13. \A m \in M : f[m] \in Kept(found, kt) /\ found[f[m]] = q[m][1]
  BY <1>9, <1>12
<1>14. f \in [M -> Kept(found, kt)]
  BY <1>13
<1>15. ASSUME NEW p \in Kept(found, kt) PROVE \E m \in M : f[m] = p
  <2>1. PICK r \in Kept(raw, kt) : a <= r /\ r <= b /\ p = r - a + 1
    BY <1>9
  <2>2. r \in Nat /\ r <= Len(raw)
    BY <1>1, KeptAreNumbers
  <2>3. PICK k \in DOMAIN t : t[k][1] # Space /\ t[k][2] = r
    BY <2>2 DEF Reads
  <2>4. at <= k /\ k <= last /\ k \in Nat
    <3>1. k \in Nat
      BY <1>1
    <3>2. ~(k < at)
      <4>1. k < at => t[k][2] < t[at][2]
        BY <1>4, <1>5, <2>3
      <4>2. t[k][2] = r /\ r \in Nat /\ a \in Nat /\ t[at][2] = a /\ a <= r
        BY <1>0, <1>6, <2>1, <2>2, <2>3
      <4> QED
        BY <4>1, <4>2
    <3>3. last < k => t[last][2] < t[k][2]
      BY <1>4, <1>5, <2>3
    <3>4. ~(last < k)
      BY <1>0, <1>6, <2>1, <2>2, <2>3, <3>3
    <3> QED
      BY <3>1, <3>2, <3>4
  <2>5. PICK m : m = k - at + 1
    OBVIOUS
  <2>6. m \in 1..Len(q) /\ at + m - 1 = k
    BY <1>1, <2>4, <2>5
  <2>7. m \in M
    <3>1. t[k][1] = q[m][1]
      BY <2>6
    <3> QED
      BY <1>1, <2>3, <2>6, <3>1 DEF Letters
  <2>8. f[m] = r - a + 1
    BY <2>3, <2>6, <2>7
  <2> QED
    BY <2>1, <2>7, <2>8
<1>16. ASSUME NEW m \in M, NEW n \in M, m < n PROVE f[m] < f[n]
  <2>1. PICK k, l : k = at + m - 1 /\ l = at + n - 1
    OBVIOUS
  <2>2. k \in DOMAIN t /\ l \in DOMAIN t /\ t[k][1] # Space /\ t[l][1] # Space /\ k < l
    BY <1>11, <1>16, <2>1
  <2>3. t[k][2] < t[l][2]
    BY <1>5, <2>2
  <2>4. t[k][2] \in Nat /\ t[l][2] \in Nat /\ f[m] = t[k][2] - a + 1 /\ f[n] = t[l][2] - a + 1
    BY <1>12, <2>1
  <2>5. PICK x \in Nat, y \in Nat : x = t[k][2] /\ y = t[l][2]
    BY <2>4
  <2>6. f[m] = x - a + 1 /\ f[n] = y - a + 1 /\ x < y
    BY <2>3, <2>4, <2>5
  <2> HIDE DEF f
  <2> QED
    BY <1>6, <2>6
<1>17. Lists(f, M, Kept(found, kt))
  <2>1. M \in SUBSET Nat /\ IsFiniteSet(M)
    BY <1>10 DEF Lists
  <2> HIDE DEF f, M, found
  <2> QED
    BY <2>1, <1>14, <1>15, <1>16 DEF Lists
<1>18. \A m \in M : found[f[m]] = quote[g[m]]
  BY <1>10, <1>13
<1>19. Solid(found, kt) = Solid(quote, kq)
  <2> HIDE DEF f, g, M, found
  <2> QED
    BY <1>9, <1>10, <1>17, <1>18, SameSolid
<1> QED
  BY <1>6, <1>8, <1>19
LEMMA MinIsLeast ==
    ASSUME NEW T, T \subseteq Nat, T # {}
    PROVE  Min(T) \in T /\ \A m \in T : Min(T) <= m
<1>1. \E n \in T : \A m \in T : n <= m
  BY LeastNumber
<1> QED
  BY <1>1 DEF Min

LEMMA FindFinds ==
    ASSUME NEW s, IsList(s), NEW q, IsList(q), NEW at, at = Find(s, q), at # 0
    PROVE  /\ at \in Nat /\ at >= 1 /\ at <= Len(s) - Len(q) + 1
           /\ SubSeq(s, at, at + Len(q) - 1) = q
<1> DEFINE found == {i \in 1..(Len(s) - Len(q) + 1) : SubSeq(s, i, i + Len(q) - 1) = q}
<1>1. Len(s) \in Nat /\ Len(q) \in Nat
  BY ListShape
<1>2. found # {} /\ at = Min(found)
  BY DEF Find
<1>3. found \subseteq Nat
  OBVIOUS
<1>4. at \in found
  <2> HIDE DEF found
  <2> QED
    BY <1>2, <1>3, MinIsLeast
<1> QED
  BY <1>1, <1>4

LEMMA CharactersAre ==
    ASSUME NEW t, IsList(t)
    PROVE  /\ IsList(Characters(t)) /\ Len(Characters(t)) = Len(t)
           /\ \A m \in DOMAIN t : Characters(t)[m] = t[m][1]
<1>1. Len(t) \in Nat /\ DOMAIN t = 1..Len(t)
  BY ListShape
<1>2. PICK c : c = Characters(t)
  OBVIOUS
<1>3. c = [i \in 1..Len(t) |-> t[i][1]]
  BY <1>1, <1>2 DEF Characters
<1>4. DOMAIN c = 1..Len(t) /\ c = [i \in 1..Len(t) |-> c[i]] /\ \A i \in 1..Len(t) : c[i] = t[i][1]
  BY <1>3
<1>5. IsList(c)
  BY <1>1, <1>4, ListOfLength
<1>6. Len(c) \in Nat /\ 1..Len(c) = 1..Len(t)
  BY <1>4, <1>5, ListShape
<1>7. Len(c) = Len(t)
  <2>1. Len(c) # 0 => Len(c) \in 1..Len(t)
    BY <1>6
  <2>2. Len(t) # 0 => Len(t) \in 1..Len(c)
    BY <1>1, <1>6
  <2> QED
    BY <1>1, <1>6, <2>1, <2>2
<1> QED
  BY <1>1, <1>2, <1>4, <1>5, <1>7

Quoted(raw, quote, place) ==
    \E k, l \in BOOLEAN : Solid(SubSeq(raw, place[1], place[2]), k) = Solid(quote, l)

LEMMA ReadingQuotes ==
    ASSUME NEW raw, IsList(raw), NEW quote, IsList(quote),
           NEW kt, NEW kq,
           NEW place, place = ReadAt(raw, quote, kt, kq), place # Nowhere
    PROVE  /\ Solid(SubSeq(raw, place[1], place[2]), kt) = Solid(quote, kq)
           /\ place[1] \in 1..Len(raw)
           /\ kt \in BOOLEAN /\ kq \in BOOLEAN => Quoted(raw, quote, place)
<1>1. PICK t, q : t = Normal(raw, kt) /\ q = Normal(quote, kq)
  OBVIOUS
<1>2. /\ IsList(t) /\ Reads(t, raw, kt, Len(raw))
      /\ IsList(q) /\ Reads(q, quote, kq, Len(quote)) /\ StartsSolid(q) /\ EndsSolid(q)
  BY <1>1, NormalReads
<1>3. PICK at : at = IF q = <<>> THEN 0 ELSE Find(Characters(t), Characters(q))
  OBVIOUS
<1>4. place = IF at = 0 THEN Nowhere ELSE <<t[at][2], t[at + Len(q) - 1][2]>>
  BY <1>1, <1>3 DEF ReadAt
<1>5. at # 0 /\ q # <<>> /\ at = Find(Characters(t), Characters(q))
  BY <1>3, <1>4
<1>6. PICK last : last = at + Len(q) - 1
  OBVIOUS
<1>7. place[1] = t[at][2] /\ place[2] = t[last][2]
  BY <1>4, <1>5, <1>6
<1>8. /\ IsList(Characters(t)) /\ Len(Characters(t)) = Len(t) /\ Len(t) \in Nat
      /\ IsList(Characters(q)) /\ Len(Characters(q)) = Len(q) /\ Len(q) \in Nat
      /\ Len(q) # 0
  BY <1>2, <1>5, CharactersAre, ListShape DEF IsList
<1>9. /\ at \in Nat /\ at >= 1 /\ at <= Len(t) - Len(q) + 1
      /\ SubSeq(Characters(t), at, last) = Characters(q)
  <2>1. /\ at \in Nat /\ at >= 1 /\ at <= Len(Characters(t)) - Len(Characters(q)) + 1
        /\ SubSeq(Characters(t), at, at + Len(Characters(q)) - 1) = Characters(q)
    BY <1>5, <1>8, FindFinds
  <2> QED
    BY <1>6, <1>8, <2>1
<1>10. last \in Nat /\ last <= Len(t)
  BY <1>6, <1>8, <1>9
<1>11. ASSUME NEW m \in 1..Len(q) PROVE t[at + m - 1][1] = q[m][1]
  <2>1. PICK S : Characters(t) \in Seq(S)
    BY <1>8 DEF IsList
  <2>2. \A i \in at..last : Characters(t)[i] \in S
    BY <1>8, <1>9, <1>10, <2>1
  <2>3. m \in 1..(last - at + 1) /\ at \in Int /\ last \in Int
    BY <1>6, <1>8, <1>9
  <2>4. SubSeq(Characters(t), at, last)[m] = Characters(t)[at + m - 1]
    BY <2>2, <2>3, SubSeqProperties
  <2>5. at + m - 1 \in DOMAIN t /\ m \in DOMAIN q
    BY <1>2, <1>6, <1>8, <1>9, <1>10, ListShape
  <2> QED
    BY <1>2, <1>9, <2>4, <2>5, CharactersAre
<1>12. PICK a, b : ReadFrom(t, at, a) /\ ReadFrom(t, last, b) /\ a = place[1] /\ b = place[2]
  BY <1>7 DEF ReadFrom
<1>13. /\ a \in 1..Len(raw)
       /\ Solid(SubSeq(raw, a, b), kt) = Solid(quote, kq)
  <2>1. Matches(t, q, at, last)
    BY <1>6, <1>9, <1>10, <1>11 DEF Matches
  <2> QED
    BY <1>2, <1>5, <1>12, <2>1, MatchIsQuote
<1>14. /\ Solid(SubSeq(raw, place[1], place[2]), kt) = Solid(quote, kq)
       /\ place[1] \in 1..Len(raw)
  BY <1>12, <1>13
<1> QED
  BY <1>14, Zenon DEF Quoted

\* What is located is quoted.
LEMMA LocatedIsQuoted ==
    ASSUME NEW raw, IsList(raw), NEW quote, IsList(quote), ~Blanks(quote),
           NEW place, place = Locate(raw, quote), place # Nowhere
    PROVE  Quoted(raw, quote, place) /\ place[1] \in 1..Len(raw)
<1>1. PICK direct : direct = Find(raw, quote)
  OBVIOUS
<1>2. CASE direct # 0
  <2>1. /\ direct \in Nat /\ direct >= 1 /\ direct <= Len(raw) - Len(quote) + 1
        /\ SubSeq(raw, direct, direct + Len(quote) - 1) = quote
    BY <1>1, <1>2, FindFinds
  <2>2. place = <<direct, direct + Len(quote) - 1>>
    BY <1>1, <1>2 DEF Locate
  <2>5. DOMAIN quote # {}
    BY DEF Blanks
  <2>3. Len(quote) \in Nat /\ Len(quote) # 0 /\ Len(raw) \in Nat
    BY <2>5, ListShape
  <2>4. SubSeq(raw, place[1], place[2]) = quote
    BY <2>1, <2>2
  <2> QED
    <3>1. Solid(SubSeq(raw, place[1], place[2]), TRUE) = Solid(quote, TRUE)
      BY <2>4
    <3>2. Quoted(raw, quote, place)
      BY <3>1, Zenon DEF Quoted
    <3>3. place[1] \in 1..Len(raw)
      BY <2>1, <2>2, <2>3
    <3> QED
      BY <3>2, <3>3
<1>3. CASE direct = 0
  <2> DEFINE places == <<ReadAt(raw, quote, FALSE, FALSE), ReadAt(raw, quote, FALSE, TRUE),
                         ReadAt(raw, quote, TRUE, FALSE), ReadAt(raw, quote, TRUE, TRUE)>>
             hits == {n \in 1..4 : places[n] # Nowhere}
  <2>1. place = IF hits # {} THEN places[Min(hits)] ELSE Nowhere
    BY <1>1, <1>3 DEF Locate
  <2>2. hits # {} /\ place = places[Min(hits)]
    BY <2>1
  <2>3. Min(hits) \in hits
    <3>1. hits \subseteq Nat
      OBVIOUS
    <3> HIDE DEF hits
    <3> QED
      BY <2>2, <3>1, MinIsLeast
  <2>4. Min(hits) \in {1, 2, 3, 4}
    BY <2>3
  <2>5. PICK n \in {1, 2, 3, 4} : n = Min(hits)
    BY <2>4
  <2>6. \/ place = ReadAt(raw, quote, FALSE, FALSE)
        \/ place = ReadAt(raw, quote, FALSE, TRUE)
        \/ place = ReadAt(raw, quote, TRUE, FALSE)
        \/ place = ReadAt(raw, quote, TRUE, TRUE)
    <3>1. place = places[n] /\ (n = 1 \/ n = 2 \/ n = 3 \/ n = 4)
      BY <2>2, <2>5
    <3>2. /\ places[1] = ReadAt(raw, quote, FALSE, FALSE)
          /\ places[2] = ReadAt(raw, quote, FALSE, TRUE)
          /\ places[3] = ReadAt(raw, quote, TRUE, FALSE)
          /\ places[4] = ReadAt(raw, quote, TRUE, TRUE)
      OBVIOUS
    <3> QED
      BY <3>1, <3>2, Zenon
  <2> HIDE DEF places, hits
  <2> QED
    BY <2>6, ReadingQuotes
<1> QED
  BY <1>2, <1>3
SectionEnd(starts, i, n) ==
    IF {j \in starts : j > i} # {} THEN Min({j \in starts : j > i}) - 1 ELSE n

LEMMA SectionsAre ==
    ASSUME NEW text, IsList(text)
    PROVE  \E starts : /\ starts \subseteq Nat /\ 1 \in starts /\ \A i \in starts : i >= 1
                       /\ Sections(text) = {<<i, SectionEnd(starts, i, Len(text))>> : i \in starts}
<1> DEFINE line(i) == {j \in DOMAIN text : j >= i /\ \A k \in i..j : text[k] # Break}
           marks == {i \in DOMAIN text :
                       /\ i = 1 \/ text[i - 1] = Break
                       /\ \E h \in line(i) : /\ text[h] = Heading
                                             /\ \A j \in line(i) \ {h} : text[j] = Space}
           starts == marks \cup {1}
<1>1. Sections(text) = {<<i, SectionEnd(starts, i, Len(text))>> : i \in starts}
  BY Zenon DEF Sections, SectionEnd
<1>2. marks \subseteq DOMAIN text /\ DOMAIN text = 1..Len(text)
  BY ListShape
<1>3. starts \subseteq Nat /\ 1 \in starts /\ \A i \in starts : i >= 1
  <2> HIDE DEF marks
  <2> QED
    BY <1>2
<1> HIDE DEF starts
<1> QED
  BY <1>1, <1>3

\* The sections divide a text: each character is in one.
LEMMA OneSection ==
    ASSUME NEW text, IsList(text), NEW p \in 1..Len(text)
    PROVE  \E c \in Sections(text) :
               /\ c[1] \in Nat /\ c[2] \in Int /\ c[1] <= p /\ p <= c[2]
               /\ \A d \in Sections(text) :
                      /\ d[1] \in Nat /\ d[2] \in Int
                      /\ (d[1] <= p /\ p <= d[2] => d = c)
<1>0. Len(text) \in Nat
  BY ListShape
<1>1. PICK starts : /\ starts \subseteq Nat /\ 1 \in starts /\ \A i \in starts : i >= 1
                    /\ Sections(text) = {<<i, SectionEnd(starts, i, Len(text))>> : i \in starts}
  BY SectionsAre
<1> DEFINE end(i) == SectionEnd(starts, i, Len(text))
<1>2. ASSUME NEW i \in starts
      PROVE  /\ i \in Nat /\ i >= 1 /\ end(i) \in Int
             /\ \A j \in starts : j > i => end(i) < j
             /\ \/ end(i) = Len(text)
                \/ end(i) + 1 \in starts /\ end(i) + 1 > i
  <2> DEFINE later == {j \in starts : j > i}
  <2>1. i \in Nat /\ i >= 1 /\ later \subseteq Nat
    BY <1>1
  <2>2. CASE later = {}
    <3>1. end(i) = Len(text)
      BY <2>2 DEF SectionEnd
    <3> QED
      BY <1>0, <2>1, <2>2, <3>1
  <2>3. CASE later # {}
    <3>1. PICK m : m = Min(later)
      OBVIOUS
    <3>2. end(i) = m - 1
      BY <2>3, <3>1 DEF SectionEnd
    <3>3. m \in later /\ \A j \in later : m <= j
      <4> HIDE DEF later
      <4> QED
        BY <2>1, <2>3, <3>1, MinIsLeast
    <3>4. m \in Nat /\ m \in starts /\ m > i /\ end(i) \in Int /\ end(i) + 1 = m
      BY <1>1, <3>2, <3>3
    <3>5. \A j \in starts : j > i => j \in Nat /\ m <= j
      BY <1>1, <3>3
    <3>6. \A j \in starts : j > i => end(i) < j
      BY <3>2, <3>4, <3>5
    <3> HIDE DEF end, later
    <3> QED
      BY <2>1, <3>4, <3>6
  <2> QED
    BY <2>2, <2>3
<1>3. Sections(text) = {<<i, end(i)>> : i \in starts}
  BY <1>1
<1> HIDE DEF end
<1> DEFINE S == {n \in Nat : (n # 0 /\ n <= Len(text)) => \E i \in starts : i <= n /\ n <= end(i)}
<1>4. 0 \in S
  OBVIOUS
<1>5. ASSUME NEW n \in Nat, n \in S PROVE n + 1 \in S
  <2>1. PICK m \in Nat : m = n + 1
    OBVIOUS
  <2>2. ASSUME m <= Len(text) PROVE \E i \in starts : i <= m /\ m <= end(i)
    <3>1. CASE n = 0
      <4>1. 1 \in starts /\ m = 1
        BY <1>1, <2>1, <3>1
      <4>2. \/ end(1) = Len(text)
            \/ end(1) + 1 > 1 /\ end(1) \in Int
        BY <1>2, <4>1
      <4>3. 1 <= end(1)
        BY <1>0, <2>2, <4>1, <4>2
      <4> QED
        BY <4>1, <4>3
    <3>2. CASE n # 0
      <4>1. PICK i \in starts : i <= n /\ n <= end(i)
        BY <1>0, <1>5, <2>1, <2>2, <3>2
      <4>2. i \in Nat /\ end(i) \in Int
        BY <1>2
      <4>3. CASE m <= end(i)
        BY <2>1, <4>1, <4>2, <4>3
      <4>4. CASE end(i) = n
        <5>1. m \in starts
          BY <1>0, <1>2, <2>1, <2>2, <4>4
        <5>2. end(m) \in Int /\ (end(m) = Len(text) \/ end(m) + 1 > m)
          BY <1>2, <5>1
        <5>3. m <= end(m)
          BY <1>0, <2>2, <5>2
        <5> QED
          BY <5>1, <5>3
      <4> QED
        BY <2>1, <4>1, <4>2, <4>3, <4>4
    <3> QED
      BY <3>1, <3>2
  <2> QED
    BY <2>1, <2>2
<1> HIDE DEF S
<1>6. Nat \subseteq S
  BY <1>4, <1>5, Induction
<1>7. PICK i \in starts : i <= p /\ p <= end(i)
  BY <1>0, <1>6 DEF S
<1>8. ASSUME NEW j \in starts, j <= p, p <= end(j) PROVE j = i
  <2>1. /\ i \in Nat /\ j \in Nat /\ end(i) \in Int /\ end(j) \in Int
        /\ (j > i => end(i) < j) /\ (i > j => end(j) < i)
    BY <1>2
  <2> QED
    BY <1>0, <1>7, <1>8, <2>1
<1>9. PICK c : c = <<i, end(i)>>
  OBVIOUS
<1>10. /\ c \in Sections(text) /\ c[1] \in Nat /\ c[2] \in Int /\ c[1] <= p /\ p <= c[2]
  BY <1>2, <1>3, <1>7, <1>9
<1>11. ASSUME NEW d \in Sections(text)
       PROVE  /\ d[1] \in Nat /\ d[2] \in Int
              /\ (d[1] <= p /\ p <= d[2] => d = c)
  <2>1. PICK j \in starts : d = <<j, end(j)>>
    BY <1>3
  <2> QED
    BY <1>2, <1>8, <1>9, <2>1
<1> QED
  BY <1>10, <1>11
\* The section of a place is the only one that has it.
SectionHas(raw, place, c) ==
    /\ c \in Sections(raw)
    /\ \A d \in Sections(raw) : place[1] \in d[1]..d[2] <=> d = c

SourceRow(x) == x = [title |-> x.title, text |-> x.text, live |-> x.live] /\ IsList(x.text)

ExtractRow(x) ==
    x = [source |-> x.source, quote |-> x.quote, place |-> x.place, name |-> x.name,
         live |-> x.live, section |-> x.section]

\* What an extract says of its source is so.
CitedFrom(x, raw) == Quoted(raw, x.quote, x.place) /\ SectionHas(raw, x.place, x.section)

CitationInv ==
    /\ IsList(sources) /\ \A i \in DOMAIN sources : SourceRow(sources[i])
    /\ IsList(extracts)
    /\ \A e \in DOMAIN extracts :
           /\ ExtractRow(extracts[e])
           /\ extracts[e].source \in DOMAIN sources
           /\ CitedFrom(extracts[e], sources[extracts[e].source].text)

LEMMA CitationsVerify == CitationInv => QuotesVerified
<1> SUFFICES ASSUME CitationInv, NEW e \in DOMAIN extracts
             PROVE  LET x == extracts[e]
                        raw == sources[x.source].text
                        found == SubSeq(raw, x.place[1], x.place[2])
                    IN  /\ \E k, l \in BOOLEAN : Solid(found, k) = Solid(x.quote, l)
                        /\ {c \in Sections(raw) : e \in Coverage(x.source, c)} =
                               IF x.live THEN {x.section} ELSE {}
  BY DEF QuotesVerified
<1>1. PICK x : x = extracts[e]
  OBVIOUS
<1>2. PICK raw : raw = sources[x.source].text
  OBVIOUS
<1>3. CitedFrom(x, raw)
  BY <1>1, <1>2 DEF CitationInv
<1>4. \E k, l \in BOOLEAN : Solid(SubSeq(raw, x.place[1], x.place[2]), k) = Solid(x.quote, l)
  BY <1>3, Zenon DEF CitedFrom, Quoted
<1>5. \A c : e \in Coverage(x.source, c) <=> x.live /\ x.place[1] \in c[1]..c[2]
  BY <1>1 DEF Coverage
<1>6. /\ x.section \in Sections(raw)
      /\ \A d \in Sections(raw) : x.place[1] \in d[1]..d[2] <=> d = x.section
  BY <1>3 DEF CitedFrom, SectionHas
<1>7. {c \in Sections(raw) : e \in Coverage(x.source, c)} =
          IF x.live THEN {x.section} ELSE {}
  <2>1. \A c \in Sections(raw) : e \in Coverage(x.source, c) <=> x.live /\ c = x.section
    BY <1>5, <1>6
  <2> QED
    BY <1>6, <2>1
<1> QED
  BY <1>1, <1>2, <1>4, <1>7, Zenon

\* The sources' texts stay what they are, and so does what the extracts say.
LEMMA CitationsElsewhere ==
    ASSUME CitationInv, NEW texts, IsList(texts),
           \A i \in DOMAIN texts : SourceRow(texts[i]),
           \A i \in DOMAIN sources : i \in DOMAIN texts /\ texts[i].text = sources[i].text,
           UNCHANGED extracts, sources' = texts
    PROVE  CitationInv'
<1>1. ASSUME NEW e \in DOMAIN extracts'
      PROVE  /\ ExtractRow(extracts'[e])
             /\ extracts'[e].source \in DOMAIN sources'
             /\ CitedFrom(extracts'[e], sources'[extracts'[e].source].text)
  <2>1. PICK x : x = extracts[e] /\ x = extracts'[e] /\ e \in DOMAIN extracts
    OBVIOUS
  <2>2. ExtractRow(x) /\ x.source \in DOMAIN sources /\ CitedFrom(x, sources[x.source].text)
    BY <2>1 DEF CitationInv
  <2>3. x.source \in DOMAIN texts /\ texts[x.source].text = sources[x.source].text
    BY <2>2
  <2> QED
    BY <2>1, <2>2, <2>3
<1>2. IsList(sources') /\ \A i \in DOMAIN sources' : SourceRow(sources'[i])
  OBVIOUS
<1>3. IsList(extracts')
  BY DEF CitationInv
<1> QED
  BY <1>1, <1>2, <1>3 DEF CitationInv

LEMMA AddSourceCites ==
    ASSUME CitationInv, NEW title \in Titles, NEW text \in Texts, AddSource(title, text)
    PROVE  CitationInv'
<1>1. PICK row : row = [title |-> title, text |-> text, live |-> TRUE]
  OBVIOUS
<1>2. PICK texts : texts = Append(sources, row)
  OBVIOUS
<1>3. sources' = texts /\ UNCHANGED extracts
  BY <1>1, <1>2 DEF AddSource
<1>4. IsList(sources) /\ \A i \in DOMAIN sources : SourceRow(sources[i])
  BY DEF CitationInv
<1>5. /\ IsList(texts) /\ DOMAIN texts = DOMAIN sources \cup {Len(sources) + 1}
      /\ \A i \in DOMAIN sources : texts[i] = sources[i]
      /\ texts[Len(sources) + 1] = row
  BY <1>2, <1>4, ListAppend
<1>6. SourceRow(row)
  <2>1. IsList(text)
    BY TextsAreTexts DEF IsList
  <2> QED
    BY <1>1, <2>1 DEF SourceRow
<1>7. \A i \in DOMAIN texts : SourceRow(texts[i])
  BY <1>4, <1>5, <1>6
<1> QED
  BY <1>3, <1>5, <1>7, CitationsElsewhere

LEMMA RetireSourceCites ==
    ASSUME CitationInv, NEW s \in DOMAIN sources, RetireSource(s)
    PROVE  CitationInv'
<1>1. PICK row : row = [sources[s] EXCEPT !.live = FALSE]
  OBVIOUS
<1>2. PICK texts : texts = [sources EXCEPT ![s] = row]
  OBVIOUS
<1>3. IsList(sources) /\ \A i \in DOMAIN sources : SourceRow(sources[i])
  BY DEF CitationInv
<1>4. sources' = texts /\ UNCHANGED extracts
  BY <1>1, <1>2 DEF RetireSource
<1>5. /\ IsList(texts) /\ DOMAIN texts = DOMAIN sources
      /\ \A i \in DOMAIN sources : texts[i] = IF i = s THEN row ELSE sources[i]
  BY <1>2, <1>3, ListUpdate
<1>6. SourceRow(row) /\ row.text = sources[s].text
  <2>1. SourceRow(sources[s])
    BY <1>3
  <2> QED
    BY <1>1, <2>1 DEF SourceRow
<1>7. \A i \in DOMAIN texts : SourceRow(texts[i]) /\ texts[i].text = sources[i].text
  BY <1>3, <1>5, <1>6
<1> QED
  BY <1>4, <1>5, <1>7, CitationsElsewhere

LEMMA RetireExtractCites ==
    ASSUME CitationInv, NEW r \in DOMAIN extracts, RetireExtract(r)
    PROVE  CitationInv'
<1>1. PICK row : row = [extracts[r] EXCEPT !.live = FALSE]
  OBVIOUS
<1>2. PICK rows : rows = [extracts EXCEPT ![r] = row]
  OBVIOUS
<1>3. /\ IsList(sources) /\ (\A i \in DOMAIN sources : SourceRow(sources[i]))
      /\ IsList(extracts)
      /\ \A e \in DOMAIN extracts :
             /\ ExtractRow(extracts[e])
             /\ extracts[e].source \in DOMAIN sources
             /\ CitedFrom(extracts[e], sources[extracts[e].source].text)
  BY DEF CitationInv
<1>4. extracts' = rows /\ UNCHANGED sources
  BY <1>1, <1>2 DEF RetireExtract
<1>5. /\ IsList(rows) /\ DOMAIN rows = DOMAIN extracts
      /\ \A i \in DOMAIN extracts : rows[i] = IF i = r THEN row ELSE extracts[i]
  BY <1>2, <1>3, ListUpdate
<1>6. /\ ExtractRow(row) /\ row.source = extracts[r].source
      /\ row.quote = extracts[r].quote /\ row.place = extracts[r].place
      /\ row.section = extracts[r].section
  <2>1. PICK x : x = extracts[r]
    OBVIOUS
  <2>2. x = [source |-> x.source, quote |-> x.quote, place |-> x.place, name |-> x.name,
             live |-> x.live, section |-> x.section]
    BY <1>3, <2>1, Zenon DEF ExtractRow
  <2>3. row = [x EXCEPT !.live = FALSE]
    BY <1>1, <2>1
  <2>4. row = [source |-> x.source, quote |-> x.quote, place |-> x.place, name |-> x.name,
               live |-> FALSE, section |-> x.section]
    BY <2>2, <2>3
  <2>5. /\ row.source = x.source /\ row.quote = x.quote /\ row.place = x.place
        /\ row.name = x.name /\ row.live = FALSE /\ row.section = x.section
    BY <2>4
  <2>6. ExtractRow(row)
    BY <2>4, <2>5 DEF ExtractRow
  <2> QED
    BY <2>1, <2>5, <2>6
<1>7. row.source \in DOMAIN sources /\ CitedFrom(row, sources[row.source].text)
  BY <1>3, <1>6 DEF CitedFrom
<1>8. \A e \in DOMAIN rows :
          /\ ExtractRow(rows[e])
          /\ rows[e].source \in DOMAIN sources
          /\ CitedFrom(rows[e], sources[rows[e].source].text)
  BY <1>3, <1>5, <1>6, <1>7
<1> QED
  BY <1>3, <1>4, <1>5, <1>8 DEF CitationInv

LEMMA AddExtractCites ==
    ASSUME CitationInv, NEW s \in DOMAIN sources, NEW quote \in Quotes, AddExtract(s, quote)
    PROVE  CitationInv'
<1>1. PICK raw, place, name :
          raw = sources[s].text /\ place = Locate(raw, quote) /\ name = Worded(raw, place)
  OBVIOUS
<1>2. PICK section :
          section = CHOOSE x \in Sections(raw) : x[1] <= place[1] /\ place[1] <= x[2]
  OBVIOUS
<1>3. PICK row : row = [source |-> s, quote |-> quote, place |-> place, name |-> name,
                        live |-> TRUE, section |-> section]
  OBVIOUS
<1>4. PICK rows : rows = Append(extracts, row)
  OBVIOUS
<1>5. /\ ~Blanks(quote) /\ place # Nowhere
      /\ extracts' = rows /\ UNCHANGED sources
  BY <1>1, <1>2, <1>3, <1>4 DEF AddExtract
<1>6. /\ IsList(sources) /\ (\A i \in DOMAIN sources : SourceRow(sources[i]))
      /\ IsList(extracts)
      /\ \A e \in DOMAIN extracts :
             /\ ExtractRow(extracts[e])
             /\ extracts[e].source \in DOMAIN sources
             /\ CitedFrom(extracts[e], sources[extracts[e].source].text)
  BY DEF CitationInv
<1>7. IsList(raw) /\ IsList(quote)
  BY <1>1, <1>6, TextsAreTexts DEF SourceRow, IsList
<1>8. Quoted(raw, quote, place) /\ place[1] \in 1..Len(raw)
  BY <1>1, <1>5, <1>7, LocatedIsQuoted
<1>9. SectionHas(raw, place, section)
  <2>1. PICK p : p = place[1]
    OBVIOUS
  <2>2. PICK c \in Sections(raw) :
            /\ c[1] \in Nat /\ c[2] \in Int /\ c[1] <= p /\ p <= c[2]
            /\ \A d \in Sections(raw) : /\ d[1] \in Nat /\ d[2] \in Int
                                        /\ (d[1] <= p /\ p <= d[2] => d = c)
    <3>1. IsList(raw) /\ p \in 1..Len(raw)
      BY <1>7, <1>8, <2>1
    <3> QED
      BY ONLY <3>1, OneSection
  <2>3. section = c
    BY <1>2, <2>1, <2>2
  <2>4. p \in Int
    BY <1>8, <2>1
  <2>5. ASSUME NEW d \in Sections(raw) PROVE p \in d[1]..d[2] <=> d = c
    BY <2>2, <2>4
  <2> QED
    BY <2>1, <2>3, <2>5 DEF SectionHas
<1>10. /\ IsList(rows) /\ DOMAIN rows = DOMAIN extracts \cup {Len(extracts) + 1}
       /\ \A i \in DOMAIN extracts : rows[i] = extracts[i]
       /\ rows[Len(extracts) + 1] = row
  BY <1>4, <1>6, ListAppend
<1>11. /\ row.source = s /\ row.quote = quote /\ row.place = place /\ row.section = section
       /\ ExtractRow(row)
  BY <1>3 DEF ExtractRow
<1>12. row.source \in DOMAIN sources /\ CitedFrom(row, sources[row.source].text)
  BY <1>1, <1>8, <1>9, <1>11 DEF CitedFrom
<1>13. \A e \in DOMAIN rows :
           /\ ExtractRow(rows[e])
           /\ rows[e].source \in DOMAIN sources
           /\ CitedFrom(rows[e], sources[rows[e].source].text)
  BY <1>6, <1>10, <1>11, <1>12
<1> QED
  BY <1>5, <1>6, <1>10, <1>13 DEF CitationInv

---------------------------------------------------------------------------
(* What the ledgers leave alone.                                           *)

\* No key is taken back, and none of those taken is a spike's or a brief's.
OtherKeys ==
    /\ receipts \subseteq receipts'
    /\ \A k \in receipts' : k \in receipts \/ (k[1] # "spike" /\ k[1] # "compose")

\* A write under any other key ...
LEMMA WritesOtherKeys ==
    ASSUME NEW k, k[1] # "spike", k[1] # "compose", Write(k) PROVE OtherKeys
BY DEF Write, OtherKeys

\* ... and a step that writes none.
LEMMA SilentKeys == ASSUME UNCHANGED receipts PROVE OtherKeys
BY DEF OtherKeys

\* The glossary's keys are its own.
LEMMA NameKeys == Name => OtherKeys /\ UNCHANGED <<validationVars, handoverVars>>
<1>1. ASSUME NEW w \in Lexicon, NEW d \in Meanings, DefineTerm(w, d) PROVE OtherKeys
  BY <1>1, WritesOtherKeys DEF DefineTerm
<1>2. ASSUME NEW i, NEW d \in Meanings, NEW assent \in BOOLEAN, Succeed(i, d, assent)
      PROVE  OtherKeys
  BY <1>2, WritesOtherKeys DEF Succeed
<1>3. ASSUME NEW w \in Lexicon, ApproveTerm(w) PROVE OtherKeys
  BY <1>3, WritesOtherKeys DEF ApproveTerm
<1>4. ASSUME NEW w \in Lexicon, NEW instead \in Lexicon, RetireTerm(w, instead) PROVE OtherKeys
  BY <1>4, WritesOtherKeys DEF RetireTerm
<1> QED
  BY <1>1, <1>2, <1>3, <1>4 DEF Name, RedefineTerm, ApproveRewritten, Silent

\* Of the handover, an action places a row or composes a brief, or it leaves placements,
\* briefs and their keys alone.
Handing ==
    \/ /\ OtherKeys /\ UNCHANGED briefs
       /\ \/ UNCHANGED placements
          \/ \E level \in DOMAIN Breadth : \E r, scope, why : Attach(r, level, scope, why)
    \/ \E s, omitted : ComposeBrief(s, omitted)

LEMMA HandOverKeys ==
    HandOver => Handing /\ UNCHANGED <<validationVars, glossaryVars, citationVars>>
<1>1. ASSUME NEW p, DeclarePackage(p) PROVE Handing
  BY <1>1, WritesOtherKeys DEF DeclarePackage, Handing
<1>2. ASSUME NEW c, NEW p, AssignTask(c, p) PROVE Handing
  BY <1>2, WritesOtherKeys DEF AssignTask, Handing
<1>3. ASSUME Finalize PROVE Handing
  BY <1>3, SilentKeys DEF Finalize, Handing
<1>4. ASSUME NEW r, NEW level \in DOMAIN Breadth, NEW scope, NEW why,
             Attach(r, level, scope, why)
      PROVE  Handing
  <2>1. OtherKeys
    BY <1>4, WritesOtherKeys DEF Attach
  <2>2. UNCHANGED briefs
    BY <1>4 DEF Attach
  <2> QED
    BY <1>4, <2>1, <2>2 DEF Handing
<1>5. ASSUME NEW s, NEW r, Reach(s, r) PROVE Handing
  BY <1>5, SilentKeys DEF Reach, Handing
<1>6. ASSUME NEW s, Serve(s) PROVE Handing
  BY <1>6, WritesOtherKeys DEF Serve, Handing
<1>7. ASSUME NEW s, Split(s) PROVE Handing
  BY <1>7, SilentKeys DEF Split, Handing
<1>8. ASSUME NEW s, NEW omitted, ComposeBrief(s, omitted) PROVE Handing
  BY <1>8 DEF Handing
<1>9. ASSUME NEW c, NEW x, JournalNote(1, c, x) PROVE Handing
  BY <1>9, WritesOtherKeys DEF JournalNote, Handing
<1>10. ASSUME NEW x, SetNextAction(x) PROVE Handing
  BY <1>10, WritesOtherKeys DEF SetNextAction, Handing
<1>11. {"plan", "package", "task", "subtask"} \subseteq DOMAIN Breadth
  BY DEF Breadth
<1>12. HandOver => Handing
  BY <1>1, <1>2, <1>3, <1>4, <1>5, <1>6, <1>7, <1>8, <1>9, <1>10, <1>11 DEF HandOver
<1>13. HandOver => Quiet
  BY DEF HandOver
<1> QED
  BY <1>12, <1>13 DEF Quiet

\* Composing writes a key of the briefs.
LEMMA ComposeKeys ==
    ASSUME NEW s, NEW omitted, ComposeBrief(s, omitted)
    PROVE  /\ receipts \subseteq receipts' /\ UNCHANGED placements
           /\ \A k \in receipts' : k \in receipts \/ k[1] # "spike"
BY DEF ComposeBrief, Write, ComposeKey

\* So that no key is taken back in the handover.
LEMMA HandOverKeepsKeys == Handing => receipts \subseteq receipts'
BY ComposeKeys DEF Handing, OtherKeys

\* Citing leaves the keys alone.
LEMMA CiteKeys == Cite => UNCHANGED <<validationVars, glossaryVars, handoverVars, receipts>>
BY DEF Cite, Hushed, AddSource, AddExtract, RetireSource, RetireExtract

\* Of validation, an action registers a spike or moves one, or it leaves the spikes and
\* their keys alone.
Aside == OtherKeys /\ UNCHANGED spikes

Experiments ==
    \/ Aside
    \/ \E a : RegisterSpike(a)
    \/ \E i \in DOMAIN spikes : \E event, outcome : TransitionSpike(i, event, outcome)

LEMMA ValidateKeys == Validate => Experiments /\ UNCHANGED <<terms, placements, briefs>>
<1>1. ASSUME NEW a, WithdrawAssumption(a) PROVE Aside
  BY <1>1, SilentKeys DEF WithdrawAssumption, Aside
<1>2. ASSUME NEW a, NEW v, OwnerResolves(a, v) PROVE Aside
  BY <1>2, SilentKeys DEF OwnerResolves, Aside
<1>3. ASSUME ResolveAssumption PROVE Aside
  BY <1>3, WritesOtherKeys DEF ResolveAssumption, Aside
<1>4. ASSUME ResolutionRefused \/ Return \/ Die PROVE Aside
  BY <1>4, SilentKeys DEF ResolutionRefused, Return, Die, Aside
<1>5. ASSUME ContestNext PROVE Aside
  BY <1>5, WritesOtherKeys DEF ContestNext, Aside
<1>6. ASSUME NEW refs, NEW k, NEW red, FileClaim(refs, k, red) PROVE Aside
  BY <1>6, WritesOtherKeys DEF FileClaim, Aside
<1>7. ASSUME NEW j, FenceClaim(j) PROVE Aside
  BY <1>7, WritesOtherKeys DEF FenceClaim, Aside
<1>8. ASSUME NEW j, NEW t, SatisfyTrack(j, t) PROVE Aside
  BY <1>8, WritesOtherKeys DEF SatisfyTrack, Aside
<1>9. ASSUME NEW j, NEW o, RecordClaimOutcome(j, o) PROVE Aside
  BY <1>9, WritesOtherKeys DEF RecordClaimOutcome, Aside
<1>10. Validate => Experiments
  BY <1>1, <1>2, <1>3, <1>4, <1>5, <1>6, <1>7, <1>8, <1>9
     DEF Validate, Experiments, StartSpike, UnblockSpike, RecordSpikeResult
<1>11. Validate => Still
  BY DEF Validate
<1> QED
  BY <1>10, <1>11 DEF Still, glossaryVars, handoverVars

\* It takes no key back, and none that is a brief's.
LEMMA ExperimentsKeepKeys ==
    Experiments => /\ receipts \subseteq receipts'
                   /\ \A k \in receipts' : k \in receipts \/ k[1] # "compose"
<1> DEFINE Keeps == /\ receipts \subseteq receipts'
                   /\ \A k \in receipts' : k \in receipts \/ k[1] # "compose"
<1>1. ASSUME NEW k, k[1] # "compose", Write(k) PROVE Keeps
  BY <1>1 DEF Write
<1> HIDE DEF Keeps
<1>2. ASSUME NEW a, RegisterSpike(a) PROVE Keeps
  BY <1>2, <1>1 DEF RegisterSpike
<1>3. ASSUME NEW i, NEW event, NEW outcome, TransitionSpike(i, event, outcome)
      PROVE  Keeps
  BY <1>3, <1>1 DEF TransitionSpike
<1>4. Aside => Keeps
  BY DEF Aside, OtherKeys, Keeps
<1>5. Experiments => Keeps
  BY <1>2, <1>3, <1>4 DEF Experiments
<1> QED
  BY <1>5 DEF Keeps

---------------------------------------------------------------------------
(* The theorems.                                                           *)

\* The owner's assent is to the wording: in every reachable state a meaning counts as
\* approved only if he approved that very entry, or wrote it himself on approving the one
\* before it.
THEOREM AssentGiven == Spec => []AssentIsGiven
<1>1. Init => GlossaryInv
  BY DEF Init, GlossaryInit, GlossaryInv, LastIsLive, AssentIsGiven
<1>2. ASSUME GlossaryInv, [Next]_vars PROVE GlossaryInv'
  <2>1. CASE Name
    BY <1>2, <2>1, NameKeepsAssent
  <2>2. CASE Validate
    BY <1>2, <2>2, ValidateKeys, ExperimentsKeepKeys, GlossaryElsewhere
  <2>3. CASE HandOver
    <3>1. UNCHANGED terms /\ receipts \subseteq receipts'
      BY <2>3, HandOverKeys, HandOverKeepsKeys DEF glossaryVars
    <3> QED
      BY <1>2, <3>1, GlossaryElsewhere
  <2>4. CASE Cite \/ UNCHANGED vars
    BY <1>2, <2>4, CiteKeys, GlossaryElsewhere DEF vars, glossaryVars
  <2> QED
    BY <1>2, <2>1, <2>2, <2>3, <2>4 DEF Next
<1>3. GlossaryInv => AssentIsGiven
  BY DEF GlossaryInv
<1> QED
  BY <1>1, <1>2, <1>3, PTL DEF Spec

\* An experiment can always be brought to its end: whatever has happened to a spike, and
\* however often it was blocked, some event that leads on to concluded is still free.
THEOREM SpikesCanConclude == Spec => []SpikesConclude
<1>1. Init => SpikeInv
  BY SpikesBegin
<1>2. ASSUME SpikeInv, [Next]_vars PROVE SpikeInv'
  <2>1. ASSUME Aside PROVE SpikeInv'
    BY <1>2, <2>1, SpikesElsewhere DEF Aside, OtherKeys
  <2>2. CASE Validate
    <3>1. CASE \E a : RegisterSpike(a)
      BY <1>2, <3>1, RegisteringKeepsSpikes
    <3>2. CASE \E i \in DOMAIN spikes : \E event, outcome : TransitionSpike(i, event, outcome)
      BY <1>2, <3>2, TransitionKeepsSpikes
    <3> QED
      BY <2>1, <2>2, <3>1, <3>2, ValidateKeys DEF Experiments
  <2>3. CASE Name
    BY <2>1, <2>3, NameKeys DEF Aside, validationVars
  <2>4. CASE HandOver
    <3>1. UNCHANGED spikes
      BY <2>4, HandOverKeys DEF validationVars
    <3>2. \A k \in receipts' : k \in receipts \/ k[1] # "spike"
      BY <2>4, HandOverKeys, ComposeKeys DEF Handing, OtherKeys
    <3> QED
      BY <1>2, <3>1, <3>2, SpikesElsewhere
  <2>5. CASE Cite \/ UNCHANGED vars
    <3>1. UNCHANGED <<spikes, receipts>>
      BY <2>5, CiteKeys DEF vars, validationVars
    <3> QED
      BY <2>1, <3>1, SilentKeys DEF Aside
  <2> QED
    BY <1>2, <2>2, <2>3, <2>4, <2>5 DEF Next
<1>3. SpikeInv => SpikesConclude
  BY PastSpikesConclude
<1> QED
  BY <1>1, <1>2, <1>3, PTL DEF Spec

\* No reach without a reason on record: whatever places a row is given and in whatever
\* order, from one to the next its reach does not grow, or the new one names the old.
THEOREM ReachIsExplained == Spec => []BroadeningsLogged
<1>1. Init => PlacementInv
  <2> SUFFICES ASSUME Init PROVE PlacementInv
    OBVIOUS
  <2>1. placements = <<>>
    BY DEF Init, HandoverInit
  <2>2. IsList(placements) /\ DOMAIN placements = {}
    BY <2>1 DEF IsList
  <2> QED
    BY <2>2 DEF PlacementInv, BroadeningsLogged
<1>2. ASSUME PlacementInv, [Next]_vars PROVE PlacementInv'
  <2>1. ASSUME UNCHANGED placements PROVE PlacementInv'
    BY <1>2, <2>1 DEF PlacementInv, BroadeningsLogged
  <2>2. CASE HandOver
    <3>1. \/ UNCHANGED placements
          \/ \E level \in DOMAIN Breadth : \E r, scope, why : Attach(r, level, scope, why)
      BY <2>2, HandOverKeys, ComposeKeys DEF Handing
    <3> QED
      BY <1>2, <2>1, <3>1, AttachKeepsPlacements
  <2>3. CASE Validate
    BY <2>1, <2>3, ValidateKeys
  <2>4. CASE Name
    BY <2>1, <2>4, NameKeys DEF handoverVars
  <2>5. CASE Cite \/ UNCHANGED vars
    BY <2>1, <2>5, CiteKeys DEF vars, handoverVars
  <2> QED
    BY <1>2, <2>2, <2>3, <2>4, <2>5 DEF Next
<1>3. PlacementInv => BroadeningsLogged
  BY DEF PlacementInv
<1> QED
  BY <1>1, <1>2, <1>3, PTL DEF Spec

\* The briefs of a sub-task are one chain that ends in the live one, and recomposing always
\* has a key of its own, however often it is done in one serving.
THEOREM BriefsAreChained == Spec => []BriefsChain
<1>1. Init => BriefInv
  <2> SUFFICES ASSUME Init PROVE BriefInv
    OBVIOUS
  <2>1. briefs = <<>> /\ receipts = {}
    BY DEF Init, HandoverInit
  <2>2. IsList(briefs) /\ DOMAIN briefs = {}
    BY <2>1 DEF IsList
  <2> QED
    BY <2>1, <2>2 DEF BriefInv, ComposedLater
<1>2. ASSUME BriefInv, [Next]_vars PROVE BriefInv'
  <2>1. CASE HandOver
    <3>1. CASE \E s, omitted : ComposeBrief(s, omitted)
      BY <1>2, <3>1, ComposeKeepsBriefs
    <3>2. CASE OtherKeys /\ UNCHANGED briefs
      BY <1>2, <3>2, BriefsElsewhere DEF OtherKeys
    <3> QED
      BY <2>1, <3>1, <3>2, HandOverKeys DEF Handing
  <2>2. CASE Validate
    BY <1>2, <2>2, ValidateKeys, ExperimentsKeepKeys, BriefsElsewhere
  <2>3. CASE Name
    <3>1. OtherKeys /\ UNCHANGED briefs
      BY <2>3, NameKeys DEF handoverVars
    <3> QED
      BY <1>2, <3>1, BriefsElsewhere DEF OtherKeys
  <2>4. CASE Cite \/ UNCHANGED vars
    <3>1. UNCHANGED <<briefs, receipts>>
      BY <2>4, CiteKeys DEF vars, handoverVars
    <3> QED
      BY <1>2, <3>1, BriefsElsewhere
  <2> QED
    BY <1>2, <2>1, <2>2, <2>3, <2>4 DEF Next
<1>3. BriefInv => BriefsChain
  BY BriefsAreAChain
<1> QED
  BY <1>1, <1>2, <1>3, PTL DEF Spec

\* What is on file as quoted is in the text of its source, in order and whole, whichever
\* reading found it: for any texts and quotes, no quotation is made up, and an extract is
\* counted for one section of its source.
THEOREM QuotesAreThere == Spec => []QuotesVerified
<1>1. Init => CitationInv
  <2> SUFFICES ASSUME Init PROVE CitationInv
    OBVIOUS
  <2>1. sources = <<>> /\ extracts = <<>>
    BY DEF Init, CitationsInit
  <2>2. /\ IsList(sources) /\ DOMAIN sources = {}
        /\ IsList(extracts) /\ DOMAIN extracts = {}
    BY <2>1 DEF IsList
  <2> QED
    BY <2>2 DEF CitationInv
<1>2. ASSUME CitationInv, [Next]_vars PROVE CitationInv'
  <2>1. ASSUME UNCHANGED <<sources, extracts>> PROVE CitationInv'
    BY <1>2, <2>1 DEF CitationInv, CitedFrom
  <2>2. CASE Cite
    BY <1>2, <2>2, AddSourceCites, AddExtractCites, RetireSourceCites, RetireExtractCites DEF Cite
  <2>3. CASE Validate
    <3>1. Still
      BY <2>3 DEF Validate
    <3> QED
      BY <2>1, <3>1 DEF Still, citationVars
  <2>4. CASE Name
    <3>1. Silent
      BY <2>4 DEF Name
    <3> QED
      BY <2>1, <3>1 DEF Silent, citationVars
  <2>5. CASE HandOver
    <3>1. UNCHANGED citationVars
      BY <2>5, HandOverKeys
    <3> QED
      BY <2>1, <3>1 DEF citationVars
  <2>6. CASE UNCHANGED vars
    BY <2>1, <2>6 DEF vars, citationVars
  <2> QED
    BY <1>2, <2>2, <2>3, <2>4, <2>5, <2>6 DEF Next
<1>3. CitationInv => QuotesVerified
  BY CitationsVerify
<1> QED
  BY <1>1, <1>2, <1>3, PTL DEF Spec

\* A refutation is not quiet about anything that rests on what it refutes: when its call
\* returns, the rows contested are exactly those, for a plan of any size and shape.
THEOREM RefutationsContestAll == Spec => []RefutationContests
<1>1. Init => ContestInv
  BY ContestsBegin
<1>2. ASSUME ContestInv, [Next]_vars PROVE ContestInv'
  <2>1. CASE Validate
    BY <1>2, <2>1, TryingKeepsContests
  <2>2. CASE Name
    BY <1>2, <2>2, NameKeys, ContestsElsewhere DEF OtherKeys
  <2>3. CASE HandOver
    BY <1>2, <2>3, HandOverKeys, HandOverKeepsKeys, ContestsElsewhere
  <2>4. CASE Cite \/ UNCHANGED vars
    <3>1. UNCHANGED <<validationVars, receipts>>
      BY <2>4, CiteKeys DEF vars
    <3> QED
      BY <1>2, <3>1, ContestsElsewhere
  <2> QED
    BY <1>2, <2>1, <2>2, <2>3, <2>4 DEF Next
<1>3. ContestInv => RefutationContests
  BY ContestedIsAll
<1> QED
  BY <1>1, <1>2, <1>3, PTL DEF Spec

\* A verdict stands: no step turns one over, or brings a withdrawn assumption back, be it a
\* second spike's, one that comes in late or the owner's own.
THEOREM VerdictsAreFinal == Spec => VerdictsStand
<1> DEFINE Stands == \A r \in PlanRows : standing[r] # "open" => standing'[r] = standing[r]
<1>1. [Next]_vars => [Stands]_validationVars
  <2> SUFFICES ASSUME [Next]_vars PROVE Stands
    OBVIOUS
  <2>1. ASSUME NEW a, NEW v, standing[a] = "open", standing' = [standing EXCEPT ![a] = v]
        PROVE  Stands
    BY <2>1 DEF PlanRows
  <2>2. ASSUME UNCHANGED standing PROVE Stands
    BY <2>2
  <2> HIDE DEF Stands
  <2>3. CASE Validate
    <3>1. ASSUME NEW a, WithdrawAssumption(a) PROVE Stands
      BY <3>1, <2>1 DEF WithdrawAssumption
    <3>2. ASSUME NEW a, NEW v, OwnerResolves(a, v) PROVE Stands
      BY <3>2, <2>1 DEF OwnerResolves
    <3>3. ASSUME ResolveAssumption PROVE Stands
      BY <3>3, <2>1 DEF ResolveAssumption, Settle
    <3>4. Validate => \/ UNCHANGED standing \/ ResolveAssumption
                      \/ \E a : WithdrawAssumption(a) \/ \E v : OwnerResolves(a, v)
      BY DEF Validate, RegisterSpike, StartSpike, UnblockSpike, RecordSpikeResult,
             ResolutionRefused, ContestNext, Return, Die, FileClaim, FenceClaim, SatisfyTrack,
             RecordClaimOutcome
    <3> QED
      BY <2>2, <2>3, <3>1, <3>2, <3>3, <3>4
  <2>4. CASE Name \/ HandOver \/ Cite \/ UNCHANGED vars
    BY <2>2, <2>4, NameKeys, HandOverKeys, CiteKeys DEF validationVars, vars
  <2> QED
    BY <2>3, <2>4 DEF Next
<1> QED
  BY <1>1, PTL DEF Spec, VerdictsStand
===============================================================================
