-------------------------------- MODULE Glossary --------------------------------
(***************************************************************************)
(* What the words of the plan mean (engine/terms.py): every meaning a word *)
(* has had is an entry, and the one not superseded is what it means now.   *)
(* Its operations are one transaction each.                                *)
(***************************************************************************)
EXTENDS Idempotency, Sequences

CONSTANTS
    Lexicon,       \* the words
    Meanings,      \* the definitions proposed for them
    MaxEntries     \* bound: entries

ASSUME GlossaryBound == MaxEntries \in Nat

VARIABLE terms     \* [word, means, approved, banned, instead, live], in order of filing

glossaryVars == <<terms>>

GlossaryInit == terms = <<>>

\* find: the live entry of a word.
Current(w) == {i \in DOMAIN terms : terms[i].word = w /\ terms[i].live}

Entry(w, d, approved, banned, instead) ==
    [word |-> w, means |-> d, approved |-> approved, banned |-> banned, instead |-> instead,
     live |-> TRUE]

DefineTerm(w, d) ==
    /\ Len(terms) < MaxEntries
    /\ Current(w) = {}
    /\ Write(<<"define_term", w>>)
    /\ terms' = Append(terms, Entry(w, d, FALSE, FALSE, w))

Successor_assenting(e, d, approved) ==
    Entry(e.word, d, e.approved \/ approved, approved /\ e.banned,
          IF approved THEN e.instead ELSE e.word)

\* A rewrite at approval carries the retirement over, a redefinition clears it and puts
\* the word to the owner again.
Successor(e, d, approved) ==
    Entry(e.word, d, approved, approved /\ e.banned, IF approved THEN e.instead ELSE e.word)

Succeed(i, d, approved) ==
    /\ Len(terms) < MaxEntries
    /\ Write(<<"succeed_term", i, approved>>)
    /\ terms' = Append([terms EXCEPT ![i].live = FALSE], Successor(terms[i], d, approved))

RedefineTerm(w, d) == \E i \in Current(w) : Succeed(i, d, FALSE)

\* As it stands ...
ApproveTerm(w) ==
    \E i \in Current(w) :
        /\ ~terms[i].approved
        /\ Write(<<"approve_term", i>>)
        /\ terms' = [terms EXCEPT ![i].approved = TRUE]

\* ... or in the owner's own words, which an entry that is approved already may get too.
ApproveRewritten(w, d) == \E i \in Current(w) : d # terms[i].means /\ Succeed(i, d, TRUE)

\* The entry stays live.  What to say instead, if anything, is a word that is defined; w
\* itself stands for nothing.  A second retirement of one entry has the key of the first.
RetireTerm(w, instead) ==
    \E i \in Current(w) :
        /\ Current(instead) # {}
        /\ Write(<<"retire_term", i>>)
        /\ terms' = [terms EXCEPT ![i].banned = TRUE, ![i].instead = instead]

---------------------------------------------------------------------------
(* Properties.                                                             *)

\* The owner's assent is to the wording: an entry counts as approved only if he approved
\* that very entry, or wrote it himself on approving the one before it.
AssentIsGiven ==
    \A i \in DOMAIN terms : terms[i].approved =>
        \/ <<"approve_term", i>> \in receipts
        \/ \E j \in 1..(i - 1) :
            /\ terms[j].word = terms[i].word /\ <<"succeed_term", j, TRUE>> \in receipts
            /\ \A k \in (j + 1)..(i - 1) : terms[k].word # terms[i].word
===============================================================================
