------------------------------- MODULE MCLedgers --------------------------------
(***************************************************************************)
(* The ledgers for TLC: an assumption with a chain of two rows on it, a    *)
(* diamond, and two assumptions of which one rests on the other; texts     *)
(* with hyphens before breaks and blanks, and every quote of up to three   *)
(* characters.                                                             *)
(***************************************************************************)
EXTENDS Ledgers

TestPlans == {[assumed |-> {1}, rests |-> {<<2, 1>>, <<3, 2>>}],
              [assumed |-> {1, 2}, rests |-> {<<2, 1>>, <<3, 2>>, <<3, 1>>}]}

B == Break
TestTexts == {<<"a", Space, "-", B, Space, "b", "-">>,
              <<"a", "-", Space, "b", B, Heading, B, "b", "-", B, "a">>}
TestQuotes == UNION {[1..n -> {"a", "b", "-", Space, B}] : n \in 1..3}

\* The ledgers share no row, and a claim and a spike only the walk of the links: writing
\* to two of them shows nothing that writing to one does not.
Touched ==
    {l \in {"spikes", "claims", "terms", "handover", "journal", "sources"} :
        CASE l = "spikes"   -> \/ \E r \in PlanRows : standing[r] \notin {"open", "decided"}
                               \/ \E k \in receipts : k[1] \in {"register_spike", "spike"}
          [] l = "claims"   -> claims # <<>>
          [] l = "terms"    -> terms # <<>>
          [] l = "handover" -> \/ packages # {} \/ placements # <<>>
                               \/ \E s \in SubTasks : reach[s] # {}
          [] l = "journal"  -> notes # {} \/ nextActions # <<>>
          [] l = "sources"  -> sources # <<>>}

OneLedger == Cardinality(Touched) <= 1
===============================================================================
