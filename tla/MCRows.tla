-------------------------------- MODULE MCRows --------------------------------
(***************************************************************************)
(* Small instances of RowService: use cases, their steps and the steps'    *)
(* extensions, two names, and batches whose parts depend on one another.   *)
(***************************************************************************)
EXTENDS RowService, TLC

MCParentOf == [t \in {"uc_steps", "uc_extensions"} |->
                  IF t = "uc_steps" THEN "use_cases" ELSE "uc_steps"]

Plain(t, n)  == [table |-> t, name |-> n, kind |-> "decided", spike |-> FALSE, links |-> {}]
Intent(t, n) == [Plain(t, n) EXCEPT !.kind = "intent"]
World(t, n)  == [Plain(t, n) EXCEPT !.kind = "world", !.spike = TRUE]
Unbacked(t, n) == [World(t, n) EXCEPT !.spike = FALSE]
Owned(sub, to) == [sub EXCEPT !.links = {[type |-> "belongs_to", to |-> to]}]
Linked(sub, to) == [sub EXCEPT !.links = @ \cup {[type |-> "links", to |-> to]}]

\* An assumption about the world, and one whose name is taken by the first.
WorldBatch == <<World("use_cases", 1), Intent("use_cases", 1)>>

\* An extension of a step of a use case, which all fall with the use case.
ChainBatch == <<Plain("use_cases", 1),
                Owned(Plain("uc_steps", 1), <<"sibling", 1>>),
                Owned(Plain("uc_extensions", 1), <<"sibling", 2>>)>>

\* A step of a row that is there, if it is a use case, and one with no use case.
LateBatch == <<Linked(Intent("use_cases", 2), <<"row", 1>>),
               Owned(Plain("uc_steps", 1), <<"row", 1>>), Plain("uc_steps", 2)>>

MCBatches == {WorldBatch, ChainBatch, LateBatch}
MCReplacements == {Plain("use_cases", 1), World("use_cases", 2), Unbacked("use_cases", 2)}

MCKeys == Permutations(Keys)
===============================================================================
