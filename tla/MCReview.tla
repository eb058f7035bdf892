-------------------------------- MODULE MCReview -------------------------------
(***************************************************************************)
(* A methodology of three packages, for TLC: goals and what they are       *)
(* traced from, a state machine with its grid and the red team, and the    *)
(* last gate.                                                              *)
(***************************************************************************)
EXTENDS Review

Rec(table, content, says, kind) ==
    [table |-> table, content |-> content, says |-> says, kind |-> kind]

Lame == Rec("goals", [name |-> "g"], {"w"}, "decided")
Goal == Rec("goals", [name |-> "g", success |-> "s"], {}, "decided")
Fact == Rec("notes", [name |-> "f", untouched |-> {"h"}], {}, "world")
Machine == Rec("machines", [states |-> {"s"}, events |-> {"e"}], {}, "decided")
Cell == Rec("cells", [state |-> "s", event |-> "e"], {}, "decided")
Use == Rec("uses", [name |-> "u"], {}, "decided")

Plan(contents, links) ==
    [rows |-> [r \in DOMAIN contents |-> Row(contents[r], r)], links |-> links,
     overlay |-> [x \in {} |-> 0], conflicts |-> [x \in {} |-> 0],
     warnings |-> [x \in {} |-> 0]]

TestManifest == <<{"goals"}, {"machines", "findings"}, {}>>

TestCriteria ==
    {[package |-> 1, type |-> "required_fields", table |-> "goals", when |-> {}, unless |-> {},
      fields |-> {"success"}],
     [package |-> 1, type |-> "traced", table |-> "goals", when |-> {}, unless |-> {},
      toTables |-> {"uses"}, direction |-> "in"],
     [package |-> 1, type |-> "unbacked_assumption", kind |-> "world"],
     [package |-> 2, type |-> "matrix_complete", table |-> "machines", child |-> "cells",
      axes |-> <<"states", "events">>, cell |-> <<"state", "event">>],
     [package |-> 2, type |-> "non_empty", table |-> "machines", escape |-> {"goals", "notes"}],
     [package |-> 2, type |-> "covers_all", table |-> "machines", child |-> "cells",
      field |-> "event", values |-> {"e"}],
     [package |-> 2, type |-> "conditional_fields", table |-> "cells",
      cases |-> {[field |-> "state", values |-> {"s"}, require |-> {"event"}]}],
     [package |-> 2, type |-> "findings_exist"],
     [package |-> 2, type |-> "findings_resolved"],
     [package |-> 3, type |-> "prior_gates_green"],
     [package |-> 3, type |-> "no_open_conflicts"]}

TestRules ==
    {[id |-> "bare_goal", package |-> 1, type |-> "missing_field", table |-> "goals",
      when |-> {}, unless |-> {}, fields |-> {"success"}],
     [id |-> "unlinked_goal", package |-> 2, type |-> "untraced", table |-> "goals",
      when |-> {"success"}, unless |-> {}, toTable |-> "uses", direction |-> "in"],
     [id |-> "no_machine", package |-> 1, type |-> "empty_table", table |-> "machines"],
     [id |-> "unread", package |-> 3, type |-> "uncited_section", table |-> "notes",
      ignore |-> {}],
     [id |-> "no_words", package |-> 1, type |-> "no_glossary"],
     [id |-> "open_world", package |-> 0, type |-> "open_assumption", kind |-> "world"],
     [id |-> "unsettled", package |-> 0, type |-> "unsettled_term"]}

TestContents == {Lame}
NoContents == {}
TestWords == {"w"}
TestStarts == {Plan(<<Lame>>, {}), Plan(<<Machine, Cell>>, {<<2, 1>>}),
               Plan(<<Goal, Use>>, {<<2, 1>>}), Plan(<<Fact>>, {})}

\* A review mixes a few concerns at a time: what a behaviour has done besides running
\* gates and moving warnings.
Concerns ==
    {c \in {"edit", "word", "overlay", "conflict", "finding", "spike", "owner", "rewind"} :
        CASE c = "edit"     -> \A p \in Starts : plan.rows # p.rows
          [] c = "word"     -> words # [w \in Words |-> {}]
          [] c = "overlay"  -> \E k \in receipts : k[1] = "dismissed"
          [] c = "conflict" -> \E k \in receipts : k[1] = "conflict"
          [] c = "finding"  -> findings # <<>>
          [] c = "spike"    -> tried # {}
          [] c = "owner"    -> \E k \in receipts : k[1] \in {"suppress_warning", "resolve_warning"}
          [] c = "rewind"   -> snaps # <<>>}

AtMostTwo == Cardinality(Concerns) <= 2
===============================================================================
