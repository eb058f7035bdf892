------------------------------- MODULE StoreOps -------------------------------
(***************************************************************************)
(* What one entry of a batch does to the plan: engine/storage.py, Op,      *)
(* FromOp, _resolve and _apply.  Pure operators, shared by the abstract    *)
(* store and by the engine.                                                *)
(*                                                                         *)
(* A plan is [rows, links, nextLink, schema]: rows maps a ref              *)
(* <<table, ordinal>> to its content, links maps the id of a link to       *)
(* <<source, target>>, nextLink is the AUTOINCREMENT counter of the links  *)
(* table and schema the schema_version recorded in the plan row.  A batch  *)
(* under way is a plan and the results of the entries applied so far.      *)
(***************************************************************************)
EXTENDS Naturals, Sequences, FiniteSetsExt

CONSTANT NoRef              \* the result of an update that matched no row

LinkTable == "links"

\* f with v at k, whether or not k was in its domain.
Put(f, k, v) == [x \in DOMAIN f \cup {k} |-> IF x = k THEN v ELSE f[x]]

Without(f, S) == [x \in DOMAIN f \ S |-> f[x]]

EmptyFcn == [x \in {} |-> x]

EmptyPlan(v) ==
    [rows |-> EmptyFcn, links |-> EmptyFcn, nextLink |-> 1, schema |-> v]

InsertRow(t, c)  == [kind |-> "insert_row", table |-> t, content |-> c]
\* The source of a link is borrowed from the result of an earlier entry (FromOp).
InsertLink(i, r) == [kind |-> "insert", fromOp |-> i, target |-> r]
UpdateRow(r, c)  == [kind |-> "update", where |-> r, content |-> c]

\* COALESCE(MAX(ordinal), 0) + 1: taken from the rows there are, so an ordinal
\* freed by a rewind is handed out again.
NextOrdinal(rows, t) ==
    Max({0} \cup {r[2] : r \in {q \in DOMAIN rows : q[1] = t}}) + 1

Begun(plan) == [plan |-> plan, results |-> <<>>]

NewLink(w, op) == <<w.results[op.fromOp], op.target>>

\* UNIQUE (source_ref, target_ref, edge_type): the entry SQLite can refuse.
Accepted(w, op) ==
    op.kind = "insert" =>
        \A l \in DOMAIN w.plan.links : w.plan.links[l] # NewLink(w, op)

ApplyInsertRow(w, op) ==
    LET ref == <<op.table, NextOrdinal(w.plan.rows, op.table)>>
    IN  [w EXCEPT !.plan.rows = Put(@, ref, op.content),
                  !.results = Append(@, ref)]

ApplyInsertLink(w, op) ==
    LET id == w.plan.nextLink
    IN  [w EXCEPT !.plan.links = Put(@, id, NewLink(w, op)),
                  !.plan.nextLink = @ + 1,
                  !.results = Append(@, <<LinkTable, id>>)]

ApplyUpdate(w, op) ==
    IF op.where \in DOMAIN w.plan.rows
    THEN [w EXCEPT !.plan.rows[op.where] = op.content,
                   !.results = Append(@, op.where)]
    ELSE [w EXCEPT !.results = Append(@, NoRef)]

ApplyOp(w, op) ==
    CASE op.kind = "insert_row" -> ApplyInsertRow(w, op)
      [] op.kind = "insert"     -> ApplyInsertLink(w, op)
      [] op.kind = "update"     -> ApplyUpdate(w, op)
===============================================================================
