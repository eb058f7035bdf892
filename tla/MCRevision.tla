------------------------------- MODULE MCRevision -------------------------------
(***************************************************************************)
(* Small instances of Revision.                                            *)
(***************************************************************************)
EXTENDS Revision

\* A conflict over a row that a snapshot may predate.
OverTheSecond == {[row |-> 2, about |-> "scope"]}
===============================================================================
