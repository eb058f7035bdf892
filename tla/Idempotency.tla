---- MODULE Idempotency ----
(***************************************************************************)
(* The table of idempotency keys, as a service sees it through             *)
(* storage.write_atomic: a key that is taken writes nothing, and the call  *)
(* that comes with it is answered as the first one was.  Such a call is a  *)
(* stutter, and the guard of an operation asks for a key that is free.     *)
(* Module StorageEngine has the table in detail.                           *)
(***************************************************************************)
EXTENDS Naturals, FiniteSets

VARIABLE receipts         \* the keys used

CONSTANT MaxReceipts      \* bound: keys used

ASSUME LedgerBound == MaxReceipts \in Nat

\* replay has nothing to answer with.
Fresh(k) == k \notin receipts

Write(k) ==
    /\ Fresh(k)
    /\ Cardinality(receipts) < MaxReceipts
    /\ receipts' = {k} \cup receipts
====
