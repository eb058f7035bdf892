------------------------------- MODULE MCStorage -------------------------------
(***************************************************************************)
(* Small instances of StorageEngine: a batch that creates a row, one that  *)
(* supersedes it (create, link to the old row, stamp the old row) and one  *)
(* whose entries create two rows of different tables.                      *)
(***************************************************************************)
EXTENDS StorageEngine


Old == <<"requirements", 1>>

CreateBatch    == <<InsertRow("requirements", "decided")>>
SupersedeBatch == <<InsertRow("requirements", "decided"), InsertLink(1, Old),
                    UpdateRow(Old, "superseded")>>
PairBatch      == <<InsertRow("requirements", "draft"), InsertRow("contracts", "draft"),
                    InsertLink(2, Old)>>

MCBatches == {CreateBatch, SupersedeBatch, PairBatch}
RecoveryBatches == {CreateBatch, SupersedeBatch}

CurrentSchema == {7}
OldSchemas    == {4, 6}
===============================================================================
