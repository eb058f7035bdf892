----------------------------- MODULE StorageEngine -----------------------------
(***************************************************************************)
(* engine/storage.py: the only component that touches the database file.   *)
(*                                                                         *)
(* A session is a process with a connection.  A write looks its key up     *)
(* outside the transaction, waits for SQLite's write lock, applies its     *)
(* entries one by one on a private copy and commits plan, change feed and  *)
(* receipt together; any SQLite error, and any crash, rolls the copy back. *)
(* A snapshot reads table after table outside a transaction.  Restoring,   *)
(* salvaging, restarting and migrating are one transaction each.           *)
(*                                                                         *)
(* The companion GUI, a separate process, follows the feed and re-reads    *)
(* the rows it names; it and the decay of a row on disk are outside the    *)
(* engine, modelled from how the engine feeds the one and survives the     *)
(* other.                                                                  *)
(***************************************************************************)
EXTENDS StoreOps, SequencesExt

CONSTANTS
    Sessions,     \* the processes that may open the plan
    Keys,         \* idempotency keys
    Batches,      \* the batches the services build
    OpeningSchemas, \* the schema versions the file may have when it is opened
    Nobody,       \* no session holds the write lock
    NoAnswer, Unavailable,   \* nothing told yet; StorageUnavailable
    Broken,       \* the content of a row that no longer parses
    MaxSnaps,     \* bound: snapshots taken
    MaxResyncs    \* bound: wholesale rewrites announced in the feed

SchemaVersions  == 3..7
AlterSchema     == 5        \* reached by ALTER TABLE ADD COLUMN, which cannot be run twice
FeedSchema      == 7        \* the version that brings change_log

ASSUME BoundsAreNumbers == MaxSnaps \in Nat /\ MaxResyncs \in Nat
ASSUME SchemasAreKnown  == OpeningSchemas \subseteq SchemaVersions
ASSUME NobodyIsNoSession == Nobody \notin Sessions
\* Of an entry: what it does, and for an insert a table that is not that of links.
ASSUME BatchesAreEntries ==
    \A b \in Batches :
        /\ b \in Seq(Range(b))
        /\ \A i \in DOMAIN b :
            /\ b[i].kind \in {"insert_row", "insert", "update"}
            /\ b[i].kind = "insert_row" =>
                  b[i].table # LinkTable /\ NoRef \notin {b[i].table} \X Nat
ASSUME NoRefIsNoLink == NoRef \notin {LinkTable} \X Nat

VARIABLES
    plan,       \* plan, plan_rows and links, as committed
    shape,      \* the newest schema whose tables and columns the file really has
    receipts,   \* idempotency: key -> [results, annotated]
    feed,       \* change_log
    snaps,      \* plan_versions: the payloads, oldest first
    pc, request, reply, held,   \* of each session: where its call is, the call,
                                \* what it was told, what it has read so far
    owner,      \* who holds SQLite's write lock
    work,       \* the plan as the lock's owner sees it, with its results
    gui         \* [cursor, stale, reload, rows, links]: what the GUI has on screen

storeVars == <<plan, shape, receipts, feed, snaps>>
callVars  == <<pc, request, reply, held>>
lockVars  == <<owner, work>>
vars      == <<storeVars, callVars, lockVars, gui>>

NoWork == Begun(EmptyPlan(0))
NoRequest == [key |-> NoRef, batch |-> <<>>]

Resync == [op |-> "resync", ref |-> NoRef]

Answered(k, results, replayed) ==
    [key |-> k, results |-> results, replayed |-> replayed]

Init ==
    /\ plan \in {EmptyPlan(v) : v \in OpeningSchemas}
    /\ shape = plan.schema
    /\ receipts = EmptyFcn
    /\ feed = <<>>
    /\ snaps = <<>>
    /\ pc = [s \in Sessions |-> "idle"]
    /\ request = [s \in Sessions |-> NoRequest]
    /\ reply = [s \in Sessions |-> NoAnswer]
    /\ held = [s \in Sessions |-> <<>>]
    /\ owner = Nobody
    /\ work = NoWork
    /\ gui = [cursor |-> 0, stale |-> {}, reload |-> TRUE,
              rows |-> EmptyFcn, links |-> EmptyFcn]

---------------------------------------------------------------------------
(* Writing: write_atomic, replay, annotate.                                *)

\* The services check, before they write, that the rows a batch links to or
\* updates exist and can be read.
Readable == {r \in DOMAIN plan.rows : plan.rows[r] # Broken}

Callable(b) ==
    \A i \in DOMAIN b :
        /\ b[i].kind = "insert" => b[i].target \in Readable
        /\ b[i].kind = "update" => b[i].where \in Readable

Answer(s, a) ==
    /\ pc' = [pc EXCEPT ![s] = "told"]
    /\ reply' = [reply EXCEPT ![s] = a]
    /\ request' = [request EXCEPT ![s] = NoRequest]
    /\ UNCHANGED held

\* A key that has a receipt is answered from it, whatever the batch says now.
ReplayReceipt(s, k) ==
    /\ pc[s] = "idle"
    /\ k \in DOMAIN receipts
    /\ Answer(s, Answered(k, receipts[k].results, TRUE))
    /\ UNCHANGED <<storeVars, lockVars, gui>>

\* The key is looked up before the lock is taken.
Call(s, k, b) ==
    /\ pc[s] = "idle"
    /\ k \notin DOMAIN receipts
    /\ Callable(b)
    /\ pc' = [pc EXCEPT ![s] = "waiting"]
    /\ request' = [request EXCEPT ![s] = [key |-> k, batch |-> b]]
    /\ UNCHANGED <<storeVars, lockVars, gui, reply, held>>

Begin(s) ==
    /\ pc[s] = "waiting"
    /\ owner = Nobody
    /\ owner' = s
    /\ work' = Begun(plan)
    /\ pc' = [pc EXCEPT ![s] = "applying"]
    /\ UNCHANGED <<storeVars, gui, request, reply, held>>

\* WRITE_BUDGET_SECONDS run out on another session's lock.
GiveUp(s) ==
    /\ pc[s] = "waiting"
    /\ owner # Nobody
    /\ Answer(s, Unavailable)
    /\ UNCHANGED <<storeVars, lockVars, gui>>

Pending(s) == request[s].batch[Len(work.results) + 1]

BatchDone(s) == Len(work.results) = Len(request[s].batch)

ApplyNext(s) ==
    /\ pc[s] = "applying"
    /\ ~BatchDone(s)
    /\ Accepted(work, Pending(s))
    /\ work' = ApplyOp(work, Pending(s))
    /\ UNCHANGED <<storeVars, callVars, owner, gui>>

Release == owner' = Nobody /\ work' = NoWork

\* Mutated forms, which stand for plausible bugs and which no specification uses,
\* precede the definition they mutate and are named after it.
Abort_lockKept(s) ==
    /\ pc[s] = "applying"
    /\ Answer(s, Unavailable)
    /\ UNCHANGED <<storeVars, lockVars, gui>>

Abort_entriesKept(s) ==
    /\ pc[s] = "applying"
    /\ plan' = work.plan
    /\ Release
    /\ Answer(s, Unavailable)
    /\ UNCHANGED <<shape, receipts, feed, snaps, gui>>

\* Any SQLite error on the way: a link the UNIQUE constraint refuses, a key
\* another session has used since the look-up, a file without change_log, the disk.
Abort(s) ==
    /\ pc[s] = "applying"
    /\ Release
    /\ Answer(s, Unavailable)
    /\ UNCHANGED <<storeVars, gui>>

Kind(op) == IF op.kind = "update" THEN "change" ELSE "create"

\* _record_changes: one entry per row touched, in the order of the first touch;
\* an update that matched nothing announces nothing.
Announced(b, results) ==
    LET entries == [i \in DOMAIN b |-> [op |-> Kind(b[i]), ref |-> results[i]]]
        first == {i \in DOMAIN b : /\ results[i] # NoRef
                                   /\ \A j \in 1..(i - 1) : entries[j] # entries[i]}
        nth(n) == CHOOSE i \in first : Cardinality({j \in first : j <= i}) = n
    IN  [n \in 1..Cardinality(first) |-> entries[nth(n)]]

KeyUnused_replaced(s) == TRUE

\* PRIMARY KEY of idempotency: the second of two sessions with one key fails.
KeyUnused(s) == request[s].key \notin DOMAIN receipts

Commit(s) ==
    /\ pc[s] = "applying"
    /\ BatchDone(s)
    /\ shape >= FeedSchema
    /\ KeyUnused(s)
    /\ plan' = work.plan
    /\ feed' = feed \o Announced(request[s].batch, work.results)
    /\ receipts' = Put(receipts, request[s].key,
                       [results |-> work.results, annotated |-> FALSE])
    /\ Release
    /\ Answer(s, Answered(request[s].key, work.results, FALSE))
    /\ UNCHANGED <<shape, snaps, gui>>

\* The caller adds what it only knows once the write has landed.
Annotate(s) ==
    /\ pc[s] = "told"
    /\ reply[s] # Unavailable
    /\ owner = Nobody
    /\ receipts' = [receipts EXCEPT ![reply[s].key].annotated = TRUE]
    /\ UNCHANGED <<plan, shape, feed, snaps, callVars, lockVars, gui>>

Deliver(s) ==
    /\ pc[s] = "told"
    /\ pc' = [pc EXCEPT ![s] = "idle"]
    /\ reply' = [reply EXCEPT ![s] = NoAnswer]
    /\ UNCHANGED <<storeVars, lockVars, gui, request, held>>

\* The process dies.  SQLite rolls back what it had not committed.
Crash(s) ==
    /\ pc[s] # "idle"
    /\ pc' = [pc EXCEPT ![s] = "idle"]
    /\ request' = [request EXCEPT ![s] = NoRequest]
    /\ reply' = [reply EXCEPT ![s] = NoAnswer]
    /\ held' = [held EXCEPT ![s] = <<>>]
    /\ IF owner = s THEN Release ELSE UNCHANGED lockVars
    /\ UNCHANGED <<storeVars, gui>>

---------------------------------------------------------------------------
(* Snapshots and migration.  held[s] is <<what the snapshot is for, rows   *)
(* read>>, the target schema being 0 for a plain snapshot_version.         *)

StartSnapshot(s, target) ==
    /\ pc[s] = "idle"
    /\ Len(snaps) < MaxSnaps
    /\ pc' = [pc EXCEPT ![s] = "reading"]
    /\ held' = [held EXCEPT ![s] = <<target, plan.rows>>]
    /\ UNCHANGED <<storeVars, lockVars, gui, request, reply>>

\* The links are read later than the rows; then the payload is stored.
StoreSnapshot(s) ==
    /\ pc[s] = "reading"
    /\ owner = Nobody
    /\ snaps' = Append(snaps, [plan EXCEPT !.rows = held[s][2]])
    /\ IF held[s][1] \in {0, plan.schema}
       THEN /\ pc' = [pc EXCEPT ![s] = "idle"]
            /\ held' = [held EXCEPT ![s] = <<>>]
       ELSE /\ pc' = [pc EXCEPT ![s] = "migrating"]
            /\ held' = [held EXCEPT ![s] = <<held[s][1], Len(snaps) + 1>>]
    /\ UNCHANGED <<plan, shape, receipts, feed, lockVars, gui, request, reply>>

Resynced_silent == feed

\* _emit_resync: a file older than schema 7 has no feed, and does without.
Resynced == IF shape >= FeedSchema THEN Append(feed, Resync) ELSE feed

MayResync ==
    shape >= FeedSchema =>
        Cardinality({i \in DOMAIN feed : feed[i] = Resync}) < MaxResyncs

\* _migration_steps knows single steps only.  Every step but one is made of
\* CREATE ... IF NOT EXISTS, which a file that already has the tables accepts.
Migratable(target) ==
    /\ target = plan.schema + 1
    /\ target = AlterSchema => shape < AlterSchema

Migrate(s) ==
    /\ pc[s] = "migrating"
    /\ owner = Nobody
    /\ Migratable(held[s][1])
    /\ plan' = [plan EXCEPT !.schema = held[s][1]]
    /\ shape' = IF shape > held[s][1] THEN shape ELSE held[s][1]
    /\ pc' = [pc EXCEPT ![s] = "idle"]
    /\ held' = [held EXCEPT ![s] = <<>>]
    /\ UNCHANGED <<receipts, feed, snaps, lockVars, gui, request, reply>>

RestorePayload_undeleted(payload) ==
    /\ plan' = [payload EXCEPT !.nextLink = plan.nextLink,
                               !.rows = @ @@ plan.rows]
    /\ feed' = Resynced

RestorePayload(payload) ==
    /\ plan' = [payload EXCEPT !.nextLink = plan.nextLink]
    /\ feed' = Resynced

FailMigration_stampKept(s) ==
    /\ pc[s] = "migrating"
    /\ owner = Nobody
    /\ ~Migratable(held[s][1])
    /\ plan' = [plan EXCEPT !.schema = held[s][1]]
    /\ pc' = [pc EXCEPT ![s] = "idle"]
    /\ held' = [held EXCEPT ![s] = <<>>]
    /\ UNCHANGED <<shape, receipts, feed, snaps, lockVars, gui, request, reply>>

\* The steps are rolled back, then the snapshot is put back and MigrationFailed told.
FailMigration(s) ==
    /\ pc[s] = "migrating"
    /\ owner = Nobody
    /\ ~Migratable(held[s][1])
    /\ MayResync
    /\ RestorePayload(snaps[held[s][2]])
    /\ pc' = [pc EXCEPT ![s] = "idle"]
    /\ held' = [held EXCEPT ![s] = <<>>]
    /\ UNCHANGED <<shape, receipts, snaps, lockVars, gui, request, reply>>

---------------------------------------------------------------------------
(* Recovery: recover, restore_snapshot.                                    *)

Recovers(s) == pc[s] = "idle" /\ owner = Nobody /\ MayResync

\* recover("restore") takes the newest snapshot, abandon_revision its own.
Restore(s, i) ==
    /\ Recovers(s)
    /\ RestorePayload(snaps[i])
    /\ UNCHANGED <<shape, receipts, snaps, callVars, lockVars, gui>>

Restart_ledgerToo(s) ==
    /\ Recovers(s)
    /\ plan' = [EmptyPlan(plan.schema) EXCEPT !.nextLink = plan.nextLink]
    /\ feed' = Resynced
    /\ receipts' = EmptyFcn
    /\ UNCHANGED <<shape, snaps, callVars, lockVars, gui>>

\* The ledger of receipts and the counters outlive the plan they were about.
Restart(s) ==
    /\ Recovers(s)
    /\ plan' = [EmptyPlan(plan.schema) EXCEPT !.nextLink = plan.nextLink]
    /\ feed' = Resynced
    /\ UNCHANGED <<shape, receipts, snaps, callVars, lockVars, gui>>

\* integrity_check, on behalf of recover("salvage").
Inspect(s) ==
    /\ pc[s] = "idle"
    /\ Readable # DOMAIN plan.rows
    /\ pc' = [pc EXCEPT ![s] = "inspected"]
    /\ held' = [held EXCEPT ![s] = <<DOMAIN plan.rows \ Readable>>]
    /\ UNCHANGED <<storeVars, lockVars, gui, request, reply>>

\* The unreadable rows go; the links that name them stay.
Salvage(s) ==
    /\ pc[s] = "inspected"
    /\ owner = Nobody
    /\ MayResync
    /\ plan' = [plan EXCEPT !.rows = Without(@, held[s][1])]
    /\ feed' = Resynced
    /\ pc' = [pc EXCEPT ![s] = "idle"]
    /\ held' = [held EXCEPT ![s] = <<>>]
    /\ UNCHANGED <<shape, receipts, snaps, lockVars, gui, request, reply>>

---------------------------------------------------------------------------
(* Outside the engine.                                                     *)

\* A row's content stops parsing while nobody is at work.
Decay(r) ==
    /\ \A s \in Sessions : pc[s] = "idle"
    /\ plan' = [plan EXCEPT !.rows[r] = Broken]
    /\ UNCHANGED <<shape, receipts, feed, snaps, callVars, lockVars, gui>>

\* Cold start, and the answer to a resync: everything, pinned to the feed's head.
GuiReload ==
    /\ shape >= FeedSchema
    /\ gui.reload
    /\ gui' = [cursor |-> Len(feed), stale |-> {}, reload |-> FALSE,
               rows |-> plan.rows, links |-> plan.links]
    /\ UNCHANGED <<storeVars, callVars, lockVars>>

GuiPoll ==
    /\ ~gui.reload
    /\ gui.cursor < Len(feed)
    /\ LET entry == feed[gui.cursor + 1] IN
        gui' = IF entry = Resync
               THEN [gui EXCEPT !.cursor = @ + 1, !.reload = TRUE]
               ELSE [gui EXCEPT !.cursor = @ + 1, !.stale = @ \cup {entry.ref}]
    /\ UNCHANGED <<storeVars, callVars, lockVars>>

\* f as the GUI shows it once it has asked for k again.
Refetched(f, g, k) == IF k \in DOMAIN g THEN Put(f, k, g[k]) ELSE Without(f, {k})

GuiFetch(r) ==
    /\ ~gui.reload
    /\ r \in gui.stale
    /\ gui' = IF r[1] = LinkTable
              THEN [gui EXCEPT !.stale = @ \ {r},
                               !.links = Refetched(@, plan.links, r[2])]
              ELSE [gui EXCEPT !.stale = @ \ {r},
                               !.rows = Refetched(@, plan.rows, r)]
    /\ UNCHANGED <<storeVars, callVars, lockVars>>

---------------------------------------------------------------------------
Next ==
    \/ \E s \in Sessions :
        \/ \E k \in Keys : ReplayReceipt(s, k)
        \/ \E k \in Keys, b \in Batches : Call(s, k, b)
        \/ Begin(s) \/ GiveUp(s) \/ ApplyNext(s) \/ Abort(s) \/ Commit(s)
        \/ Annotate(s) \/ Deliver(s) \/ Crash(s)
        \/ \E target \in {0} \cup SchemaVersions : StartSnapshot(s, target)
        \/ StoreSnapshot(s) \/ Migrate(s) \/ FailMigration(s)
        \/ \E i \in DOMAIN snaps : Restore(s, i)
        \/ Restart(s) \/ Inspect(s) \/ Salvage(s)
    \/ \E r \in Readable : Decay(r)
    \/ GuiReload \/ GuiPoll
    \/ \E r \in gui.stale : GuiFetch(r)

Spec == Init /\ [][Next]_vars

---------------------------------------------------------------------------
(* Properties.                                                             *)

TypeOK ==
    /\ plan.schema \in SchemaVersions /\ shape \in SchemaVersions
    /\ DOMAIN receipts \subseteq Keys
    /\ \A k \in DOMAIN receipts : receipts[k].annotated \in BOOLEAN
    /\ \A l \in DOMAIN plan.links : l < plan.nextLink
    /\ \A i \in DOMAIN snaps : snaps[i].schema \in SchemaVersions
    /\ pc \in [Sessions -> {"idle", "waiting", "applying", "told", "reading",
                            "migrating", "inspected"}]
    /\ owner \in Sessions \cup {Nobody}
    /\ \A s \in Sessions : owner = s <=> pc[s] = "applying"

\* A GUI that has read the feed to its end and re-read what it named shows the
\* plan, through every commit, rollback, crash, restore, salvage and restart
\* (schema.py's contract for change_log).  Decay leaves no entry: it is excused.
GuiCaughtUp ==
    (~gui.reload /\ gui.stale = {} /\ gui.cursor = Len(feed)) =>
        /\ gui.links = plan.links
        /\ DOMAIN gui.rows = DOMAIN plan.rows
        /\ \A r \in Readable : gui.rows[r] = plan.rows[r]

\* Every row in the file was written by a batch whose receipt is still there,
\* though the ledger is never rewound with the plan (requirements:6): a retry
\* of what is on disk is always answered and never written twice.
RowsHaveReceipts ==
    \A r \in DOMAIN plan.rows :
        \E k \in DOMAIN receipts : r \in Range(receipts[k].results)

\* decisions:43 - a key keeps its first results for ever, whoever retries it,
\* annotates it, restores or clears the plan.
ReceiptsFinal ==
    [][\A k \in DOMAIN receipts :
        k \in DOMAIN receipts' /\ receipts'[k].results = receipts[k].results]_vars

\* The file never claims a schema whose tables it does not have (decisions:45),
\* in whatever order snapshots, migrations, failures and restores come.
SchemaNeverAhead == plan.schema <= shape

\* requirements:6, decisions:43, contracts:7: seen through its commits, the engine
\* is the atomic store; a half-applied batch is visible to nobody.
Atomic == INSTANCE AtomicStore WITH
    Schemas  <- OpeningSchemas,
    receipts <- [k \in DOMAIN receipts |-> receipts[k].results],
    answer   <- reply

RefinesAtomicStore == Atomic!Spec
===============================================================================
