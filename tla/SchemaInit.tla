------------------------------- MODULE SchemaInit -------------------------------
(***************************************************************************)
(* Every store of the ledger creates and migrates its own SQLite tables    *)
(* before it is used (review/findings.py, review/persistence.py,           *)
(* core/sqlite_schema_init.py): workflow jobs and the threads of a         *)
(* reviewer pool do it at the same time, on a new file or on one that an   *)
(* older release left.  Only the threads of one process share a lock; a    *)
(* statement of another process commits by itself, between any two steps.  *)
(***************************************************************************)
EXTENDS Integers, Sequences, FiniteSets, SequencesExt

CONSTANTS
    Workers,     \* threads that open a store
    ProcessOf,   \* the process of each
    Tables,      \* the tables of the store, in the order create_all makes them
    Migrated,    \* the one whose columns changed since it was introduced
    Added,       \* the columns it was given, in the order they are added
    Attempts,    \* _INIT_SCHEMA_MAX_ATTEMPTS
    MaxBusy,     \* bound: statements that find the database locked
    MaxKills     \* bound: processes killed

VARIABLES
    db,      \* the file: its tables, the added columns present, the retired one
    worker,  \* where each worker is
    lock,    \* the workers that hold their process's _INIT_SCHEMA_LOCK
    busy, kills

vars == <<db, worker, lock, busy, kills>>

All(seq) == ToSet(seq)
Idle == [pc |-> "idle", attempt |-> 0, todo |-> {}]
Fresh == [tables |-> {}, columns |-> {}, retired |-> FALSE]

\* A new file, or one of an older release: some tables, some columns, the retired column.
Init ==
    /\ db \in {Fresh} \cup [tables: {ts \in SUBSET All(Tables) : Migrated \in ts},
                            columns: {All(SubSeq(Added, 1, n)) : n \in 0 .. Len(Added)},
                            retired: BOOLEAN]
    /\ worker = [w \in Workers |-> Idle]
    /\ lock = {} /\ busy = 0 /\ kills = 0

At(w, pc) == worker[w].pc = pc
Moves(w, to) == worker' = [worker EXCEPT ![w] = to]
Goes(w, pc) == Moves(w, [worker[w] EXCEPT !.pc = pc])
Counts == UNCHANGED <<busy, kills>>

\* init_findings_schema, init_schema: the threads of one process take turns.
Begin(w) ==
    /\ At(w, "idle") /\ \A v \in lock : ProcessOf[v] # ProcessOf[w]
    /\ lock' = lock \cup {w} /\ Moves(w, [Idle EXCEPT !.pc = "check", !.attempt = 1])
    /\ UNCHANGED db /\ Counts

\* create_all(checkfirst=True) looks for every table before it creates the first.
Missing(of, present) == All(of) \ present
\* What is missing is made in the order it is declared in.
FirstOf(of, todo) ==
    of[CHOOSE i \in DOMAIN of : of[i] \in todo /\ \A j \in 1 .. i - 1 : of[j] \notin todo]

Check(w) ==
    /\ At(w, "check")
    /\ Moves(w, [worker[w] EXCEPT !.pc = "create", !.todo = Missing(Tables, db.tables)])
    /\ UNCHANGED <<db, lock>> /\ Counts

\* _create_all_with_retries: after the last attempt the tables are looked for once more.
Retries(w) ==
    IF worker[w].attempt < Attempts
    THEN [worker[w] EXCEPT !.pc = "check", !.attempt = @ + 1]
    ELSE [worker[w] EXCEPT !.pc = "last"]

Create(w) ==
    /\ At(w, "create") /\ worker[w].todo # {} /\ UNCHANGED lock /\ Counts
    /\ LET table == FirstOf(Tables, worker[w].todo) IN
       IF table \in db.tables THEN Moves(w, Retries(w)) /\ UNCHANGED db
       ELSE /\ db' = [db EXCEPT !.tables = @ \cup {table},
                                !.columns = IF table = Migrated THEN All(Added) ELSE @]
            /\ Moves(w, [worker[w] EXCEPT !.todo = @ \ {table}])

Created(w) ==
    /\ At(w, "create") /\ worker[w].todo = {}
    /\ lock' = lock \ {w} /\ Goes(w, "look")
    /\ UNCHANGED db /\ Counts

\* Mutant: the attempts are taken for enough.
LastIsTrusted(w) == Goes(w, "look")
LastLook(w) == IF All(Tables) \subseteq db.tables THEN Goes(w, "look") ELSE Goes(w, "failed_create")

Rechecks(w) == At(w, "last") /\ LastLook(w) /\ lock' = lock \ {w} /\ UNCHANGED db /\ Counts

\* _migrate_missing_columns, _migrate_missing_findings_columns: the columns are read
\* once, then added one by one; one that is there by then raises.
Look(w) ==
    /\ At(w, "look")
    /\ Moves(w, [worker[w] EXCEPT !.pc = "add", !.todo = Missing(Added, db.columns)])
    /\ UNCHANGED <<db, lock>> /\ Counts

Add(w) ==
    /\ At(w, "add") /\ worker[w].todo # {} /\ UNCHANGED lock /\ Counts
    /\ LET column == FirstOf(Added, worker[w].todo) IN
       IF column \in db.columns THEN Goes(w, "failed_migrate") /\ UNCHANGED db
       ELSE /\ db' = [db EXCEPT !.columns = @ \cup {column}]
            /\ Moves(w, [worker[w] EXCEPT !.todo = @ \ {column}])

\* _drop_retired_columns: looked for, then dropped; one that is gone by then raises.
LookRetired(w) ==
    /\ At(w, "add") /\ worker[w].todo = {}
    /\ Goes(w, IF db.retired THEN "drop" ELSE "ready")
    /\ UNCHANGED <<db, lock>> /\ Counts

Drop(w) ==
    /\ At(w, "drop")
    /\ Goes(w, IF db.retired THEN "ready" ELSE "failed_migrate")
    /\ db' = [db EXCEPT !.retired = FALSE]
    /\ UNCHANGED lock /\ Counts

\* A statement that waits too long for another writer.
Busy(w) ==
    /\ busy < MaxBusy /\ busy' = busy + 1
    /\ worker[w].pc = "drop" \/ (worker[w].pc \in {"create", "add"} /\ worker[w].todo # {})
    /\ IF At(w, "create") THEN Moves(w, Retries(w)) ELSE Goes(w, "failed_migrate")
    /\ UNCHANGED <<db, lock, kills>>

\* record_review, record_merge, record_finding, record_review_run, ...: an insert names
\* every column of today's table, and no retired one.
Records(w) ==
    /\ At(w, "ready")
    /\ Goes(w, IF All(Tables) \subseteq db.tables /\ All(Added) \subseteq db.columns /\ ~db.retired
               THEN "idle" ELSE "failed_record")
    /\ UNCHANGED <<db, lock>> /\ Counts

\* The run ends with the error, or at any point; a later one starts over.
Ends(w) ==
    /\ worker[w].pc \in {"failed_create", "failed_migrate", "failed_record"}
    /\ Moves(w, Idle) /\ UNCHANGED <<db, lock>> /\ Counts

Killed(process) ==
    /\ kills < MaxKills /\ kills' = kills + 1
    /\ worker' = [w \in Workers |-> IF ProcessOf[w] = process THEN Idle ELSE worker[w]]
    /\ lock' = {w \in lock : ProcessOf[w] # process}
    /\ UNCHANGED <<db, busy>>

Step(w) ==
    \/ Begin(w) \/ Check(w) \/ Create(w) \/ Created(w) \/ Rechecks(w)
    \/ Look(w) \/ Add(w) \/ LookRetired(w) \/ Drop(w)
    \/ Busy(w) \/ Records(w) \/ Ends(w)

Next ==
    \/ \E w \in Workers : Step(w)
    \/ \E p \in {ProcessOf[w] : w \in Workers} : Killed(p)

Spec == Init /\ [][Next]_vars

--------------------------------------------------------------------------------
\* A store whose initialisation returned can be written: whatever other processes did to
\* the file meanwhile, killed ones included, no insert misses a table or a column.  And
\* "the sequence converges to a no-op within a handful of attempts": unless the database
\* itself was locked, a lost race for a CREATE TABLE never fails an initialisation.
InitSuffices ==
    /\ \A w \in Workers : ~At(w, "failed_record")
    /\ busy = 0 => \A w \in Workers : ~At(w, "failed_create")

--------------------------------------------------------------------------------
(* What it rests on: the file only ever gains what an insert needs, and what   *)
(* an initialisation has behind it is there.                                   *)
Worker == [pc : {"idle", "check", "create", "last", "look", "add", "drop", "ready",
                 "failed_create", "failed_migrate", "failed_record"},
           attempt : Nat, todo : SUBSET (All(Tables) \cup All(Added))]
File == [tables : SUBSET All(Tables), columns : SUBSET All(Added), retired : BOOLEAN]
TypeOK == worker \in [Workers -> Worker] /\ db \in File /\ busy \in Nat

Tabled(w) ==
    /\ At(w, "create") => worker[w].todo \subseteq All(Tables)
                          /\ All(Tables) \subseteq db.tables \cup worker[w].todo
    /\ worker[w].pc \in {"look", "add", "drop", "ready"} => All(Tables) \subseteq db.tables
Columned(w) ==
    /\ At(w, "add") => worker[w].todo \subseteq All(Added)
                       /\ All(Added) \subseteq db.columns \cup worker[w].todo
    /\ worker[w].pc \in {"drop", "ready"} => All(Added) \subseteq db.columns
    /\ At(w, "ready") => ~db.retired

\* An attempt that is lost is lost to a table that was not there when it began: after k of
\* them there are k tables.
Raced(w) ==
    busy = 0 =>
        /\ At(w, "check") => worker[w].attempt <= Cardinality(db.tables) + 1
        /\ At(w, "create") =>
              worker[w].attempt <= Cardinality(All(Tables) \ worker[w].todo) + 1
        /\ At(w, "last") => Attempts <= Cardinality(db.tables)
        /\ ~At(w, "failed_create")
WorkerOK(w) == Tabled(w) /\ Columned(w) /\ Raced(w) /\ ~At(w, "failed_record")

SchemaInv == TypeOK /\ \A w \in Workers : WorkerOK(w)
================================================================================
