--------------------------------- MODULE Migrations ---------------------------------
(***************************************************************************)
(* The three schema migrations (alembic/versions) and how alembic/env.py   *)
(* runs them: all scripts of one "alembic upgrade" or "downgrade" in one   *)
(* transaction, which PostgreSQL can roll back, DDL included.  Meanwhile   *)
(* clients write rows to the tables no statement of it has locked yet.     *)
(*                                                                         *)
(* No script creates the tables the first one alters: they come from the   *)
(* time before Alembic.  A database starts with them, or with nothing.     *)
(***************************************************************************)
EXTENDS Naturals, Sequences, SequencesExt

\* Consecutive statements of one kind on one table are one statement here.
CreateTable(table, columns) == [kind |-> "create", table |-> table, arg |-> columns]
DropTable(table)            == [kind |-> "drop", table |-> table, arg |-> {}]
AddColumns(table, columns)  == [kind |-> "add", table |-> table, arg |-> columns]
DropColumns(table, names)   == [kind |-> "remove", table |-> table, arg |-> names]
CreateIndexes(table, names) == [kind |-> "index", table |-> table, arg |-> names]
DropIndexes(table, names)   == [kind |-> "unindex", table |-> table, arg |-> names]

\* Columns of a type; of the types only what tells columns apart is kept.
Null(type, names)    == {<<n, type, "null">> : n \in names}
NotNull(type, names) == {<<n, type, "not null">> : n \in names}
Named(columns) == {c[1] : c \in columns}

----------------------------------------------------------------------------
(* 857b83581644, add customer flow and waiting sessions *)

Upgrade1 ==
  << CreateTable("waiting_time",
       NotNull("uuid", {"id"}) \cup NotNull("varchar", {"branch_id", "camera_id", "tracking_id"})
       \cup Null("integer", {"entry_frame", "exit_frame"})
       \cup Null("timestamp", {"entry_time", "exit_time"}) \cup Null("float", {"duration_seconds"})),
     CreateIndexes("waiting_time", {"branch_id", "camera_id", "tracking_id"}),
     DropTable("waiting_times"),
     AddColumns("customer_flow",
       NotNull("varchar", {"branch_id", "status"})
       \cup Null("varchar", {"entry_camera_id", "entry_tracking_id", "entry_emotion",
                             "exit_camera_id", "exit_tracking_id", "exit_emotion"})
       \cup Null("timestamp", {"entry_time", "exit_time"})
       \cup Null("float", {"gender_confidence", "entry_emotion_confidence",
                           "exit_emotion_confidence", "face_match_score"})
       \cup Null("float[]", {"entry_face_vector", "exit_face_vector"})
       \cup Null("jsonb", {"entry_face_box", "exit_face_box"})),
     CreateIndexes("customer_flow", {"branch_id", "status"}),
     DropColumns("customer_flow", {"event_time", "count", "created_at", "event_type", "emotion"}) >>

Downgrade1 ==
  << AddColumns("customer_flow",
       Null("varchar50", {"emotion"}) \cup NotNull("varchar10", {"event_type"})
       \cup NotNull("timestamp", {"created_at", "event_time"}) \cup NotNull("integer", {"count"})),
     DropIndexes("customer_flow", {"status", "branch_id"}),
     DropColumns("customer_flow",
       {"status", "face_match_score", "exit_face_box", "exit_face_vector",
        "exit_emotion_confidence", "exit_emotion", "exit_time", "exit_tracking_id",
        "exit_camera_id", "entry_face_box", "entry_face_vector", "entry_emotion_confidence",
        "entry_emotion", "gender_confidence", "entry_time", "entry_tracking_id",
        "entry_camera_id", "branch_id"}),
     CreateTable("waiting_times",
       NotNull("uuid", {"id"}) \cup NotNull("integer", {"entry_frame", "exit_frame"})
       \cup NotNull("timestamp", {"entry_time", "exit_time", "created_at"})
       \cup NotNull("float", {"duration_s"})),
     DropIndexes("waiting_time", {"tracking_id", "camera_id", "branch_id"}),
     DropTable("waiting_time") >>

----------------------------------------------------------------------------
(* 13d0ee0c40e5, create waiting times and entries *)

Upgrade2 ==
  << CreateTable("entries",
       NotNull("uuid", {"uuid"}) \cup Null("timestamp", {"entry_time", "exit_time"})
       \cup Null("integer", {"entry_count", "exit_count"})
       \cup Null("varchar20", {"age_class", "enter_emotion", "exit_emotion"})
       \cup Null("varchar10", {"gender"})
       \cup Null("numeric", {"gender_conf", "enter_emotion_conf", "exit_emotion_conf",
                             "face_match_score"})
       \cup Null("text", {"entry_face_box", "entry_face_vector",
                          "exit_face_box", "exit_face_vector"})),
     CreateTable("waiting_times",
       NotNull("uuid", {"uuid"}) \cup Null("integer", {"id", "entry_frame", "exit_frame"})
       \cup Null("varchar20", {"entry_time", "exit_time", "duration"})
       \cup Null("numeric", {"duration_s"})),
     DropIndexes("customer_flow", {"branch_id", "status"}),
     DropTable("customer_flow"),
     DropIndexes("waiting_time", {"branch_id", "camera_id", "tracking_id"}),
     DropTable("waiting_time") >>

Downgrade2 ==
  << CreateTable("waiting_time",
       NotNull("uuid", {"id"}) \cup NotNull("varchar", {"branch_id", "camera_id", "tracking_id"})
       \cup Null("integer", {"entry_frame", "exit_frame"})
       \cup Null("timestamp", {"entry_time", "exit_time"}) \cup Null("float", {"duration_seconds"})),
     CreateIndexes("waiting_time", {"tracking_id", "camera_id", "branch_id"}),
     CreateTable("customer_flow",
       NotNull("uuid", {"id"}) \cup Null("varchar50", {"age_class", "gender"})
       \cup NotNull("varchar", {"branch_id", "status"})
       \cup Null("varchar", {"entry_camera_id", "entry_tracking_id", "entry_emotion",
                             "exit_camera_id", "exit_tracking_id", "exit_emotion"})
       \cup Null("timestamp", {"entry_time", "exit_time"})
       \cup Null("float", {"gender_confidence", "entry_emotion_confidence",
                           "exit_emotion_confidence", "face_match_score"})
       \cup Null("float[]", {"entry_face_vector", "exit_face_vector"})
       \cup Null("jsonb", {"entry_face_box", "exit_face_box"})),
     CreateIndexes("customer_flow", {"status", "branch_id"}),
     DropTable("waiting_times"),
     DropTable("entries") >>

----------------------------------------------------------------------------
(* c748a8d1e2f3, add analytics fields and indexes *)

\* Mutant: an index the model declares is not created.
Upgrade3NoIndex ==
  << AddColumns("entries", Null("varchar50", {"branch_id", "camera_id"})),
     CreateIndexes("entries", {"branch_id", "camera_id", "entry_time", "exit_time"}) >>

Upgrade3 ==
  << AddColumns("entries", Null("varchar50", {"branch_id", "camera_id"})),
     CreateIndexes("entries", {"branch_id", "camera_id", "entry_time", "entry_count",
                       "exit_time", "exit_count"}) >>

\* Mutant: the columns are dropped first, and their indexes with them.
Downgrade3Swapped ==
  << DropColumns("entries", {"camera_id", "branch_id"}),
     DropIndexes("entries", {"exit_count", "exit_time", "entry_count", "entry_time",
                         "camera_id", "branch_id"}) >>

Downgrade3 ==
  << DropIndexes("entries", {"exit_count", "exit_time", "entry_count", "entry_time",
                         "camera_id", "branch_id"}),
     DropColumns("entries", {"camera_id", "branch_id"}) >>

Revisions == 0..3  \* 0 is no revision
Upgrades   == <<Upgrade1, Upgrade2, Upgrade3>>
Downgrades == <<Downgrade1, Downgrade2, Downgrade3>>

\* The tables before Alembic, as the scripts of the first revision leave and restore them.
Legacy ==
  [customer_flow |->
     [columns |-> NotNull("uuid", {"id"}) \cup Null("varchar50", {"age_class", "gender", "emotion"})
                  \cup NotNull("varchar10", {"event_type"})
                  \cup NotNull("timestamp", {"created_at", "event_time"})
                  \cup NotNull("integer", {"count"}),
      indexes |-> {}],
   waiting_times |->
     [columns |-> NotNull("uuid", {"id"}) \cup NotNull("integer", {"entry_frame", "exit_frame"})
                  \cup NotNull("timestamp", {"entry_time", "exit_time", "created_at"})
                  \cup NotNull("float", {"duration_s"}),
      indexes |-> {}]]

NoTables == [t \in {} |-> Legacy.customer_flow]

----------------------------------------------------------------------------
(* PostgreSQL: when a statement is carried out, and what it does. *)

Legal(op, tables, filled) ==
  IF op.kind = "create" THEN op.table \notin DOMAIN tables
  ELSE /\ op.table \in DOMAIN tables
       /\ LET names   == Named(tables[op.table].columns)
              indexes == tables[op.table].indexes
          IN  /\ op.kind = "add" => /\ Named(op.arg) \cap names = {}
                                    /\ op.table \in filled => \A c \in op.arg : c[3] = "null"
              /\ op.kind \in {"remove", "index"} => op.arg \subseteq names
              /\ op.kind = "index" => op.arg \cap indexes = {}
              /\ op.kind = "unindex" => op.arg \subseteq indexes

\* The tables after a legal statement.  An index goes with its column.
After(tables, op) ==
  LET old == tables[op.table]
      new == CASE op.kind = "create" -> [columns |-> op.arg, indexes |-> {}]
               [] op.kind = "add" -> [old EXCEPT !.columns = @ \cup op.arg]
               [] op.kind = "remove" -> [columns |-> {c \in old.columns : c[1] \notin op.arg},
                                         indexes |-> old.indexes \ op.arg]
               [] op.kind = "index" -> [old EXCEPT !.indexes = @ \cup op.arg]
               [] op.kind = "unindex" -> [old EXCEPT !.indexes = @ \ op.arg]
      names == IF op.kind = "drop" THEN DOMAIN tables \ {op.table}
               ELSE DOMAIN tables \cup {op.table}
  IN  [t \in names |-> IF t = op.table THEN new ELSE tables[t]]

----------------------------------------------------------------------------

VARIABLES
  fresh,     \* whether the database started without the tables of the time before
  revision,  \* alembic_version
  tables,    \* the committed schema
  filled,    \* the tables that have rows
  tx,        \* the transaction of a migration, or Idle
  failed     \* history: the scripts that raised, with the tables that had rows then

vars == <<fresh, revision, tables, filled, tx, failed>>

Idle == [at |-> 0, to |-> 0, todo |-> <<>>, tables |-> NoTables, locked |-> {}, dropped |-> {}]

Init ==
  /\ fresh \in BOOLEAN
  /\ revision = 0 /\ tables = IF fresh THEN NoTables ELSE Legacy
  /\ filled = {} /\ tx = Idle /\ failed = {}

\* The script that leads from one revision to the next one on the way.
Script(from, to) == IF from < to THEN Upgrades[from + 1] ELSE Downgrades[from]
Step(from, to)   == IF from < to THEN from + 1 ELSE from - 1

\* "alembic upgrade" or "downgrade" to a revision, begin_transaction.
Migrate(to) ==
  /\ tx = Idle /\ to # revision
  /\ tx' = [Idle EXCEPT !.at = revision, !.to = to, !.todo = Script(revision, to),
                        !.tables = tables]
  /\ UNCHANGED <<fresh, revision, tables, filled, failed>>

\* The rows the migration's statements see: none in a table it created.
Seen == filled \ tx.dropped

Statement ==
  /\ tx.todo # <<>>
  /\ LET op == Head(tx.todo)
     IN  /\ Legal(op, tx.tables, Seen)
         /\ tx' = [tx EXCEPT !.todo = Tail(@), !.tables = After(@, op),
                             !.locked = @ \cup {op.table},
                             !.dropped = IF op.kind = "drop" THEN @ \cup {op.table} ELSE @]
  /\ UNCHANGED <<fresh, revision, tables, filled, failed>>

\* An error ends the command, and the transaction with it.
StatementError ==
  /\ tx.todo # <<>> /\ ~Legal(Head(tx.todo), tx.tables, Seen)
  /\ tx' = Idle
  /\ failed' = failed \cup {[from |-> tx.at, to |-> Step(tx.at, tx.to), rows |-> Seen]}
  /\ UNCHANGED <<fresh, revision, tables, filled>>

\* A script has ended: alembic_version is updated, the next script begins.
NextScript ==
  /\ tx # Idle /\ tx.todo = <<>> /\ Step(tx.at, tx.to) # tx.to
  /\ tx' = [tx EXCEPT !.at = Step(tx.at, tx.to), !.todo = Script(Step(tx.at, tx.to), tx.to)]
  /\ UNCHANGED <<fresh, revision, tables, filled, failed>>

\* Mutant: a transaction of its own for every script, the version written in the last.
CommitEach ==
  /\ tx # Idle /\ tx.todo = <<>>
  /\ tables' = tx.tables /\ filled' = Seen
  /\ IF Step(tx.at, tx.to) = tx.to THEN revision' = tx.to /\ tx' = Idle
     ELSE /\ tx' = [tx EXCEPT !.at = Step(tx.at, tx.to),
                              !.todo = Script(Step(tx.at, tx.to), tx.to)]
          /\ UNCHANGED revision
  /\ UNCHANGED <<fresh, failed>>

Commit ==
  /\ tx # Idle /\ tx.todo = <<>> /\ Step(tx.at, tx.to) = tx.to
  /\ revision' = tx.to /\ tables' = tx.tables /\ filled' = Seen
  /\ tx' = Idle
  /\ UNCHANGED <<fresh, failed>>

\* The command is interrupted or loses its connection.
Interrupt ==
  /\ tx # Idle /\ tx' = Idle
  /\ UNCHANGED <<fresh, revision, tables, filled, failed>>

\* A client stores a row; a table the migration has touched is locked.
Write(table) ==
  /\ table \in DOMAIN tables \ (filled \cup tx.locked)
  /\ filled' = filled \cup {table}
  /\ UNCHANGED <<fresh, revision, tables, tx, failed>>

Next ==
  \/ \E to \in Revisions : Migrate(to)
  \/ Statement \/ StatementError \/ NextScript \/ Commit \/ Interrupt
  \/ \E table \in DOMAIN tables : Write(table)

Spec == Init /\ [][Next]_vars

----------------------------------------------------------------------------

\* The tables a revision stands for: all upgrades up to it, on empty tables.
SchemaOf(r) == FoldLeft(After, Legacy, FlattenSeq(SubSeq(Upgrades, 1, r)))

\* What the ORM classes Entry and WaitingTime declare (app/models).
Models ==
  [entries |->
     [columns |-> NotNull("uuid", {"uuid"}) \cup Null("varchar50", {"branch_id", "camera_id"})
                  \cup Null("timestamp", {"entry_time", "exit_time"})
                  \cup Null("integer", {"entry_count", "exit_count"})
                  \cup Null("varchar20", {"age_class", "enter_emotion", "exit_emotion"})
                  \cup Null("varchar10", {"gender"})
                  \cup Null("numeric", {"gender_conf", "enter_emotion_conf",
                                        "exit_emotion_conf", "face_match_score"})
                  \cup Null("text", {"entry_face_box", "entry_face_vector",
                                     "exit_face_box", "exit_face_vector"}),
      indexes |-> {"branch_id", "camera_id", "entry_time", "entry_count",
                   "exit_time", "exit_count"}],
   waiting_times |->
     [columns |-> NotNull("uuid", {"uuid"}) \cup Null("integer", {"id", "entry_frame", "exit_frame"})
                  \cup Null("varchar20", {"entry_time", "exit_time", "duration"})
                  \cup Null("numeric", {"duration_s"}),
      indexes |-> {}]]

\* The version says what the schema is, whatever upgrades, downgrades, errors and
\* interruptions led to it: each downgrade undoes its upgrade to the last column and
\* index, a command that does not come to its end changes nothing, and at the newest
\* revision the tables are those of the ORM classes.
SchemaOfRevision ==
  /\ tables = IF fresh THEN NoTables ELSE SchemaOf(revision)
  /\ revision = Len(Upgrades) => tables = Models

\* A migration fails only in the scripts of the first revision: on a database without the
\* tables of the time before, or on a customer_flow with rows, to which both directions
\* add columns that are NOT NULL (857b83581644 lines 41, 58 and 73-76).  Every other
\* script can be run at any time, with rows in all tables and clients writing.
OnlyTheFirstFails ==
  \A f \in failed : {f.from, f.to} = {0, 1} /\ (fresh \/ "customer_flow" \in f.rows)
=====================================================================================
