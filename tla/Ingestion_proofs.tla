---------------------------- MODULE Ingestion_proofs ----------------------------
(***************************************************************************)
(* Theorems about module Ingestion, for every set of streams, detections   *)
(* and messages, every pool size and every choice of faults: first what    *)
(* the operators of module DetectionService return, then the inductive     *)
(* invariant and what follows from it, then the refinement of module       *)
(* DetectionStore; then two theorems about the row a stream has loaded     *)
(* while other streams go on, that streams never all wait for each other,  *)
(* what a commit is to the readers of the table, and at the end what can   *)
(* be said of answers, notifications and events without fairness.          *)
(***************************************************************************)
EXTENDS IngestionInvariant, FiniteSetTheorems, TLAPS

----------------------------------------------------------------------------
(* What the operators of module DetectionService return and preserve, for every *)
(* message and every row.                                                        *)

\* A set field is never NULL nor Empty: the two sentinels are outside Values.
LEMMA FieldFacts ==
  ASSUME NEW m \in CustomerFlow, NEW c \in Columns
  PROVE  /\ m[c] \in Values \cup {Empty}
         /\ m[c] # NULL
         /\ m[c] # Empty => m[c] \in Values
BY ValuesAssumption DEF CustomerFlow

\* A row has a value or NULL in every column, never protobuf's default.
LEMMA ColumnFacts ==
  ASSUME NEW r \in Row, NEW c \in Columns
  PROVE  r[c] \in Values \cup {NULL} /\ r[c] # Empty
BY ValuesAssumption DEF Row

\* A complete row is a patch that leaves no column out.
LEMMA RowIsPatch == Row \subseteq Patch
BY DEF Row, Patch

\* The row created for a message holds the message's fields, and NULL where the
\* message has none (OrNone) or where the handler drops what it has.
LEMMA CreatedRow ==
  ASSUME NEW m \in CustomerFlow
  PROVE  /\ CreateEntryOnly(m) \in Row /\ CreateCompleteEntry(m) \in Row
         /\ \A c \in Columns :
              /\ CreateEntryOnly(m)[c] \in {NULL, m[c]}
              /\ CreateCompleteEntry(m)[c] \in {NULL, m[c]}
              /\ m[c] # Empty => CreateCompleteEntry(m)[c] # NULL
              /\ c \in EntryColumns /\ m[c] # Empty => CreateEntryOnly(m)[c] # NULL
BY ValuesAssumption, FieldFacts DEF CreateEntryOnly, CreateCompleteEntry, OrNone, Row

\* The assignments to a loaded row: a column takes the message's field or is left,
\* and every column the message is responsible for takes its non-empty field.
LEMMA AppliedRow ==
  ASSUME NEW row \in Row, NEW m \in CustomerFlow
  PROVE  /\ Applied(row, m) \in Row
         /\ \A c \in Columns :
              /\ Applied(row, m)[c] = row[c] \/ (m[c] # Empty /\ Applied(row, m)[c] = m[c])
              /\ (c \in ExitColumns \/ ~ExitOnly(m)) /\ m[c] # Empty => Applied(row, m)[c] = m[c]
<1>1. ASSUME NEW r \in Row
      PROVE  ApplyExitData(r, m) \in Row /\ ApplyEntryData(r, m) \in Row
  BY FieldFacts, ColumnFacts DEF ApplyExitData, ApplyEntryData, Row
<1>2. EntryColumns \cap ExitColumns = {} /\ Columns = EntryColumns \cup ExitColumns
  BY DEF EntryColumns, ExitColumns, Columns
<1>3. CASE ExitOnly(m)
  BY <1>1, <1>2, <1>3 DEF Applied, ApplyExitData
<1>4. CASE ~ExitOnly(m)
  <2>1. Applied(row, m) = ApplyExitData(ApplyEntryData(row, m), m)
    BY <1>4 DEF Applied
  <2> QED BY <1>1, <1>2, <1>4, <2>1 DEF ApplyExitData, ApplyEntryData
<1> QED BY <1>3, <1>4

\* The UPDATE after an Applied: fields of the message only, and a column that is left
\* out had the value already.
LEMMA ChangedPatch ==
  ASSUME NEW row \in Row, NEW m \in CustomerFlow
  PROVE  LET p == ChangedColumns(row, Applied(row, m)) IN
         /\ p \in Patch
         /\ \A c \in Columns :
              /\ p[c] \in {Empty, m[c]}
              /\ (c \in ExitColumns \/ ~ExitOnly(m)) /\ m[c] # Empty =>
                   p[c] # Empty \/ row[c] # NULL
<1> DEFINE after == Applied(row, m)
           p == ChangedColumns(row, after)
<1>1. after \in Row
  BY AppliedRow
<1>2. \A c \in Columns : p[c] = IF after[c] # row[c] THEN after[c] ELSE Empty
  BY DEF ChangedColumns
<1>3. p \in Patch
  BY <1>1, ColumnFacts DEF ChangedColumns, Patch
<1>4. ASSUME NEW c \in Columns PROVE p[c] \in {Empty, m[c]}
  BY <1>2, AppliedRow
<1>5. ASSUME NEW c \in Columns, c \in ExitColumns \/ ~ExitOnly(m), m[c] # Empty
      PROVE  p[c] # Empty \/ row[c] # NULL
  BY <1>2, <1>5, AppliedRow, FieldFacts
<1> HIDE DEF p
<1>6. /\ p \in Patch
      /\ \A c \in Columns :
           /\ p[c] \in {Empty, m[c]}
           /\ (c \in ExitColumns \/ ~ExitOnly(m)) /\ m[c] # Empty => p[c] # Empty \/ row[c] # NULL
  BY <1>3, <1>4, <1>5
<1> QED BY <1>6 DEF p

\* Merging a patch into a row gives a row; merging a complete row gives that row.
LEMMA MergedRow ==
  ASSUME NEW old, NEW patch \in Patch, old \in Row \/ patch \in Row
  PROVE  /\ Merge(old, patch) \in Row
         /\ \A c \in Columns :
              Merge(old, patch)[c] = IF patch[c] # Empty THEN patch[c] ELSE old[c]
         /\ patch \in Row => Merge(old, patch) = patch
<1>1. \A c \in Columns : patch[c] \in Values \cup {NULL, Empty}
  BY DEF Patch
<1>2. \A c \in Columns : Merge(old, patch)[c] = IF patch[c] # Empty THEN patch[c] ELSE old[c]
  BY DEF Merge
<1>3. CASE patch \in Row
  <2>1. Merge(old, patch) = [c \in Columns |-> patch[c]]
    BY <1>3, ColumnFacts DEF Merge
  <2> QED BY <1>2, <1>3, <2>1 DEF Row
<1>4. CASE old \in Row
  <2>1. Merge(old, patch) \in Row
    BY <1>1, <1>4, ColumnFacts DEF Merge, Row
  <2> QED BY <1>2, <1>3, <2>1, <1>4
<1> QED BY <1>3, <1>4

\* What LookupCount is asked with is a field that is set.
LEMMA LookupFacts ==
  ASSUME NEW m \in CustomerFlow
  PROVE  /\ LookupCount(m) \in Values \cup {Empty}
         /\ LookupCount(m) # Empty => ~EntryOnly(m)
         /\ ExitOnly(m) \/ Complete(m) => ~EntryOnly(m)
<1>1. {"exit_count", "entry_count"} \subseteq Columns
  BY DEF Columns, EntryColumns, ExitColumns
<1> QED BY <1>1, FieldFacts DEF LookupCount, EntryOnly, ExitOnly, Complete

----------------------------------------------------------------------------
(* The inductive invariant. *)

\* What is known of the message a busy coroutine has received.
LEMMA ReceivedMessage ==
  ASSUME TypeOK, WorkInv, NEW s \in Streams, pc[s] # "idle"
  PROVE  /\ cur[s] \in Detections
         /\ Received(s) \in CustomerFlow \cup {WaitingSession, NoPayload}
BY DEF TypeOK, WorkInv, Received, Message

\* A committed transaction keeps the tables well formed: an insert brings a complete
\* row and an update finds one.
LEMMA TakeEffectType ==
  ASSUME TypeOK, WorkInv, LoadInv, TxInv, NEW s \in Streams, pc[s] = "flushed", TakeEffect(s)
  PROVE  /\ rows' \in [Detections -> Row \cup {NoRow}]
         /\ waiting' \subseteq Detections
         /\ stored' \subseteq Detections
         /\ home' \in [Detections -> Detections \cup {None}]
         /\ delivered' \subseteq Detections
<1>1. cur[s] \in Detections /\ tx[s] \in Write /\ found[s] \in Detections \cup {None}
  BY ReceivedMessage DEF TypeOK
<1>2. CASE tx[s].table = "entries"
  <2>1. tx[s].uuid \in Detections /\ (rows[tx[s].uuid] \in Row \/ tx[s].cols \in Row)
    <3>1. Inserts(s) \/ Updates(s)
      BY <1>2 DEF TxInv, TxOf, WaitingInsert, NoWrite
    <3>2. CASE Inserts(s)
      BY <3>2, <1>1 DEF Inserts
    <3>3. CASE Updates(s)
      BY <3>3, <1>1, <1>2 DEF Updates, NoWrite, LoadInv, LoadOf, TypeOK
    <3> QED BY <3>1, <3>2, <3>3
  <2>2. tx[s].cols \in Patch
    BY <1>1 DEF Write
  <2>3. Merge(rows[tx[s].uuid], tx[s].cols) \in Row
    BY <2>1, <2>2, MergedRow
  <2> QED BY <1>1, <1>2, <2>1, <2>3 DEF TakeEffect, TypeOK
<1>3. CASE tx[s].table # "entries"
  BY <1>1, <1>3 DEF TakeEffect, TypeOK
<1> QED BY <1>2, <1>3

\* The writes a transaction can hold are well formed.
LEMMA WriteTypes ==
  /\ NoWrite \in Write
  /\ WaitingInsert \in Write
  /\ \A u \in Detections, p \in Patch : EntryWrite(u, p) \in Write
<1>1. [c \in Columns |-> Empty] \in Patch
  BY DEF Patch
<1> QED BY <1>1 DEF NoWrite, WaitingInsert, EntryWrite, Write

\* Connect takes a connection for a stream and one of its sessions.
LEMMA ConnectType ==
  ASSUME TypeOK, NEW s \in Streams, NEW session \in Sessions, Connect(s, session)
  PROVE  conns' \subseteq Streams \X Sessions
BY DEF TypeOK, Connect

\* Every step keeps the state well formed: one step per group of actions that touch
\* the same variables.
LEMMA TypeStep ==
  ASSUME TypeOK, WorkInv, LoadInv, TxInv, [Next]_vars
  PROVE  TypeOK'
<1> USE DEF Goto
<1>1. ASSUME NEW s \in Streams, NEW d \in Detections, Receive(s, d) PROVE TypeOK'
  BY <1>1, IngestionAssumption DEF Receive, TypeOK, States, store
<1>2. ASSUME NEW s \in Streams, Refuse(s) PROVE TypeOK'
  BY <1>2 DEF Refuse, TypeOK, States, store, work
<1>3. ASSUME NEW s \in Streams, InsertEntryOnly(s) PROVE TypeOK'
  <2>1. EntryWrite(cur[s], CreateEntryOnly(Received(s))) \in Write
    BY <1>3, ReceivedMessage, CreatedRow, RowIsPatch, WriteTypes DEF InsertEntryOnly
  <2> QED BY <1>3, <2>1 DEF InsertEntryOnly, Flush, Connect, TypeOK, States, store, work, Sessions
<1>4. ASSUME NEW s \in Streams, InsertWaitingTime(s) PROVE TypeOK'
  BY <1>4, WriteTypes
     DEF InsertWaitingTime, Flush, Connect, TypeOK, States, store, work, Sessions
<1>5. ASSUME NEW s \in Streams, FindEntry(s) PROVE TypeOK'
  <2>1. /\ found' \in [Streams -> Detections \cup {None}]
        /\ base' \in [Streams -> Row \cup {NoRow}]
    BY <1>5 DEF FindEntry, FindEntryByCount, TypeOK
  <2>2. conns' \subseteq Streams \X Sessions
    BY <1>5, ConnectType DEF FindEntry, Sessions
  <2> QED BY <1>5, <2>1, <2>2 DEF FindEntry, TypeOK, States, store
<1>6. ASSUME NEW s \in Streams, RefuseLoaded(s) PROVE TypeOK'
  BY <1>6, WriteTypes
     DEF RefuseLoaded, EndTransaction, Released, TypeOK, States, store, work
<1>7. ASSUME NEW s \in Streams, UpdateEntry(s) PROVE TypeOK'
  <2>1. found[s] \in Detections /\ base[s] \in Row /\ Received(s) \in CustomerFlow
    BY <1>7 DEF UpdateEntry, LoadInv, LoadOf, TypeOK
  <2>2. ChangedColumns(base[s], Applied(base[s], Received(s))) \in Patch
    BY <2>1, ChangedPatch
  <2>3. PICK write \in Write : Flush(s, write)
    BY <1>7, <2>1, <2>2, WriteTypes DEF UpdateEntry
  <2>4. pc' \in [Streams -> States]
    BY <1>7 DEF UpdateEntry, TypeOK, States
  <2>5. conns' \subseteq Streams \X Sessions
    BY <2>3, ConnectType DEF Flush, Sessions
  <2> QED BY <2>3, <2>4, <2>5 DEF Flush, TypeOK, store, work
<1>8. ASSUME NEW s \in Streams, InsertComplete(s) PROVE TypeOK'
  <2>1. pc[s] # "idle" /\ Received(s) \in CustomerFlow
    BY <1>8 DEF InsertComplete, LoadInv, LoadOf
  <2>2. EntryWrite(cur[s], CreateCompleteEntry(Received(s))) \in Write
    BY <2>1, ReceivedMessage, CreatedRow, RowIsPatch, WriteTypes
  <2> QED BY <1>8, <2>2 DEF InsertComplete, Flush, Connect, TypeOK, States, store, work, Sessions
<1>9. ASSUME NEW s \in Streams, Commit(s) PROVE TypeOK'
  BY <1>9, TakeEffectType, WriteTypes
     DEF Commit, EndTransaction, Released, TypeOK, States, work
<1>10. ASSUME NEW s \in Streams, MetricsFirst(s) PROVE TypeOK'
  <2>1. event[s] \in View /\ [event[s] EXCEPT !.first = stored] \in View
    BY DEF TypeOK, View
  <2>2. event' \in [Streams -> View]
    BY <1>10, <2>1 DEF MetricsFirst, TypeOK
  <2> QED BY <1>10, <2>2 DEF MetricsFirst, Connect, TypeOK, States, store, work, Sessions
<1>11. ASSUME NEW s \in Streams, MetricsRest(s) PROVE TypeOK'
  BY <1>11 DEF MetricsRest, TypeOK, States, store, work, View
<1>12. ASSUME NEW s \in Streams, Publish(s) PROVE TypeOK'
  <2>1. [stream |-> s, of |-> cur[s], first |-> event[s].first, last |-> event[s].last] \in Event
    BY <1>12, ReceivedMessage DEF Publish, TypeOK, View, Event
  <2> QED BY <1>12, <2>1 DEF Publish, TypeOK, States, store, work
<1>13. ASSUME NEW s \in Streams, Notify(s) PROVE TypeOK'
  BY <1>13, ReceivedMessage
     DEF Notify, Connect, TypeOK, States, store, work, Sessions
<1>14. ASSUME NEW s \in Streams, CloseSession(s) PROVE TypeOK'
  BY <1>14, WriteTypes DEF CloseSession, EndTransaction, Released, TypeOK, States, store, work
<1>15. ASSUME NEW s \in Streams, Acknowledge(s) PROVE TypeOK'
  BY <1>15 DEF Acknowledge, Forget, TypeOK, States, store, View
<1>16. ASSUME NEW s \in Streams, DatabaseError(s) PROVE TypeOK'
  BY <1>16, WriteTypes DEF DatabaseError, EndTransaction, Released, TypeOK, States, store, work
<1>17. ASSUME NEW s \in Streams, CommitUnknown(s) PROVE TypeOK'
  BY <1>17, TakeEffectType, ReceivedMessage, WriteTypes
     DEF CommitUnknown, EndTransaction, Released, TypeOK, States, work
<1>18. ASSUME NEW s \in Streams, MetricsError(s) PROVE TypeOK'
  BY <1>18 DEF MetricsError, TypeOK, States, store, work
<1>19. ASSUME NEW s \in Streams, PublishError(s) \/ NotifyError(s) PROVE TypeOK'
  BY <1>19 DEF PublishError, NotifyError, TypeOK, States, store, work
<1>20. ASSUME NEW s \in Streams, CloseError(s) PROVE TypeOK'
  BY <1>20, ReceivedMessage, WriteTypes
     DEF CloseError, EndTransaction, Released, TypeOK, States, work
<1>21. ASSUME NEW s \in Streams, Cancel(s) PROVE TypeOK'
  BY <1>21, WriteTypes DEF Cancel, EndTransaction, Released, Forget, TypeOK, States, store, View
<1>22. CASE Crash
  BY <1>22, WriteTypes DEF Crash, TypeOK, States, store, View
<1>23. CASE UNCHANGED vars
  BY <1>23 DEF vars, TypeOK
<1> QED
  BY <1>1, <1>2, <1>3, <1>4, <1>5, <1>6, <1>7, <1>8, <1>9, <1>10, <1>11, <1>12, <1>13,
     <1>14, <1>15, <1>16, <1>17, <1>18, <1>19, <1>20, <1>21, <1>22, <1>23
     DEF Next, Progress, Failure

----------------------------------------------------------------------------
(* WorkInv. *)

\* A step that only moves one busy coroutine along its side of the commit.
LEMMA WorkMoves ==
  ASSUME TypeOK, WorkInv, NEW s \in Streams, NEW to \in States \ {"idle"},
         pc[s] # "idle", pc' = [pc EXCEPT ![s] = to],
         to \in BeforeCommit => pc[s] \in BeforeCommit,
         to \in AfterCommit => pc[s] \in AfterCommit,
         UNCHANGED <<cur, msg, acks, stored>>
  PROVE  WorkInv'
BY DEF WorkInv, TypeOK

\* No step gives two coroutines one detection, or lets a detection be answered and
\* still be worked on.
LEMMA WorkStep ==
  ASSUME TypeOK, WorkInv, HistoryInv, [Next]_vars
  PROVE  WorkInv'
<1> USE DEF Goto
<1>1. ASSUME NEW s \in Streams, NEW d \in Detections, Receive(s, d) PROVE WorkInv'
  <2>1. cur[s] = None /\ d # None /\ \A t \in Streams : cur[t] # d
    BY <1>1, IngestionAssumption DEF Receive, WorkInv, TypeOK
  <2>2. d \notin stored /\ acks[d] = "none"
    BY <1>1 DEF Receive, HistoryInv
  <2>3. PICK m \in Messages : msg' = [msg EXCEPT ![d] = m]
    BY <1>1 DEF Receive
  <2>4. m # NoMessage
    BY IngestionAssumption
  <2>5. /\ pc' = [pc EXCEPT ![s] = "process"] /\ pc[s] = "idle"
        /\ cur' = [cur EXCEPT ![s] = d]
        /\ UNCHANGED <<acks, stored>>
    BY <1>1 DEF Receive, store
  <2> QED BY <2>1, <2>2, <2>3, <2>4, <2>5 DEF WorkInv, TypeOK, BeforeCommit, AfterCommit
<1>2. ASSUME NEW s \in Streams,
             \/ Refuse(s) \/ InsertEntryOnly(s) \/ InsertWaitingTime(s) \/ FindEntry(s)
             \/ RefuseLoaded(s) \/ UpdateEntry(s) \/ InsertComplete(s) \/ DatabaseError(s)
      PROVE  WorkInv'
  <2>1. PICK to \in {"loaded", "flushed", "ack_fail"} :
          pc[s] \in {"process", "loaded", "flushed"} /\ pc' = [pc EXCEPT ![s] = to]
    BY <1>2 DEF Refuse, InsertEntryOnly, InsertWaitingTime, FindEntry, RefuseLoaded,
                UpdateEntry, InsertComplete, DatabaseError
  <2>2. UNCHANGED <<cur, msg, acks, stored>>
    BY <1>2 DEF Refuse, InsertEntryOnly, InsertWaitingTime, FindEntry, RefuseLoaded,
                UpdateEntry, InsertComplete, DatabaseError, Flush, store, work
  <2> QED BY <2>1, <2>2, WorkMoves DEF BeforeCommit, AfterCommit, States
<1>3. ASSUME NEW s \in Streams, Commit(s) \/ CommitUnknown(s) PROVE WorkInv'
  <2>1. PICK to \in {"metrics", "ack_fail"} :
          pc[s] = "flushed" /\ pc' = [pc EXCEPT ![s] = to]
    BY <1>3 DEF Commit, CommitUnknown
  <2>2. stored' = stored \cup {cur[s]} /\ UNCHANGED <<cur, msg, acks>>
    BY <1>3 DEF Commit, CommitUnknown, TakeEffect, work
  <2>3. cur[s] # None /\ \A t \in Streams : t # s => cur[t] # cur[s]
    BY <2>1 DEF WorkInv
  <2> QED BY <2>1, <2>2, <2>3 DEF WorkInv, TypeOK, BeforeCommit, AfterCommit
<1>4. ASSUME NEW s \in Streams,
             \/ MetricsFirst(s) \/ MetricsRest(s) \/ Publish(s) \/ Notify(s) \/ CloseSession(s)
             \/ MetricsError(s) \/ PublishError(s) \/ NotifyError(s) \/ CloseError(s)
      PROVE  WorkInv'
  <2>1. PICK to \in {"metrics_rest", "publish", "notify", "close", "ack_ok", "ack_fail"} :
          pc[s] \in AfterCommit /\ pc' = [pc EXCEPT ![s] = to]
    BY <1>4 DEF MetricsFirst, MetricsRest, Publish, Notify, CloseSession, MetricsError,
                PublishError, NotifyError, CloseError, AfterCommit
  <2>2. UNCHANGED <<cur, msg, acks, stored>>
    BY <1>4 DEF MetricsFirst, MetricsRest, Publish, Notify, CloseSession, MetricsError,
                PublishError, NotifyError, CloseError, store, work
  <2> QED BY <2>1, <2>2, WorkMoves DEF BeforeCommit, AfterCommit, States
<1>5. ASSUME NEW s \in Streams, Acknowledge(s) PROVE WorkInv'
  <2>1. cur[s] \in Detections /\ \A t \in Streams : t # s => cur[t] # cur[s]
    BY <1>5, ReceivedMessage DEF Acknowledge, WorkInv
  <2>2. PICK a : acks' = [acks EXCEPT ![cur[s]] = a]
    BY <1>5 DEF Acknowledge
  <2>3. /\ pc' = [pc EXCEPT ![s] = "idle"] /\ cur' = [cur EXCEPT ![s] = None]
        /\ UNCHANGED <<msg, stored>>
    BY <1>5 DEF Acknowledge, Forget, store
  <2> QED BY <2>1, <2>2, <2>3 DEF WorkInv, TypeOK, BeforeCommit, AfterCommit
<1>6. ASSUME NEW s \in Streams, Cancel(s) PROVE WorkInv'
  <2>1. /\ pc' = [pc EXCEPT ![s] = "idle"] /\ cur' = [cur EXCEPT ![s] = None]
        /\ UNCHANGED <<msg, acks, stored>>
    BY <1>6 DEF Cancel, Forget, store
  <2> QED BY <2>1 DEF WorkInv, TypeOK, BeforeCommit, AfterCommit
<1>7. CASE Crash
  BY <1>7 DEF Crash, WorkInv, TypeOK, BeforeCommit, AfterCommit, store
<1>8. CASE UNCHANGED vars
  BY <1>8 DEF vars, WorkInv
<1> QED
  BY <1>1, <1>2, <1>3, <1>4, <1>5, <1>6, <1>7, <1>8 DEF Next, Progress, Failure

----------------------------------------------------------------------------
(* What a committed transaction does to the tables. *)

StepKeeps ==
  \A u \in Detections : rows[u] # NoRow =>
    /\ rows'[u] # NoRow
    /\ \A c \in Columns : rows[u][c] # NULL => rows'[u][c] # NULL

\* A committed insert fills an empty place with what its message says.
LEMMA CommitOfInsert ==
  ASSUME TypeOK, WorkInv, HistoryInv, NEW s \in Streams, pc[s] = "flushed", Inserts(s),
         TakeEffect(s), UNCHANGED <<cur, found, msg>>
  PROVE  /\ rows' = [rows EXCEPT ![cur[s]] = tx[s].cols]
         /\ rows[cur[s]] = NoRow
         /\ Visible(cur[s])'
<1>1. cur[s] \in Detections /\ cur[s] \notin stored
  BY ReceivedMessage DEF WorkInv, BeforeCommit
<1>2. rows[cur[s]] = NoRow
  BY <1>1 DEF HistoryInv
<1>3. tx[s].cols \in Row /\ tx[s].cols \in Patch
  BY RowIsPatch DEF Inserts
<1>4. rows' = [rows EXCEPT ![cur[s]] = tx[s].cols]
  BY <1>3, MergedRow DEF TakeEffect, Inserts
<1>5. rows'[cur[s]] = tx[s].cols /\ home'[cur[s]] = cur[s]
  BY <1>1, <1>4 DEF TakeEffect, Inserts, TypeOK
<1>6. msg[cur[s]] # WaitingSession
  BY MessageAssumption DEF Inserts, Received
<1>7. tx[s].cols # NoRow /\ cur[s] # None
  BY <1>1, <1>3, IngestionAssumption
<1>8. Recorded(msg[cur[s]]) \subseteq Columns
  BY DEF Recorded, Columns
<1>9. Visible(cur[s])'
  BY <1>5, <1>6, <1>7, <1>8 DEF Visible, Inserts, Received
<1> QED BY <1>2, <1>4, <1>9

\* A committed update fills columns of a row that is there and empties none, though the
\* row may have changed since it was loaded.
LEMMA CommitOfUpdate ==
  ASSUME TypeOK, WorkInv, HistoryInv, LoadInv, NEW s \in Streams, pc[s] = "flushed",
         Updates(s), TakeEffect(s), UNCHANGED <<cur, found, msg>>
  PROVE  /\ \A u \in Detections : rows[u] = NoRow <=> rows'[u] = NoRow
         /\ StepKeeps
         /\ Visible(cur[s])'
<1> DEFINE f == found[s]
           m == Received(s)
<1>1. /\ cur[s] \in Detections /\ f \in Detections /\ rows[f] \in Row
      /\ m \in CustomerFlow /\ tx[s].cols \in Patch
  BY ReceivedMessage DEF Updates, LoadInv, LoadOf, TypeOK, Write
<1>2. /\ \A u \in Detections \ {f} : rows'[u] = rows[u]
      /\ rows'[f] \in Row
      /\ \A c \in Columns :
           rows'[f][c] = IF tx[s].cols[c] # Empty THEN tx[s].cols[c] ELSE rows[f][c]
  <2>1. CASE tx[s] = NoWrite
    BY <1>1, <2>1 DEF TakeEffect, NoWrite
  <2>2. CASE tx[s].table = "entries" /\ tx[s].uuid = f
    <3>1. rows' = [rows EXCEPT ![f] = Merge(rows[f], tx[s].cols)]
      BY <2>2 DEF TakeEffect
    <3>2. /\ Merge(rows[f], tx[s].cols) \in Row
          /\ \A c \in Columns : Merge(rows[f], tx[s].cols)[c] =
               IF tx[s].cols[c] # Empty THEN tx[s].cols[c] ELSE rows[f][c]
      BY <1>1, MergedRow
    <3>3. rows'[f] = Merge(rows[f], tx[s].cols) /\ \A u \in Detections \ {f} : rows'[u] = rows[u]
      BY <1>1, <3>1 DEF TypeOK
    <3> QED BY <3>2, <3>3
  <2> QED BY <2>1, <2>2 DEF Updates
<1>3. rows[f] # NoRow /\ rows'[f] # NoRow
  BY <1>1, <1>2, IngestionAssumption
<1>4. \A c \in Columns : tx[s].cols[c] # Empty => tx[s].cols[c] # NULL
  BY <1>1, FieldFacts DEF Updates
<1>5. \A u \in Detections : rows[u] = NoRow <=> rows'[u] = NoRow
  BY <1>2, <1>3
<1>6. StepKeeps
  BY <1>2, <1>3, <1>4 DEF StepKeeps
<1>7. home'[cur[s]] = f /\ f # None /\ m # WaitingSession
  BY <1>1, MessageAssumption, IngestionAssumption DEF TakeEffect, Updates, TypeOK
<1>8. ASSUME NEW c \in Recorded(m), m[c] # Empty PROVE rows'[f][c] # NULL
  <2>1. c \in Columns /\ (tx[s].cols[c] # Empty \/ base[s][c] # NULL)
    BY <1>8 DEF Updates, Recorded, Columns
  <2>2. base[s][c] # NULL => rows[f][c] # NULL
    BY <2>1 DEF LoadInv, LoadOf, Updates
  <2> QED BY <1>2, <1>4, <2>1, <2>2
<1>9. m = msg'[cur'[s]] /\ cur'[s] = cur[s]
  BY DEF Received
<1>10. Visible(cur[s])'
  BY <1>3, <1>7, <1>8, <1>9 DEF Visible
<1> QED BY <1>5, <1>6, <1>10

\* The three kinds of transaction: nothing recorded is erased, only the row of the
\* detection itself can appear, and the detection leaves its mark.
LEMMA CommitEffect ==
  ASSUME TypeOK, WorkInv, HistoryInv, LoadInv, TxInv, NEW s \in Streams, pc[s] = "flushed",
         TakeEffect(s), UNCHANGED <<cur, found, msg>>
  PROVE  /\ \A u \in Detections : rows'[u] # NoRow => rows[u] # NoRow \/ u = cur[s]
         /\ StepKeeps
         /\ Visible(cur[s])'
<1>1. CASE tx[s] = WaitingInsert /\ Received(s) = WaitingSession
  BY <1>1 DEF TakeEffect, WaitingInsert, NoWrite, StepKeeps, Visible, Received
<1>2. CASE Inserts(s)
  <2>1. /\ rows' = [rows EXCEPT ![cur[s]] = tx[s].cols] /\ rows[cur[s]] = NoRow
        /\ Visible(cur[s])'
    BY <1>2, CommitOfInsert
  <2>2. \A u \in Detections : u # cur[s] => rows'[u] = rows[u]
    BY <2>1 DEF TypeOK
  <2> QED BY <2>1, <2>2 DEF StepKeeps
<1>3. CASE Updates(s)
  BY <1>3, CommitOfUpdate
<1> QED BY <1>1, <1>2, <1>3 DEF TxInv, TxOf

\* Every step leaves the tables alone or commits one transaction.
LEMMA StoreSteps ==
  ASSUME [Next]_vars
  PROVE  \/ UNCHANGED <<rows, waiting, stored, home>>
         \/ \E s \in Streams : /\ pc[s] = "flushed" /\ TakeEffect(s)
                               /\ UNCHANGED <<cur, found, base, msg, acks>>
<1>1. ASSUME NEW s \in Streams, Commit(s) \/ CommitUnknown(s)
      PROVE  /\ pc[s] = "flushed" /\ TakeEffect(s)
             /\ UNCHANGED <<cur, found, base, msg, acks>>
  BY <1>1 DEF Commit, CommitUnknown, Goto, work
<1>2. ASSUME NEW s \in Streams,
             \/ \E d \in Detections : Receive(s, d)
             \/ Refuse(s) \/ InsertEntryOnly(s) \/ InsertWaitingTime(s) \/ FindEntry(s)
             \/ RefuseLoaded(s) \/ UpdateEntry(s) \/ InsertComplete(s) \/ DatabaseError(s)
             \/ MetricsFirst(s) \/ MetricsRest(s) \/ Publish(s) \/ Notify(s) \/ CloseSession(s)
             \/ MetricsError(s) \/ PublishError(s) \/ NotifyError(s) \/ CloseError(s)
             \/ Acknowledge(s) \/ Cancel(s)
      PROVE  UNCHANGED <<rows, waiting, stored, home>>
  BY <1>2 DEF Receive, Refuse, InsertEntryOnly, InsertWaitingTime, FindEntry, RefuseLoaded,
              UpdateEntry, InsertComplete, DatabaseError, Flush, MetricsFirst, MetricsRest,
              Publish, Notify, CloseSession, MetricsError, PublishError, NotifyError,
              CloseError, Acknowledge, Cancel, store
<1>3. CASE Crash \/ UNCHANGED vars
  BY <1>3 DEF Crash, vars, store
<1> QED BY <1>1, <1>2, <1>3 DEF Next, Progress, Failure

\* Every step but a receive and an answer leaves the messages and the answers alone.
LEMMA AnswerSteps ==
  ASSUME [Next]_vars
  PROVE  \/ UNCHANGED <<msg, acks>>
         \/ \E s \in Streams, d \in Detections : Receive(s, d)
         \/ \E s \in Streams : Acknowledge(s)
<1>1. ASSUME NEW s \in Streams,
             \/ Refuse(s) \/ InsertEntryOnly(s) \/ InsertWaitingTime(s) \/ FindEntry(s)
             \/ RefuseLoaded(s) \/ UpdateEntry(s) \/ InsertComplete(s) \/ DatabaseError(s)
             \/ Commit(s) \/ CommitUnknown(s)
             \/ MetricsFirst(s) \/ MetricsRest(s) \/ Publish(s) \/ Notify(s) \/ CloseSession(s)
             \/ MetricsError(s) \/ PublishError(s) \/ NotifyError(s) \/ CloseError(s)
             \/ Cancel(s)
      PROVE  UNCHANGED <<msg, acks>>
  BY <1>1 DEF Refuse, InsertEntryOnly, InsertWaitingTime, FindEntry, RefuseLoaded,
              UpdateEntry, InsertComplete, DatabaseError, Flush, Commit, CommitUnknown,
              MetricsFirst, MetricsRest, Publish, Notify, CloseSession, MetricsError,
              PublishError, NotifyError, CloseError, Cancel
<1>2. CASE Crash \/ UNCHANGED vars
  BY <1>2 DEF Crash, vars
<1> QED BY <1>1, <1>2 DEF Next, Progress, Failure

----------------------------------------------------------------------------
(* HistoryInv. *)

\* A mark that was left stays, whatever a later transaction does.
LEMMA VisibleStays ==
  ASSUME TypeOK, StepKeeps, NEW d \in Detections, Visible(d), waiting \subseteq waiting',
         home'[d] = home[d], msg'[d] = msg[d]
  PROVE  Visible(d)'
<1>1. Recorded(msg[d]) \subseteq Columns
  BY DEF Recorded, Columns
<1>2. home[d] \in Detections \cup {None}
  BY DEF TypeOK
<1> QED BY <1>1, <1>2 DEF Visible, StepKeeps

\* No step makes a stored detection invisible or stores one that was not received.
LEMMA HistoryStep ==
  ASSUME TypeOK, WorkInv, HistoryInv, LoadInv, TxInv, [Next]_vars
  PROVE  HistoryInv'
<1>1. ASSUME NEW s \in Streams, pc[s] = "flushed", TakeEffect(s),
             UNCHANGED <<cur, found, msg, acks>>
      PROVE  HistoryInv'
  <2>1. /\ \A u \in Detections : rows'[u] # NoRow => rows[u] # NoRow \/ u = cur[s]
        /\ StepKeeps
        /\ Visible(cur[s])'
    BY <1>1, CommitEffect
  <2>2. /\ cur[s] \in Detections /\ msg[cur[s]] # NoMessage
        /\ stored' = stored \cup {cur[s]}
    BY <1>1, ReceivedMessage DEF WorkInv, TakeEffect
  <2>3. ASSUME NEW d \in Detections, d \in stored' PROVE Visible(d)'
    <3>1. CASE d = cur[s]
      BY <2>1, <3>1, <1>1
    <3>2. CASE d # cur[s]
      <4>1. /\ Visible(d) /\ waiting \subseteq waiting' /\ home'[d] = home[d]
            /\ msg'[d] = msg[d]
        BY <1>1, <2>2, <2>3, <3>2 DEF HistoryInv, TakeEffect, TypeOK
      <4> QED BY <2>1, <4>1, VisibleStays
    <3> QED BY <3>1, <3>2
  <2> QED BY <1>1, <2>1, <2>2, <2>3 DEF HistoryInv
<1>2. ASSUME UNCHANGED <<rows, waiting, stored, home>>,
             NEW s \in Streams, NEW d \in Detections, Receive(s, d)
      PROVE  HistoryInv'
  <2>1. PICK m \in Messages : msg[d] = NoMessage /\ msg' = [msg EXCEPT ![d] = m]
    BY <1>2 DEF Receive
  <2>2. acks' = acks
    BY <1>2 DEF Receive
  <2>3. ASSUME NEW e \in Detections, e \in stored' PROVE Visible(e)'
    <3>1. e \in stored /\ e # d
      BY <1>2, <2>1, <2>3 DEF HistoryInv
    <3>2. Visible(e) /\ msg'[e] = msg[e]
      BY <2>1, <3>1 DEF HistoryInv, TypeOK
    <3> QED BY <1>2, <3>2 DEF Visible
  <2>4. ASSUME NEW e \in Detections
        PROVE  /\ msg'[e] \in Messages \cup {NoMessage}
               /\ msg'[e] = NoMessage => msg[e] = NoMessage
    BY <2>1, IngestionAssumption DEF HistoryInv, TypeOK
  <2> QED BY <1>2, <2>2, <2>3, <2>4 DEF HistoryInv
<1>3. ASSUME UNCHANGED <<rows, waiting, stored, home>>, NEW s \in Streams, Acknowledge(s)
      PROVE  HistoryInv'
  <2>1. /\ msg' = msg /\ cur[s] \in Detections /\ msg[cur[s]] # NoMessage
        /\ acks' = [acks EXCEPT ![cur[s]] = IF pc[s] = "ack_ok" THEN "ok" ELSE "fail"]
    BY <1>3, ReceivedMessage DEF Acknowledge, Goto, WorkInv
  <2>2. pc[s] = "ack_ok" => cur[s] \in stored
    BY DEF WorkInv, AfterCommit
  <2>3. \A d \in Detections : Visible(d)' = Visible(d)
    BY <1>3, <2>1 DEF Visible
  <2> QED BY <1>3, <2>1, <2>2, <2>3 DEF HistoryInv, TypeOK
<1>4. CASE UNCHANGED <<rows, waiting, stored, home>> /\ UNCHANGED <<msg, acks>>
  <2>1. \A d \in Detections : Visible(d)' = Visible(d)
    BY <1>4 DEF Visible
  <2> QED BY <1>4, <2>1 DEF HistoryInv
<1> QED BY <1>1, <1>2, <1>3, <1>4, StoreSteps, AnswerSteps

----------------------------------------------------------------------------
(* LoadInv and TxInv. *)

\* The locals of a coroutine and the message it works on.
Untouched(t) ==
  /\ pc'[t] = pc[t] /\ cur'[t] = cur[t] /\ found'[t] = found[t]
  /\ base'[t] = base[t] /\ tx'[t] = tx[t]
  /\ cur[t] # None => msg'[cur[t]] = msg[cur[t]]

\* One coroutine moves at a time, and touches the locals of no other.
LEMMA OneMoves ==
  ASSUME TypeOK, WorkInv, NEW s \in Streams, NEW t \in Streams, t # s,
         (\E d \in Detections : Receive(s, d)) \/ Progress(s) \/ Failure(s)
  PROVE  Untouched(t)
<1> USE DEF Goto
<1>1. ASSUME NEW d \in Detections, Receive(s, d) PROVE Untouched(t)
  <2>1. cur[t] # None => cur[t] # d
    BY <1>1 DEF Receive, WorkInv
  <2> QED BY <1>1, <2>1 DEF Receive, Untouched, TypeOK
<1>2. CASE \/ Refuse(s) \/ InsertEntryOnly(s) \/ InsertWaitingTime(s)
           \/ RefuseLoaded(s) \/ UpdateEntry(s) \/ InsertComplete(s) \/ DatabaseError(s)
  BY <1>2 DEF Refuse, InsertEntryOnly, InsertWaitingTime, RefuseLoaded, UpdateEntry,
              InsertComplete, DatabaseError, Flush, EndTransaction, work, Untouched, TypeOK
<1>3. CASE FindEntry(s)
  BY <1>3 DEF FindEntry, Untouched, TypeOK
<1>4. CASE Commit(s) \/ CommitUnknown(s) \/ CloseSession(s) \/ CloseError(s)
  BY <1>4 DEF Commit, CommitUnknown, CloseSession, CloseError, EndTransaction, work,
              Untouched, TypeOK
<1>5. CASE \/ MetricsFirst(s) \/ MetricsRest(s) \/ Publish(s) \/ Notify(s)
           \/ MetricsError(s) \/ PublishError(s) \/ NotifyError(s)
  BY <1>5 DEF MetricsFirst, MetricsRest, Publish, Notify, MetricsError, PublishError,
              NotifyError, work, Untouched, TypeOK
<1>6. CASE Acknowledge(s) \/ Cancel(s)
  BY <1>6 DEF Acknowledge, Cancel, EndTransaction, Forget, Untouched, TypeOK
<1> QED BY <1>1, <1>2, <1>3, <1>4, <1>5, <1>6 DEF Progress, Failure

\* No step erases anything.
LEMMA EveryStepKeeps ==
  ASSUME TypeOK, WorkInv, HistoryInv, LoadInv, TxInv, [Next]_vars
  PROVE  StepKeeps
<1>1. CASE UNCHANGED rows
  BY <1>1 DEF StepKeeps
<1> QED BY <1>1, StoreSteps, CommitEffect

\* What a coroutine that does not move knows stays true.
LEMMA UntouchedStays ==
  ASSUME TypeOK, StepKeeps, NEW t \in Streams, Untouched(t), LoadOf(t), TxOf(t),
         pc[t] = "idle" <=> cur[t] = None
  PROVE  LoadOf(t)' /\ TxOf(t)'
<1>1. found[t] \in Detections \cup {None}
  BY DEF TypeOK
<1>2. cur[t] # None => Received(t)' = Received(t)
  BY DEF Untouched, Received
<1>3. LoadOf(t)'
  <2>1. CASE cur[t] = None
    BY <2>1 DEF LoadOf, Untouched
  <2>2. CASE cur[t] # None
    BY <1>1, <1>2, <2>2 DEF LoadOf, Untouched, StepKeeps
  <2> QED BY <2>1, <2>2
<1>4. TxOf(t)'
  <2>1. CASE cur[t] = None
    BY <2>1 DEF TxOf, Untouched
  <2>2. CASE cur[t] # None
    BY <1>2, <2>2 DEF TxOf, Inserts, Updates, Untouched
  <2> QED BY <2>1, <2>2
<1> QED BY <1>3, <1>4

\* A coroutine that goes on without touching its session or its locals.
LEMMA MovesOn ==
  ASSUME TypeOK, StepKeeps, NEW s \in Streams, NEW to \in States,
         pc' = [pc EXCEPT ![s] = to], to \notin {"idle", "process", "loaded", "flushed"},
         UNCHANGED <<cur, found, base, msg>>, LoadOf(s), tx'[s] = NoWrite
  PROVE  LoadOf(s)' /\ TxOf(s)'
<1>1. found[s] \in Detections \cup {None} /\ pc'[s] = to /\ Received(s)' = Received(s)
  BY DEF TypeOK, Received
<1> QED BY <1>1 DEF LoadOf, TxOf, StepKeeps

\* The coroutine that moves keeps what LoadOf and TxOf say of it.
LEMMA MoverStays ==
  ASSUME TypeOK, WorkInv, HistoryInv, LoadInv, TxInv, StepKeeps, NEW s \in Streams,
         (\E d \in Detections : Receive(s, d)) \/ Progress(s) \/ Failure(s)
  PROVE  LoadOf(s)' /\ TxOf(s)'
<1> USE DEF Goto
<1>0. /\ LoadOf(s) /\ TxOf(s)
      /\ pc[s] \in States /\ tx[s] \in Write /\ found[s] \in Detections \cup {None}
      /\ {"process", "loaded", "flushed", "metrics", "metrics_rest", "publish", "notify",
          "close", "ack_ok", "ack_fail"} \subseteq States
  BY DEF LoadInv, TxInv, TypeOK, States
<1>1. ASSUME NEW d \in Detections, Receive(s, d) PROVE LoadOf(s)' /\ TxOf(s)'
  <2>1. pc'[s] = "process" /\ found'[s] = None /\ tx'[s] = NoWrite
    BY <1>0, <1>1 DEF Receive, LoadOf, TxOf, TypeOK
  <2> QED BY <2>1 DEF LoadOf, TxOf
<1>2. CASE Refuse(s)
  <2>1. tx'[s] = NoWrite
    BY <1>0, <1>2 DEF Refuse, TxOf
  <2> QED BY <1>0, <1>2, <2>1, MovesOn DEF Refuse, work
<1>3. CASE InsertEntryOnly(s)
  <2>1. /\ found[s] = None /\ UNCHANGED <<cur, found, base, msg, rows>>
        /\ pc'[s] = "flushed" /\ Received(s) \in CustomerFlow /\ EntryOnly(Received(s))
        /\ tx'[s] = EntryWrite(cur[s], CreateEntryOnly(Received(s)))
    BY <1>0, <1>3 DEF InsertEntryOnly, Flush, LoadOf, work, store, TypeOK
  <2>2. Recorded(Received(s)) = EntryColumns /\ EntryColumns \subseteq Columns
    BY <2>1 DEF Recorded, Columns
  <2>3. Inserts(s)'
    BY <2>1, <2>2, CreatedRow DEF Inserts, EntryWrite, Received
  <2> QED BY <2>1, <2>3 DEF LoadOf, TxOf
<1>4. CASE InsertWaitingTime(s)
  <2>1. /\ found[s] = None /\ UNCHANGED <<cur, found, base, msg, rows>>
        /\ pc'[s] = "flushed" /\ Received(s) = WaitingSession /\ tx'[s] = WaitingInsert
    BY <1>0, <1>4 DEF InsertWaitingTime, Flush, LoadOf, work, store, TypeOK
  <2> QED BY <2>1 DEF LoadOf, TxOf, Received
<1>5. CASE FindEntry(s)
  <2>1. /\ UNCHANGED <<cur, msg, rows, tx>> /\ pc'[s] = "loaded" /\ found[s] = None
        /\ Received(s) \in CustomerFlow /\ ~EntryOnly(Received(s))
    BY <1>0, <1>5, LookupFacts DEF FindEntry, LoadOf, store, TypeOK
  <2>2. found'[s] # None => base'[s] = rows[found'[s]] /\ base'[s] \in Row
    BY <1>5, <2>1 DEF FindEntry, FindEntryByCount, TypeOK
  <2>3. tx'[s] = NoWrite
    BY <1>0, <1>5, <2>1 DEF FindEntry, TxOf
  <2>4. base'[s] \in Row => base'[s] # NoRow
    BY IngestionAssumption
  <2> QED BY <2>1, <2>2, <2>3, <2>4 DEF LoadOf, TxOf, Received
<1>6. CASE RefuseLoaded(s) \/ DatabaseError(s)
  <2>1. /\ tx'[s] = NoWrite /\ UNCHANGED <<cur, found, base, msg>>
        /\ pc' = [pc EXCEPT ![s] = "ack_fail"]
    BY <1>6 DEF RefuseLoaded, DatabaseError, EndTransaction, work, TypeOK
  <2> QED BY <1>0, <2>1, MovesOn
<1>7. CASE UpdateEntry(s)
  <2> DEFINE m == Received(s)
             after == Applied(base[s], m)
             patch == ChangedColumns(base[s], after)
  <2>1. /\ pc[s] = "loaded" /\ pc'[s] = "flushed" /\ found[s] # None
        /\ UNCHANGED <<cur, found, base, msg, rows>>
        /\ tx'[s] = IF after = base[s] THEN NoWrite ELSE EntryWrite(found[s], patch)
    BY <1>7 DEF UpdateEntry, Flush, work, store, TypeOK
  <2>2. base[s] \in Row /\ m \in CustomerFlow /\ ~EntryOnly(m)
    BY <1>0, <2>1 DEF LoadOf
  <2>3. /\ \A c \in Columns : patch[c] \in {Empty, m[c]}
        /\ \A c \in Columns : (c \in ExitColumns \/ ~ExitOnly(m)) /\ m[c] # Empty =>
             patch[c] # Empty \/ base[s][c] # NULL
    BY <2>2, ChangedPatch
  <2>4. Recorded(m) = IF ExitOnly(m) THEN ExitColumns ELSE Columns
    BY <2>2 DEF Recorded
  <2>5. after = base[s] => \A c \in Columns : patch[c] = Empty
    BY DEF ChangedColumns
  <2>6. \A c \in Columns : tx'[s].cols[c] = patch[c]
    BY <2>1, <2>5 DEF NoWrite, EntryWrite
  <2>7. tx'[s] = NoWrite \/ (tx'[s].table = "entries" /\ tx'[s].uuid = found[s])
    BY <2>1 DEF EntryWrite
  <2>8. ExitColumns \subseteq Columns
    BY DEF Columns
  <2>9. m' = m
    BY <2>1 DEF Received
  <2> HIDE DEF patch, after, m
  <2>10. /\ \A c \in Columns : tx'[s].cols[c] \in {Empty, m[c]}
         /\ \A c \in Recorded(m) : m[c] # Empty => tx'[s].cols[c] # Empty \/ base[s][c] # NULL
    BY <2>3, <2>4, <2>6, <2>8
  <2>11. Updates(s)'
    BY <2>1, <2>7, <2>9, <2>10 DEF Updates, m
  <2>12. LoadOf(s)'
    BY <1>0, <2>1, <2>9 DEF LoadOf, m
  <2> QED BY <2>1, <2>11, <2>12 DEF TxOf
<1>8. CASE InsertComplete(s)
  <2>1. /\ found[s] = None /\ UNCHANGED <<cur, found, base, msg, rows>>
        /\ pc'[s] = "flushed" /\ Received(s) \in CustomerFlow /\ Complete(Received(s))
        /\ tx'[s] = EntryWrite(cur[s], CreateCompleteEntry(Received(s)))
    BY <1>0, <1>8 DEF InsertComplete, Flush, LoadOf, work, store, TypeOK
  <2>2. Recorded(Received(s)) \subseteq Columns
    BY DEF Recorded, Columns
  <2>3. Inserts(s)'
    BY <2>1, <2>2, CreatedRow DEF Inserts, EntryWrite, Received
  <2> QED BY <2>1, <2>3 DEF LoadOf, TxOf
<1>9. CASE Commit(s) \/ CommitUnknown(s) \/ CloseSession(s) \/ CloseError(s)
  <2>1. PICK to \in {"metrics", "ack_ok", "ack_fail"} : pc' = [pc EXCEPT ![s] = to]
    BY <1>9 DEF Commit, CommitUnknown, CloseSession, CloseError
  <2>2. tx'[s] = NoWrite /\ UNCHANGED <<cur, found, base, msg>>
    BY <1>9 DEF Commit, CommitUnknown, CloseSession, CloseError, EndTransaction, work, TypeOK
  <2> QED BY <1>0, <2>1, <2>2, MovesOn
<1>10. CASE \/ MetricsFirst(s) \/ MetricsRest(s) \/ Publish(s) \/ Notify(s)
            \/ MetricsError(s) \/ PublishError(s) \/ NotifyError(s)
  <2>1. PICK to \in {"metrics_rest", "publish", "notify", "close"} :
          pc' = [pc EXCEPT ![s] = to]
    BY <1>10 DEF MetricsFirst, MetricsRest, Publish, Notify, MetricsError, PublishError,
                 NotifyError
  <2>2. pc[s] # "flushed" /\ UNCHANGED <<cur, found, base, msg, tx>>
    BY <1>10 DEF MetricsFirst, MetricsRest, Publish, Notify, MetricsError, PublishError,
                 NotifyError, work
  <2>3. tx'[s] = NoWrite
    BY <1>0, <2>2 DEF TxOf
  <2> QED BY <1>0, <2>1, <2>2, <2>3, MovesOn
<1>11. CASE Acknowledge(s)
  <2>1. pc'[s] = "idle" /\ found'[s] = None /\ tx'[s] = NoWrite
    BY <1>0, <1>11 DEF Acknowledge, Forget, TxOf, TypeOK
  <2> QED BY <2>1 DEF LoadOf, TxOf
<1>12. CASE Cancel(s)
  <2>1. pc'[s] = "idle" /\ found'[s] = None /\ tx'[s] = NoWrite
    BY <1>12 DEF Cancel, Forget, EndTransaction, TypeOK
  <2> QED BY <2>1 DEF LoadOf, TxOf
<1> QED
  BY <1>1, <1>2, <1>3, <1>4, <1>5, <1>6, <1>7, <1>8, <1>9, <1>10, <1>11, <1>12
     DEF Progress, Failure

\* LoadInv and TxInv are kept: by the coroutine that moves and by those that wait.
LEMMA LocalStep ==
  ASSUME TypeOK, WorkInv, HistoryInv, LoadInv, TxInv, [Next]_vars
  PROVE  LoadInv' /\ TxInv'
<1>1. StepKeeps
  BY EveryStepKeeps
<1>2. ASSUME NEW s \in Streams,
             (\E d \in Detections : Receive(s, d)) \/ Progress(s) \/ Failure(s)
      PROVE  LoadInv' /\ TxInv'
  <2>1. LoadOf(s)' /\ TxOf(s)'
    BY <1>1, <1>2, MoverStays
  <2>2. ASSUME NEW t \in Streams, t # s PROVE LoadOf(t)' /\ TxOf(t)'
    <3>1. LoadOf(t) /\ TxOf(t) /\ (pc[t] = "idle" <=> cur[t] = None)
      BY DEF LoadInv, TxInv, WorkInv
    <3>2. Untouched(t)
      BY <1>2, <2>2, OneMoves
    <3> QED BY <1>1, <3>1, <3>2, UntouchedStays
  <2> QED BY <2>1, <2>2 DEF LoadInv, TxInv
<1>3. CASE Crash
  BY <1>3 DEF Crash, LoadInv, TxInv, LoadOf, TxOf
<1>4. CASE UNCHANGED vars
  <2>1. ASSUME NEW t \in Streams PROVE LoadOf(t)' /\ TxOf(t)'
    <3>1. LoadOf(t) /\ TxOf(t) /\ (pc[t] = "idle" <=> cur[t] = None)
      BY DEF LoadInv, TxInv, WorkInv
    <3>2. Untouched(t)
      BY <1>4 DEF vars, Untouched
    <3> QED BY <1>1, <3>1, <3>2, UntouchedStays
  <2> QED BY <2>1 DEF LoadInv, TxInv
<1> QED BY <1>2, <1>3, <1>4 DEF Next

----------------------------------------------------------------------------
(* ConnInv: the pool connections. *)

\* ConnInv is kept by a move of s that takes no connection it must not have.
LEMMA ConnMoves ==
  ASSUME TypeOK, ConnInv, NEW s \in Streams, NEW to, pc' = [pc EXCEPT ![s] = to],
         \A t \in Streams \ {s}, k \in Sessions : <<t, k>> \in conns' => <<t, k>> \in conns,
         <<s, "ingest">> \in conns' => to \in {"loaded", "flushed", "close"},
         <<s, "metrics">> \in conns' => to = "metrics_rest"
  PROVE  ConnInv'
BY DEF ConnInv, TypeOK, Sessions

\* Every step keeps each stream's connections within the awaits that need them.
LEMMA ConnStep ==
  ASSUME TypeOK, ConnInv, [Next]_vars
  PROVE  ConnInv'
<1> USE DEF Goto
<1>1. ASSUME NEW s \in Streams,
             \/ \E d \in Detections : Receive(s, d)
             \/ Refuse(s) \/ Publish(s) \/ PublishError(s) \/ NotifyError(s) \/ Acknowledge(s)
      PROVE  ConnInv'
  <2>1. /\ pc[s] \in {"idle", "process", "publish", "notify", "ack_ok", "ack_fail"}
        /\ UNCHANGED conns
    BY <1>1 DEF Receive, Refuse, Publish, PublishError, NotifyError, Acknowledge
  <2>2. PICK to : pc' = [pc EXCEPT ![s] = to]
    BY <1>1 DEF Receive, Refuse, Publish, PublishError, NotifyError, Acknowledge
  <2>3. <<s, "ingest">> \notin conns' /\ <<s, "metrics">> \notin conns'
    BY <2>1 DEF ConnInv
  <2> QED BY <2>1, <2>2, <2>3, ConnMoves
<1>2. ASSUME NEW s \in Streams,
             \/ InsertEntryOnly(s) \/ InsertWaitingTime(s) \/ FindEntry(s) \/ UpdateEntry(s)
             \/ InsertComplete(s) \/ Notify(s)
      PROVE  ConnInv'
  <2>1. /\ pc[s] \in {"process", "loaded", "notify"}
        /\ conns' = conns \cup {<<s, "ingest">>}
    BY <1>2 DEF InsertEntryOnly, InsertWaitingTime, FindEntry, UpdateEntry, InsertComplete,
                Notify, Flush, Connect
  <2>2. PICK to \in {"loaded", "flushed", "close"} : pc' = [pc EXCEPT ![s] = to]
    BY <1>2 DEF InsertEntryOnly, InsertWaitingTime, FindEntry, UpdateEntry, InsertComplete,
                Notify
  <2>3. <<s, "metrics">> \notin conns'
    BY <2>1 DEF ConnInv
  <2> QED BY <2>1, <2>2, <2>3, ConnMoves
<1>3. ASSUME NEW s \in Streams,
             \/ RefuseLoaded(s) \/ DatabaseError(s) \/ Commit(s) \/ CommitUnknown(s)
             \/ CloseSession(s) \/ CloseError(s) \/ Cancel(s)
      PROVE  ConnInv'
  <2>1. conns' = conns \ ({s} \X Sessions)
    BY <1>3 DEF RefuseLoaded, DatabaseError, Commit, CommitUnknown, CloseSession, CloseError,
                Cancel, EndTransaction, Released
  <2>2. PICK to : pc' = [pc EXCEPT ![s] = to]
    BY <1>3 DEF RefuseLoaded, DatabaseError, Commit, CommitUnknown, CloseSession, CloseError,
                Cancel
  <2>3. <<s, "ingest">> \notin conns' /\ <<s, "metrics">> \notin conns'
    BY <2>1 DEF Sessions
  <2> QED BY <2>1, <2>2, <2>3, ConnMoves
<1>4. ASSUME NEW s \in Streams, MetricsFirst(s) PROVE ConnInv'
  <2>1. /\ pc[s] = "metrics" /\ pc' = [pc EXCEPT ![s] = "metrics_rest"]
        /\ conns' = conns \cup {<<s, "metrics">>}
    BY <1>4 DEF MetricsFirst, Connect
  <2>2. <<s, "ingest">> \notin conns'
    BY <2>1 DEF ConnInv
  <2> QED BY <2>1, <2>2, ConnMoves
<1>5. ASSUME NEW s \in Streams, MetricsRest(s) \/ MetricsError(s) PROVE ConnInv'
  <2>1. /\ pc[s] \in {"metrics", "metrics_rest"} /\ conns' = conns \ {<<s, "metrics">>}
    BY <1>5 DEF MetricsRest, MetricsError
  <2>2. PICK to : pc' = [pc EXCEPT ![s] = to]
    BY <1>5 DEF MetricsRest, MetricsError
  <2>3. <<s, "ingest">> \notin conns' /\ <<s, "metrics">> \notin conns'
    BY <2>1 DEF ConnInv
  <2> QED BY <2>1, <2>2, <2>3, ConnMoves
<1>6. CASE Crash
  BY <1>6 DEF Crash, ConnInv
<1>7. CASE UNCHANGED vars
  BY <1>7 DEF vars, ConnInv
<1> QED BY <1>1, <1>2, <1>3, <1>4, <1>5, <1>6, <1>7 DEF Next, Progress, Failure

----------------------------------------------------------------------------
(* EventInv: what was seen and what was answered. *)

\* A step that publishes and answers nothing, and widens no open outcome.
LEMMA EventMoves ==
  ASSUME TypeOK, EventInv, NEW s \in Streams, NEW to, pc' = [pc EXCEPT ![s] = to],
         UNCHANGED <<cur, channel, acks>>, doubt \subseteq doubt',
         \A t \in Streams \ {s} : event'[t] = event[t],
         \A d \in Detections : d \in stored' => d \in stored \/ d \in doubt' \/ acks[d] = "none",
         \A t \in Streams \ {s} : cur[t] \in stored' => cur[t] \in stored,
         to \in {"metrics_rest", "publish"} => cur[s] \in event'[s].first,
         to = "ack_fail" => cur[s] \notin stored' \/ cur[s] \in doubt'
  PROVE  EventInv'
BY DEF EventInv, EventReflectsOwnCommit, NackedIsNotStored, TypeOK

\* Every step keeps what the metrics queries saw and how open outcomes are remembered.
LEMMA EventStep ==
  ASSUME TypeOK, WorkInv, EventInv, [Next]_vars
  PROVE  EventInv'
<1> USE DEF Goto
<1>1. ASSUME NEW s \in Streams, NEW d \in Detections, Receive(s, d) PROVE EventInv'
  BY <1>1 DEF Receive, EventInv, EventReflectsOwnCommit, NackedIsNotStored, TypeOK, store
<1>2. ASSUME NEW s \in Streams,
             \/ Refuse(s) \/ InsertEntryOnly(s) \/ InsertWaitingTime(s) \/ FindEntry(s)
             \/ RefuseLoaded(s) \/ UpdateEntry(s) \/ InsertComplete(s) \/ DatabaseError(s)
      PROVE  EventInv'
  <2>1. PICK to \in {"loaded", "flushed", "ack_fail"} :
          pc[s] \in BeforeCommit /\ pc' = [pc EXCEPT ![s] = to]
    BY <1>2 DEF Refuse, InsertEntryOnly, InsertWaitingTime, FindEntry, RefuseLoaded,
                UpdateEntry, InsertComplete, DatabaseError, BeforeCommit
  <2>2. UNCHANGED <<cur, event, channel, acks, stored, doubt>>
    BY <1>2 DEF Refuse, InsertEntryOnly, InsertWaitingTime, FindEntry, RefuseLoaded,
                UpdateEntry, InsertComplete, DatabaseError, Flush, store, work
  <2>3. cur[s] \notin stored
    BY <2>1 DEF WorkInv
  <2> QED BY <2>1, <2>2, <2>3, EventMoves
<1>3. ASSUME NEW s \in Streams, Commit(s) \/ CommitUnknown(s) PROVE EventInv'
  <2>1. /\ stored' = stored \cup {cur[s]} /\ UNCHANGED <<cur, event, channel, acks>>
        /\ doubt \subseteq doubt'
    BY <1>3 DEF Commit, CommitUnknown, TakeEffect, work
  <2>2. PICK to \in {"metrics", "ack_fail"} :
          /\ pc[s] = "flushed" /\ pc' = [pc EXCEPT ![s] = to]
          /\ to = "ack_fail" => cur[s] \in doubt'
    BY <1>3 DEF Commit, CommitUnknown
  <2>3. /\ cur[s] \in Detections /\ acks[cur[s]] = "none"
        /\ \A t \in Streams \ {s} : cur[t] # cur[s]
    BY <2>2, ReceivedMessage DEF WorkInv
  <2> QED BY <2>1, <2>2, <2>3, EventMoves
<1>4. ASSUME NEW s \in Streams, MetricsFirst(s) PROVE EventInv'
  <2>1. event'[s].first = stored /\ \A t \in Streams \ {s} : event'[t] = event[t]
    BY <1>4 DEF MetricsFirst, TypeOK, View
  <2>2. cur[s] \in stored
    BY <1>4 DEF MetricsFirst, WorkInv, AfterCommit
  <2> QED BY <1>4, <2>1, <2>2, EventMoves DEF MetricsFirst, store, work
<1>5. ASSUME NEW s \in Streams, MetricsRest(s) PROVE EventInv'
  <2>1. /\ event'[s].first = event[s].first
        /\ \A t \in Streams \ {s} : event'[t] = event[t]
    BY <1>5 DEF MetricsRest, TypeOK, View
  <2>2. cur[s] \in event[s].first
    BY <1>5 DEF MetricsRest, EventInv
  <2> QED BY <1>5, <2>1, <2>2, EventMoves DEF MetricsRest, store, work
<1>6. ASSUME NEW s \in Streams, Publish(s) PROVE EventInv'
  <2> DEFINE e == [stream |-> s, of |-> cur[s],
                   first |-> event[s].first, last |-> event[s].last]
  <2>1. /\ channel' = Append(channel, e) /\ pc' = [pc EXCEPT ![s] = "notify"]
        /\ UNCHANGED <<cur, event, acks, stored, doubt>>
    BY <1>6 DEF Publish, store, work
  <2>2. cur[s] \in event[s].first
    BY <1>6 DEF Publish, EventInv
  <2>3. e \in Event
    BY <1>6, ReceivedMessage DEF Publish, TypeOK, View, Event
  <2>4. ASSUME NEW i \in DOMAIN channel' PROVE channel'[i].of \in channel'[i].first
    <3>1. channel \in Seq(Event) /\ channel' \in Seq(Event)
      BY <2>1, <2>3 DEF TypeOK
    <3>2. i \in 1 .. Len(channel) + 1
      BY <2>1, <3>1
    <3>3. CASE i \in 1 .. Len(channel)
      BY <2>1, <3>1, <3>3 DEF EventInv, EventReflectsOwnCommit
    <3>4. CASE i = Len(channel) + 1
      BY <2>1, <2>2, <2>3, <3>1, <3>4
    <3> QED BY <3>2, <3>3, <3>4
  <2> QED BY <2>1, <2>4 DEF EventInv, EventReflectsOwnCommit, NackedIsNotStored, TypeOK
<1>7. ASSUME NEW s \in Streams,
             Notify(s) \/ CloseSession(s) \/ MetricsError(s) \/ PublishError(s) \/ NotifyError(s)
      PROVE  EventInv'
  <2>1. PICK to \in {"notify", "close", "ack_ok"} : pc' = [pc EXCEPT ![s] = to]
    BY <1>7 DEF Notify, CloseSession, MetricsError, PublishError, NotifyError
  <2>2. UNCHANGED <<cur, event, channel, acks, stored, doubt>>
    BY <1>7 DEF Notify, CloseSession, MetricsError, PublishError, NotifyError, store, work
  <2> QED BY <2>1, <2>2, EventMoves
<1>8. ASSUME NEW s \in Streams, CloseError(s) PROVE EventInv'
  BY <1>8, EventMoves DEF CloseError, work
<1>9. ASSUME NEW s \in Streams, Acknowledge(s) PROVE EventInv'
  <2>1. /\ pc' = [pc EXCEPT ![s] = "idle"]
        /\ acks' = [acks EXCEPT ![cur[s]] = IF pc[s] = "ack_ok" THEN "ok" ELSE "fail"]
        /\ UNCHANGED <<channel, stored, doubt>>
        /\ \A t \in Streams \ {s} : cur'[t] = cur[t] /\ event'[t] = event[t]
        /\ pc[s] \in {"ack_ok", "ack_fail"}
    BY <1>9 DEF Acknowledge, Forget, store, TypeOK
  <2>2. cur[s] \in Detections /\ (pc[s] = "ack_fail" /\ cur[s] \in stored => cur[s] \in doubt)
    BY <2>1, ReceivedMessage DEF EventInv
  <2> QED BY <2>1, <2>2 DEF EventInv, EventReflectsOwnCommit, NackedIsNotStored, TypeOK
<1>10. ASSUME NEW s \in Streams, Cancel(s) PROVE EventInv'
  <2>1. /\ pc' = [pc EXCEPT ![s] = "idle"] /\ UNCHANGED <<channel, stored, doubt, acks>>
        /\ \A t \in Streams \ {s} : cur'[t] = cur[t] /\ event'[t] = event[t]
    BY <1>10 DEF Cancel, Forget, store, TypeOK
  <2> QED BY <2>1 DEF EventInv, EventReflectsOwnCommit, NackedIsNotStored, TypeOK
<1>11. CASE Crash
  BY <1>11 DEF Crash, store, EventInv, EventReflectsOwnCommit, NackedIsNotStored
<1>12. CASE UNCHANGED vars
  BY <1>12 DEF vars, EventInv, EventReflectsOwnCommit, NackedIsNotStored
<1> QED
  BY <1>1, <1>2, <1>3, <1>4, <1>5, <1>6, <1>7, <1>8, <1>9, <1>10, <1>11, <1>12
     DEF Next, Progress, Failure

----------------------------------------------------------------------------
(* OrderInv: a stream's events never go back in time. *)

\* Every published event names the stream it comes from.
LEMMA EventStreams ==
  ASSUME TypeOK
  PROVE  \A i \in DOMAIN channel : channel[i].stream \in Streams
<1>1. channel \in Seq(Event)
  BY DEF TypeOK
<1>2. \A i \in DOMAIN channel : channel[i] \in Event
  BY <1>1
<1> QED BY <1>2 DEF Event

\* OrderInv is kept by a move of s that publishes nothing, if the metrics queries it
\* makes see everything stored so far.
LEMMA OrderMoves ==
  ASSUME TypeOK, OrderInv, NEW s \in Streams, NEW to, pc' = [pc EXCEPT ![s] = to],
         UNCHANGED channel, stored \subseteq stored',
         \A t \in Streams \ {s} : event'[t] = event[t],
         to = "metrics_rest" => event'[s].first = stored,
         to = "publish" => /\ pc[s] = "metrics_rest"
                           /\ event'[s].first = event[s].first /\ event'[s].last = stored
  PROVE  OrderInv'
<1>1. \A i \in DOMAIN channel : channel[i].stream \in Streams
  BY EventStreams
<1>2. \A t \in Streams : pc'[t] = IF t = s THEN to ELSE pc[t]
  BY DEF TypeOK
<1> QED BY <1>1, <1>2 DEF OrderInv, EventsInStreamOrder

\* The new event is the stream's last one, and its metrics came after the previous.
LEMMA OrderOfPublish ==
  ASSUME TypeOK, WorkInv, OrderInv, NEW s \in Streams, Publish(s)
  PROVE  OrderInv'
<1> USE DEF Goto
<1> DEFINE e == [stream |-> s, of |-> cur[s],
                 first |-> event[s].first, last |-> event[s].last]
           n == Len(channel)
<1>1. /\ pc[s] = "publish" /\ pc' = [pc EXCEPT ![s] = "notify"]
      /\ channel' = Append(channel, e) /\ UNCHANGED <<stored, event>>
  BY DEF Publish, store
<1>2. e \in Event
  BY <1>1, ReceivedMessage DEF TypeOK, View, Event
<1>3. channel \in Seq(Event) /\ n \in Nat /\ DOMAIN channel' = 1 .. n + 1
  BY <1>1, <1>2 DEF TypeOK
<1>4. /\ \A i \in 1 .. n : channel'[i] = channel[i] /\ i \in DOMAIN channel
      /\ channel'[n + 1] = e
  BY <1>1, <1>2, <1>3
<1>5. \A i \in 1 .. n : channel[i].stream \in Streams
  BY <1>4, EventStreams
<1>6. ASSUME NEW i \in 1 .. n + 1, NEW j \in 1 .. n + 1, i < j,
             channel'[i].stream = channel'[j].stream
      PROVE  channel'[i].last \subseteq channel'[j].first
  <2>1. i \in 1 .. n
    BY <1>3, <1>6
  <2>2. CASE j = n + 1
    BY <1>1, <1>4, <1>6, <2>1, <2>2 DEF OrderInv
  <2>3. CASE j \in 1 .. n
    BY <1>4, <1>6, <2>1, <2>3 DEF OrderInv, EventsInStreamOrder
  <2> QED BY <1>3, <2>2, <2>3
<1>7. ASSUME NEW i \in 1 .. n + 1
      PROVE  /\ channel'[i].last \subseteq stored'
             /\ pc'[channel'[i].stream] \in {"metrics_rest", "publish"} =>
                  channel'[i].last \subseteq event'[channel'[i].stream].first
  <2>1. CASE i = n + 1
    BY <1>1, <1>4, <2>1 DEF OrderInv, TypeOK
  <2>2. CASE i \in 1 .. n
    BY <1>1, <1>4, <1>5, <2>2 DEF OrderInv, TypeOK
  <2> QED BY <1>3, <2>1, <2>2
<1>8. \A t \in Streams : pc'[t] = "publish" => event'[t].last \subseteq stored'
  BY <1>1 DEF OrderInv, TypeOK
<1> QED BY <1>3, <1>6, <1>7, <1>8 DEF OrderInv, EventsInStreamOrder

\* Every step keeps the order of the events.
LEMMA OrderStep ==
  ASSUME TypeOK, WorkInv, OrderInv, [Next]_vars
  PROVE  OrderInv'
<1> USE DEF Goto
<1>1. ASSUME NEW s \in Streams,
             \/ \E d \in Detections : Receive(s, d)
             \/ Refuse(s) \/ InsertEntryOnly(s) \/ InsertWaitingTime(s) \/ FindEntry(s)
             \/ RefuseLoaded(s) \/ UpdateEntry(s) \/ InsertComplete(s) \/ DatabaseError(s)
      PROVE  OrderInv'
  <2>1. PICK to \in {"process", "loaded", "flushed", "ack_fail"} : pc' = [pc EXCEPT ![s] = to]
    BY <1>1 DEF Receive, Refuse, InsertEntryOnly, InsertWaitingTime, FindEntry, RefuseLoaded,
                UpdateEntry, InsertComplete, DatabaseError
  <2>2. UNCHANGED <<event, channel, stored>>
    BY <1>1 DEF Receive, Refuse, InsertEntryOnly, InsertWaitingTime, FindEntry, RefuseLoaded,
                UpdateEntry, InsertComplete, DatabaseError, Flush, store
  <2> QED BY <2>1, <2>2, OrderMoves
<1>2. ASSUME NEW s \in Streams, Commit(s) \/ CommitUnknown(s) PROVE OrderInv'
  <2>1. PICK to \in {"metrics", "ack_fail"} : pc' = [pc EXCEPT ![s] = to]
    BY <1>2 DEF Commit, CommitUnknown
  <2>2. stored \subseteq stored' /\ UNCHANGED <<event, channel>>
    BY <1>2 DEF Commit, CommitUnknown, TakeEffect
  <2> QED BY <2>1, <2>2, OrderMoves
<1>3. ASSUME NEW s \in Streams, MetricsFirst(s) PROVE OrderInv'
  <2>1. event'[s].first = stored /\ \A t \in Streams \ {s} : event'[t] = event[t]
    BY <1>3 DEF MetricsFirst, TypeOK, View
  <2> QED BY <1>3, <2>1, OrderMoves DEF MetricsFirst, store
<1>4. ASSUME NEW s \in Streams, MetricsRest(s) PROVE OrderInv'
  <2>1. /\ event'[s].first = event[s].first /\ event'[s].last = stored
        /\ \A t \in Streams \ {s} : event'[t] = event[t]
    BY <1>4 DEF MetricsRest, TypeOK, View
  <2> QED BY <1>4, <2>1, OrderMoves DEF MetricsRest, store
<1>5. ASSUME NEW s \in Streams,
             \/ Notify(s) \/ CloseSession(s) \/ MetricsError(s) \/ PublishError(s)
             \/ NotifyError(s) \/ CloseError(s)
      PROVE  OrderInv'
  <2>1. PICK to \in {"notify", "close", "ack_ok", "ack_fail"} : pc' = [pc EXCEPT ![s] = to]
    BY <1>5 DEF Notify, CloseSession, MetricsError, PublishError, NotifyError, CloseError
  <2>2. UNCHANGED <<event, channel, stored>>
    BY <1>5 DEF Notify, CloseSession, MetricsError, PublishError, NotifyError, CloseError, store
  <2> QED BY <2>1, <2>2, OrderMoves
<1>6. ASSUME NEW s \in Streams, Acknowledge(s) \/ Cancel(s) PROVE OrderInv'
  <2>1. /\ pc' = [pc EXCEPT ![s] = "idle"] /\ UNCHANGED <<channel, stored>>
        /\ \A t \in Streams \ {s} : event'[t] = event[t]
    BY <1>6 DEF Acknowledge, Cancel, Forget, store, TypeOK
  <2> QED BY <2>1, OrderMoves
<1>7. CASE Crash
  <2>1. \A s \in Streams : pc'[s] = "idle"
    BY <1>7 DEF Crash
  <2>2. UNCHANGED <<channel, stored>>
    BY <1>7 DEF Crash, store
  <2>3. \A i \in DOMAIN channel : channel[i].stream \in Streams
    BY EventStreams
  <2> QED BY <2>1, <2>2, <2>3 DEF OrderInv, EventsInStreamOrder
<1>8. CASE UNCHANGED vars
  BY <1>8 DEF vars, OrderInv, EventsInStreamOrder
<1> QED BY <1>1, <1>2, <1>3, <1>4, <1>5, <1>6, <1>7, <1>8, OrderOfPublish
        DEF Next, Progress, Failure

----------------------------------------------------------------------------
(* RowsComeFromStored: the provenance of every value in the table. *)

\* The row of the detection itself, or the row it found, takes fields of its message.
LEMMA CommitColumns ==
  ASSUME TypeOK, WorkInv, HistoryInv, LoadInv, TxInv, NEW s \in Streams, pc[s] = "flushed",
         TakeEffect(s), UNCHANGED <<cur, found, msg>>,
         NEW u \in Detections, rows'[u] # NoRow, NEW c \in Columns, rows'[u][c] # NULL
  PROVE  \/ rows[u] # NoRow /\ rows'[u][c] = rows[u][c]
         \/ /\ home'[cur[s]] = u /\ Received(s) \in CustomerFlow
            /\ rows'[u][c] = Received(s)[c]
<1>1. cur[s] \in Detections /\ tx[s].cols \in Patch
  BY ReceivedMessage DEF TypeOK, Write
<1>2. CASE tx[s] = WaitingInsert /\ Received(s) = WaitingSession
  BY <1>2 DEF TakeEffect, WaitingInsert, NoWrite
<1>3. CASE Inserts(s)
  <2>1. rows' = [rows EXCEPT ![cur[s]] = tx[s].cols]
    BY <1>3, CommitOfInsert
  <2>2. CASE u = cur[s]
    <3>1. rows'[u] = tx[s].cols /\ home'[cur[s]] = u
      BY <1>1, <1>3, <2>1, <2>2 DEF TakeEffect, Inserts, TypeOK
    <3> QED BY <1>3, <3>1 DEF Inserts
  <2>3. CASE u # cur[s]
    BY <1>1, <2>1, <2>3 DEF TypeOK
  <2> QED BY <2>2, <2>3
<1>4. CASE Updates(s)
  <2>1. home'[cur[s]] = found[s] /\ Received(s) \in CustomerFlow /\ found[s] \in Detections
    BY <1>1, <1>4 DEF TakeEffect, Updates, LoadInv, LoadOf, TypeOK
  <2>2. CASE tx[s] = NoWrite
    BY <2>2 DEF TakeEffect, NoWrite
  <2>3. CASE tx[s].table = "entries" /\ tx[s].uuid = found[s]
    <3>1. rows' = [rows EXCEPT ![found[s]] = Merge(rows[found[s]], tx[s].cols)]
      BY <2>3 DEF TakeEffect
    <3>2. CASE u = found[s]
      <4>1. rows[u] \in Row /\ rows[u] # NoRow
        BY <1>4, <3>2, <2>1 DEF Updates, LoadInv, LoadOf, TypeOK
      <4>2. rows'[u][c] = IF tx[s].cols[c] # Empty THEN tx[s].cols[c] ELSE rows[u][c]
        BY <1>1, <2>1, <3>1, <3>2, <4>1, MergedRow DEF TypeOK
      <4>3. tx[s].cols[c] \in {Empty, Received(s)[c]}
        BY <1>4 DEF Updates
      <4> QED BY <2>1, <3>2, <4>1, <4>2, <4>3
    <3>3. CASE u # found[s]
      BY <2>1, <3>1, <3>3 DEF TypeOK
    <3> QED BY <3>2, <3>3
  <2> QED BY <1>4, <2>2, <2>3 DEF Updates
<1> QED BY <1>2, <1>3, <1>4 DEF TxInv, TxOf

\* Every value of a row after a step was brought by a stored detection of that row.
LEMMA RowsStep ==
  ASSUME TypeOK, WorkInv, HistoryInv, LoadInv, TxInv, RowsComeFromStored, [Next]_vars
  PROVE  RowsComeFromStored'
<1>1. ASSUME NEW s \in Streams, pc[s] = "flushed", TakeEffect(s),
             UNCHANGED <<cur, found, msg, acks>>
      PROVE  RowsComeFromStored'
  <2>1. SUFFICES ASSUME NEW u \in Detections, rows'[u] # NoRow,
                        NEW c \in Columns, rows'[u][c] # NULL
                 PROVE  \E d \in stored' : /\ home'[d] = u /\ msg'[d] \in CustomerFlow
                                           /\ msg'[d][c] = rows'[u][c]
    BY DEF RowsComeFromStored
  <2>2. cur[s] \in Detections /\ cur[s] \in stored' /\ cur[s] \notin stored
    BY <1>1, ReceivedMessage DEF TakeEffect, WorkInv, BeforeCommit
  <2>3. CASE rows[u] # NoRow /\ rows'[u][c] = rows[u][c]
    <3>1. PICK d \in stored : /\ home[d] = u /\ msg[d] \in CustomerFlow
                              /\ msg[d][c] = rows[u][c]
      BY <2>1, <2>3 DEF RowsComeFromStored
    <3>2. d \in stored' /\ home'[d] = u
      BY <1>1, <2>2, <3>1 DEF TakeEffect, TypeOK
    <3> QED BY <1>1, <2>3, <3>1, <3>2
  <2>4. CASE /\ home'[cur[s]] = u /\ Received(s) \in CustomerFlow
             /\ rows'[u][c] = Received(s)[c]
    BY <1>1, <2>2, <2>4 DEF Received
  <2> QED BY <1>1, <2>1, <2>3, <2>4, CommitColumns
<1>2. CASE UNCHANGED <<rows, waiting, stored, home>>
  <2>1. \A d \in stored : msg'[d] = msg[d]
    <3>1. ASSUME NEW s \in Streams, NEW e \in Detections, Receive(s, e)
          PROVE  \A d \in stored : msg'[d] = msg[d]
      BY <3>1 DEF Receive, HistoryInv, TypeOK
    <3>2. ASSUME NEW s \in Streams, Acknowledge(s) PROVE msg' = msg
      BY <3>2 DEF Acknowledge
    <3> QED BY <3>1, <3>2, AnswerSteps
  <2> QED BY <1>2, <2>1 DEF RowsComeFromStored
<1> QED BY <1>1, <1>2, StoreSteps

----------------------------------------------------------------------------
(* The inductive invariant, and what follows from it. *)

\* The invariant holds initially.
LEMMA Initially == Init => IInv
<1>1. [first |-> {}, last |-> {}] \in View /\ <<>> \in Seq(Event)
  BY DEF View
<1> QED
  BY <1>1, WriteTypes, IngestionAssumption
     DEF Init, IInv, TypeOK, States, WorkInv, BeforeCommit, AfterCommit, HistoryInv, LoadInv,
         LoadOf, TxInv, TxOf, ConnInv, EventInv, EventReflectsOwnCommit, NackedIsNotStored,
         RowsComeFromStored, OrderInv, EventsInStreamOrder

\* The invariant is kept by every step.
LEMMA Inductive == IInv /\ [Next]_vars => IInv'
BY TypeStep, WorkStep, HistoryStep, LocalStep, ConnStep, EventStep, RowsStep, OrderStep
   DEF IInv

\* The strengthened invariant holds in every reachable state.
THEOREM Invariance == Spec => []IInv
BY Initially, Inductive, PTL DEF Spec

\* Type correctness: in particular no update ever lands on a row that is not there.
THEOREM TypeCorrect == Spec => []TypeOK
<1>1. IInv => TypeOK
  BY DEF IInv
<1> QED BY <1>1, Invariance, PTL

\* An acknowledged detection is in the database and what it reported is still there,
\* for any number of streams updating the same rows, failures, cancellations, crashes.
THEOREM AckedVisible == Spec => []AckedIsVisible
<1>1. IInv => AckedIsVisible
  BY DEF IInv, HistoryInv, AckedIsVisible
<1> QED BY <1>1, Invariance, PTL

\* Nothing is in a row but what committed detections recorded in that row brought.
THEOREM RowsTraced == Spec => []RowsComeFromStored
<1>1. IInv => RowsComeFromStored
  BY DEF IInv
<1> QED BY <1>1, Invariance, PTL

\* A rejection of a stored detection only follows an open outcome at the database.
THEOREM NackedNotStored == Spec => []NackedIsNotStored
<1>1. IInv => NackedIsNotStored
  BY DEF IInv, EventInv
<1> QED BY <1>1, Invariance, PTL

\* Every published event counts the detection it is published for.
THEOREM EventsReflectCommits == Spec => []EventReflectsOwnCommit
<1>1. IInv => EventReflectsOwnCommit
  BY DEF IInv, EventInv
<1> QED BY <1>1, Invariance, PTL

\* The dashboard events of one stream never go back in time, with any number of streams.
THEOREM EventsOrdered == Spec => []EventsInStreamOrder
<1>1. IInv => EventsInStreamOrder
  BY DEF IInv, OrderInv
<1> QED BY <1>1, Invariance, PTL

\* No stream ever holds two connections of the pool, whatever its size.
THEOREM OneConnection == Spec => []OneConnectionPerStream
<1>1. ASSUME IInv PROVE OneConnectionPerStream
  <2>1. SUFFICES ASSUME NEW s \in Streams
                 PROVE  Cardinality({p \in conns : p[1] = s}) <= 1
    BY DEF OneConnectionPerStream
  <2>2. /\ conns \subseteq Streams \X {"ingest", "metrics"}
        /\ ~(<<s, "ingest">> \in conns /\ <<s, "metrics">> \in conns)
    BY <1>1 DEF IInv, TypeOK, ConnInv, Sessions
  <2>3. \E x : {p \in conns : p[1] = s} \subseteq {x}
    <3>1. CASE <<s, "ingest">> \in conns
      <4>1. {p \in conns : p[1] = s} \subseteq {<<s, "ingest">>}
        BY <2>2, <3>1
      <4> QED BY <4>1
    <3>2. CASE <<s, "ingest">> \notin conns
      <4>1. {p \in conns : p[1] = s} \subseteq {<<s, "metrics">>}
        BY <2>2, <3>2
      <4> QED BY <4>1
    <3> QED BY <3>1, <3>2
  <2>4. PICK x : {p \in conns : p[1] = s} \subseteq {x}
    BY <2>3
  <2>5. Cardinality({x}) = 1 /\ IsFiniteSet({x})
    BY FS_Singleton
  <2>6. Cardinality({p \in conns : p[1] = s}) <= Cardinality({x})
    BY <2>4, <2>5, FS_Subset
  <2> QED BY <2>5, <2>6
<1> QED BY <1>1, Invariance, PTL

\* Rows and values are never erased by any step of any stream.
THEOREM PermanentRecords == Spec => RecordsArePermanent
<1>1. IInv /\ [Next]_vars =>
        [\A u \in Detections : rows[u] # NoRow =>
           /\ rows'[u] # NoRow
           /\ \A c \in Columns : rows[u][c] # NULL => rows'[u][c] # NULL]_vars
  BY EveryStepKeeps DEF IInv, StepKeeps
<1> QED BY <1>1, Invariance, PTL DEF Spec, RecordsArePermanent

----------------------------------------------------------------------------
(* Ingestion implements DetectionStore: a commit is a Store step, whoever runs      *)
(* between the SELECT, the flush and the commit.                                    *)

\* A commit is a Store of the abstract specification.
LEMMA CommitIsStore ==
  ASSUME IInv, NEW s \in Streams, pc[s] = "flushed", TakeEffect(s),
         UNCHANGED <<cur, found, base, msg, acks>>
  PROVE  Abstract!Store(cur[s])
<1> USE DEF IInv
<1> DEFINE m == Received(s)
<1>1. /\ cur[s] \in Detections /\ msg[cur[s]] # NoMessage /\ cur[s] \notin stored
      /\ acks[cur[s]] = "none" /\ stored' = stored \cup {cur[s]} /\ m = msg[cur[s]]
  BY ReceivedMessage DEF WorkInv, BeforeCommit, TakeEffect, Received
<1>2. Abstract!Columns = Columns /\ Abstract!CustomerFlow = CustomerFlow
  BY DEF Columns, EntryColumns, ExitColumns, CustomerFlow, Abstract!Columns,
         Abstract!EntryColumns, Abstract!ExitColumns, Abstract!CustomerFlow
<1>3. CASE tx[s].table # "entries"
  BY <1>1, <1>3 DEF Abstract!Store, TakeEffect
<1>4. CASE Inserts(s)
  <2>1. rows[cur[s]] = NoRow /\ rows' = [rows EXCEPT ![cur[s]] = tx[s].cols]
    BY <1>4, CommitOfInsert
  <2>2. m \in CustomerFlow /\ tx[s].cols \in Row
        /\ \A c \in Columns : tx[s].cols[c] \in {NULL, m[c]}
    BY <1>4 DEF Inserts
  <2> DEFINE taken == {c \in Columns : tx[s].cols[c] # NULL}
  <2>3. taken \in SUBSET {c \in Columns : m[c] # Empty}
    BY <2>2, ColumnFacts
  <2>4. tx[s].cols = [c \in Columns |-> IF c \in taken THEN m[c] ELSE Abstract!Blank[c]]
    BY <1>2, <2>2 DEF Row, Abstract!Blank
  <2>5. tx[s].cols \in Abstract!Patched(Abstract!Blank, m)
    BY <1>2, <2>3, <2>4 DEF Abstract!Patched
  <2> QED BY <1>1, <1>2, <2>1, <2>2, <2>5 DEF Abstract!Store
<1>5. CASE Updates(s) /\ tx[s].table = "entries" /\ tx[s].uuid = found[s]
  <2>1. /\ found[s] \in Detections /\ rows[found[s]] # NoRow /\ rows[found[s]] \in Row
        /\ m \in CustomerFlow
    BY <1>5 DEF Updates, LoadInv, LoadOf, TypeOK
  <2>2. /\ rows' = [rows EXCEPT ![found[s]] = Merge(rows[found[s]], tx[s].cols)]
        /\ \A c \in Columns : tx[s].cols[c] \in {Empty, m[c]}
    BY <1>5 DEF TakeEffect, Updates
  <2> DEFINE taken == {c \in Columns : tx[s].cols[c] # Empty}
             row == rows[found[s]]
  <2>3. taken \in SUBSET {c \in Columns : m[c] # Empty}
    BY <2>2
  <2>4. Merge(row, tx[s].cols) = [c \in Columns |-> IF c \in taken THEN m[c] ELSE row[c]]
    BY <2>2 DEF Merge
  <2>5. Merge(row, tx[s].cols) \in Abstract!Patched(row, m)
    BY <1>2, <2>3, <2>4 DEF Abstract!Patched
  <2> QED BY <1>1, <1>2, <2>1, <2>2, <2>5 DEF Abstract!Store
<1>6. \/ tx[s].table # "entries" \/ Inserts(s)
      \/ Updates(s) /\ tx[s].table = "entries" /\ tx[s].uuid = found[s]
  BY DEF TxInv, TxOf, Updates, WaitingInsert, NoWrite
<1> QED BY <1>3, <1>4, <1>5, <1>6

\* Every step is a step of the abstract specification or a stutter.
LEMMA StepImplements ==
  ASSUME IInv, [Next]_vars
  PROVE  [Abstract!StoreNext]_(Abstract!storeVars)
<1>1. ASSUME NEW s \in Streams, pc[s] = "flushed", TakeEffect(s),
             UNCHANGED <<cur, found, base, msg, acks>>
      PROVE  Abstract!StoreNext
  BY <1>1, CommitIsStore, ReceivedMessage DEF IInv, Abstract!StoreNext
<1>2. ASSUME UNCHANGED <<rows, waiting, stored, home>>,
             NEW s \in Streams, NEW d \in Detections, Receive(s, d)
      PROVE  Abstract!StoreNext
  BY <1>2 DEF Receive, Abstract!StoreNext, Abstract!Offer
<1>3. ASSUME UNCHANGED <<rows, waiting, stored, home>>, NEW s \in Streams, Acknowledge(s)
      PROVE  Abstract!StoreNext
  <2>1. /\ cur[s] \in Detections /\ msg[cur[s]] # NoMessage /\ acks[cur[s]] = "none"
        /\ pc[s] = "ack_ok" => cur[s] \in stored
    BY <1>3, ReceivedMessage DEF Acknowledge, Goto, IInv, WorkInv, AfterCommit
  <2>2. PICK a \in {"ok", "fail"} :
          (a = "ok" => pc[s] = "ack_ok") /\ acks' = [acks EXCEPT ![cur[s]] = a] /\ msg' = msg
    BY <1>3 DEF Acknowledge
  <2>3. Abstract!Answered(cur[s], a)
    BY <1>3, <2>1, <2>2 DEF Abstract!Answered
  <2> QED BY <2>1, <2>2, <2>3 DEF Abstract!StoreNext
<1>4. CASE UNCHANGED <<rows, waiting, stored, home>> /\ UNCHANGED <<msg, acks>>
  BY <1>4 DEF Abstract!storeVars
<1> QED BY <1>1, <1>2, <1>3, <1>4, StoreSteps, AnswerSteps

\* Whatever the interleaving and the faults, the service behaves as DetectionStore:
\* each detection takes effect at one instant, on one row, with its own fields, and
\* "ok" follows it.
THEOREM Implementation == Spec => Implements
<1>1. Init => Abstract!StoreInit
  BY DEF Init, Abstract!StoreInit
<1>2. IInv /\ [Next]_vars => [Abstract!StoreNext]_(Abstract!storeVars)
  BY StepImplements
<1> QED BY <1>1, <1>2, Invariance, PTL DEF Spec, Implements, Abstract!StoreSpec

----------------------------------------------------------------------------
(* Updates are serial column by column. *)

\* An update that waits for its commit was computed from the loaded object, whatever
\* happened to the row since.
FlushedOf(s) ==
  pc[s] = "flushed" /\ found[s] # None =>
    \A c \in Columns :
      tx[s].cols[c] = ChangedColumns(base[s], Applied(base[s], Received(s)))[c]

FlushedInv == \A s \in Streams : FlushedOf(s)

\* The coroutine that flushes an update computes it so; every other step of its own
\* leaves "flushed" or stays away from it.
LEMMA MoverFlushed ==
  ASSUME TypeOK, WorkInv, LoadInv, NEW s \in Streams,
         (\E d \in Detections : Receive(s, d)) \/ Progress(s) \/ Failure(s)
  PROVE  FlushedOf(s)'
<1> USE DEF Goto
<1>1. CASE UpdateEntry(s)
  <2> DEFINE after == Applied(base[s], Received(s))
             patch == ChangedColumns(base[s], after)
  <2>1. /\ UNCHANGED <<cur, found, base, msg>>
        /\ tx'[s] = IF after = base[s] THEN NoWrite ELSE EntryWrite(found[s], patch)
    BY <1>1 DEF UpdateEntry, Flush, work, TypeOK
  <2>2. after = base[s] => \A c \in Columns : patch[c] = Empty
    BY DEF ChangedColumns
  <2>3. \A c \in Columns : tx'[s].cols[c] = patch[c]
    BY <2>1, <2>2 DEF NoWrite, EntryWrite
  <2>4. Received(s)' = Received(s)
    BY <2>1 DEF Received
  <2> QED BY <2>1, <2>3, <2>4 DEF FlushedOf
<1>2. CASE InsertEntryOnly(s) \/ InsertWaitingTime(s) \/ InsertComplete(s)
  <2>1. found[s] = None /\ found' = found
    BY <1>2 DEF InsertEntryOnly, InsertWaitingTime, InsertComplete, Flush, work, LoadInv, LoadOf
  <2> QED BY <2>1 DEF FlushedOf
<1>3. CASE (\E d \in Detections : Receive(s, d)) \/ Refuse(s) \/ FindEntry(s) \/ RefuseLoaded(s)
           \/ DatabaseError(s) \/ Commit(s) \/ CommitUnknown(s) \/ CloseSession(s) \/ CloseError(s)
  <2>1. pc'[s] # "flushed"
    BY <1>3 DEF Receive, Refuse, FindEntry, RefuseLoaded, DatabaseError, Commit, CommitUnknown,
                CloseSession, CloseError, TypeOK
  <2> QED BY <2>1 DEF FlushedOf
<1>4. CASE \/ MetricsFirst(s) \/ MetricsRest(s) \/ Publish(s) \/ Notify(s) \/ Acknowledge(s)
           \/ MetricsError(s) \/ PublishError(s) \/ NotifyError(s) \/ Cancel(s)
  <2>1. pc'[s] # "flushed"
    BY <1>4 DEF MetricsFirst, MetricsRest, Publish, Notify, Acknowledge, MetricsError,
                PublishError, NotifyError, Cancel, TypeOK
  <2> QED BY <2>1 DEF FlushedOf
<1> QED BY <1>1, <1>2, <1>3, <1>4 DEF Progress, Failure

\* FlushedInv is kept by every step.
LEMMA FlushedStep ==
  ASSUME IInv, FlushedInv, [Next]_vars
  PROVE  FlushedInv'
<1> USE DEF IInv
<1>1. ASSUME NEW s \in Streams,
             (\E d \in Detections : Receive(s, d)) \/ Progress(s) \/ Failure(s)
      PROVE  FlushedInv'
  <2>1. SUFFICES ASSUME NEW t \in Streams PROVE FlushedOf(t)'
    BY DEF FlushedInv
  <2>2. CASE t = s
    BY <1>1, <2>2, MoverFlushed
  <2>3. CASE t # s
    <3>1. Untouched(t)
      BY <1>1, <2>3, OneMoves
    <3>2. pc[t] = "flushed" => Received(t)' = Received(t)
      BY <3>1 DEF Untouched, Received, WorkInv
    <3> QED BY <3>1, <3>2 DEF FlushedInv, FlushedOf, Untouched
  <2> QED BY <2>2, <2>3
<1>2. CASE Crash
  BY <1>2 DEF Crash, FlushedInv, FlushedOf
<1>3. CASE UNCHANGED vars
  BY <1>3 DEF vars, FlushedInv, FlushedOf, Received
<1> QED BY <1>1, <1>2, <1>3 DEF Next

\* No update is flushed at the start.
LEMMA FlushedInit == Init => FlushedInv
BY DEF Init, FlushedInv, FlushedOf

\* The commit of an update changes the columns its handler changed, and no other.
LEMMA CommitIsSerial ==
  ASSUME IInv, FlushedInv, NEW s \in Streams, pc[s] = "flushed", found[s] # None,
         TakeEffect(s), NEW c \in Columns
  PROVE  LET after == Applied(base[s], Received(s))[c]
         IN  rows'[found[s]][c] = IF after # base[s][c] THEN after ELSE rows[found[s]][c]
<1> USE DEF IInv
<1> DEFINE f == found[s]
           after == Applied(base[s], Received(s))
<1>1. /\ f \in Detections /\ rows[f] \in Row /\ base[s] \in Row
      /\ Received(s) \in CustomerFlow /\ tx[s].cols \in Patch
  BY DEF LoadInv, LoadOf, TypeOK, Write
<1>2. tx[s].cols[c] = IF after[c] # base[s][c] THEN after[c] ELSE Empty
  BY DEF FlushedInv, FlushedOf, ChangedColumns
<1>3. after[c] # Empty
  BY <1>1, AppliedRow, ColumnFacts
<1>4. rows'[f][c] = IF tx[s].cols[c] # Empty THEN tx[s].cols[c] ELSE rows[f][c]
  <2>1. CASE tx[s] = NoWrite
    BY <1>1, <2>1 DEF TakeEffect, NoWrite
  <2>2. CASE tx[s].table = "entries" /\ tx[s].uuid = f
    <3>1. rows' = [rows EXCEPT ![f] = Merge(rows[f], tx[s].cols)]
      BY <2>2 DEF TakeEffect
    <3>2. Merge(rows[f], tx[s].cols)[c] =
            IF tx[s].cols[c] # Empty THEN tx[s].cols[c] ELSE rows[f][c]
      BY DEF Merge
    <3> QED BY <1>1, <3>1, <3>2 DEF TypeOK
  <2>3. Updates(s)
    BY <1>1, MessageAssumption DEF TxInv, TxOf, Inserts
  <2> QED BY <2>1, <2>2, <2>3 DEF Updates
<1> QED BY <1>2, <1>3, <1>4

\* Concurrent updates of one row interfere column by column only: no stream ever writes
\* back a column it had loaded and not changed.
THEOREM SerialUpdates == Spec => UpdateIsSerial
<1>1. ASSUME IInv, FlushedInv, Next
      PROVE  \A s \in Streams :
               cur[s] \in stored' \ stored /\ found[s] # None =>
                 \A c \in Columns :
                   LET after == Applied(base[s], Received(s))[c]
                   IN  rows'[found[s]][c] =
                         IF after # base[s][c] THEN after ELSE rows[found[s]][c]
  <2>1. SUFFICES ASSUME NEW s \in Streams, cur[s] \in stored' \ stored, found[s] # None,
                        NEW c \in Columns
                 PROVE  LET after == Applied(base[s], Received(s))[c]
                        IN  rows'[found[s]][c] =
                              IF after # base[s][c] THEN after ELSE rows[found[s]][c]
    OBVIOUS
  <2>2. PICK t \in Streams : pc[t] = "flushed" /\ TakeEffect(t)
    BY <1>1, <2>1, StoreSteps
  <2>3. cur[s] = cur[t] /\ cur[t] # None
    BY <1>1, <2>1, <2>2 DEF TakeEffect, IInv, WorkInv
  <2>4. s = t
    BY <1>1, <2>3 DEF IInv, WorkInv
  <2> QED BY <1>1, <2>1, <2>2, <2>4, CommitIsSerial
<1>2. IInv /\ FlushedInv /\ [Next]_vars =>
        [\A s \in Streams :
           cur[s] \in stored' \ stored /\ found[s] # None =>
             \A c \in Columns :
               LET after == Applied(base[s], Received(s))[c]
               IN  rows'[found[s]][c] =
                     IF after # base[s][c] THEN after ELSE rows[found[s]][c]]_vars
  BY <1>1
<1>3. IInv /\ FlushedInv /\ [Next]_vars => FlushedInv'
  BY FlushedStep
<1> QED BY <1>2, <1>3, FlushedInit, Invariance, PTL DEF Spec, UpdateIsSerial

----------------------------------------------------------------------------
(* A message that is sent again. *)

\* The only way from "process" to "loaded" is the lookup.
LEMMA LoadedByLookup ==
  ASSUME IInv, Next, NEW s \in Streams, pc[s] = "process", pc'[s] = "loaded"
  PROVE  FindEntry(s)
<1> USE DEF Goto, IInv
<1>1. PICK t \in Streams : (\E d \in Detections : Receive(t, d)) \/ Progress(t) \/ Failure(t)
  BY DEF Next, Crash
<1>2. t = s
  BY <1>1, OneMoves DEF Untouched
<1>3. CASE (\E d \in Detections : Receive(s, d)) \/ Refuse(s) \/ InsertEntryOnly(s)
           \/ InsertWaitingTime(s) \/ RefuseLoaded(s) \/ UpdateEntry(s) \/ InsertComplete(s)
           \/ DatabaseError(s) \/ Commit(s) \/ CommitUnknown(s) \/ CloseSession(s) \/ CloseError(s)
  BY <1>3 DEF Receive, Refuse, InsertEntryOnly, InsertWaitingTime, RefuseLoaded, UpdateEntry,
              InsertComplete, DatabaseError, Commit, CommitUnknown, CloseSession, CloseError, TypeOK
<1>4. CASE \/ MetricsFirst(s) \/ MetricsRest(s) \/ Publish(s) \/ Notify(s) \/ Acknowledge(s)
           \/ MetricsError(s) \/ PublishError(s) \/ NotifyError(s) \/ Cancel(s)
  BY <1>4 DEF MetricsFirst, MetricsRest, Publish, Notify, Acknowledge, MetricsError,
              PublishError, NotifyError, Cancel, TypeOK
<1> QED BY <1>1, <1>2, <1>3, <1>4 DEF Progress, Failure

\* The row an undisputed count was recorded in answers to that count.
LEMMA RowAnswersToCount ==
  ASSUME IInv, NEW d \in stored, msg[d] \in CustomerFlow, ~ExitOnly(msg[d]),
         msg[d]["entry_count"] # Empty, CountUndisputed(d)
  PROVE  home[d] \in FindEntryByCount(rows, msg[d]["entry_count"])
<1> USE DEF IInv
<1>1. d \in Detections /\ "entry_count" \in Columns
  BY DEF TypeOK, Columns, EntryColumns
<1>2. msg[d] # WaitingSession /\ Visible(d)
  BY <1>1, MessageAssumption DEF HistoryInv
<1>3. "entry_count" \in Recorded(msg[d])
  BY DEF Recorded, Columns, EntryColumns
<1>4. /\ home[d] \in Detections /\ rows[home[d]] # NoRow
      /\ rows[home[d]]["entry_count"] # NULL
  BY <1>1, <1>2, <1>3 DEF Visible, TypeOK
<1>5. rows[home[d]] \in Row
  BY <1>4 DEF TypeOK
<1>6. PICK e \in stored : /\ home[e] = home[d] /\ msg[e] \in CustomerFlow
                          /\ msg[e]["entry_count"] = rows[home[d]]["entry_count"]
  BY <1>1, <1>4 DEF RowsComeFromStored
<1>7. msg[e]["entry_count"] # Empty
  BY <1>1, <1>5, <1>6, ColumnFacts
<1>8. rows[home[d]]["entry_count"] = msg[d]["entry_count"]
  BY <1>6, <1>7 DEF CountUndisputed
<1> QED BY <1>4, <1>5, <1>8 DEF FindEntryByCount, TypeOK

\* When a complete message comes again after its first copy was stored, the lookup finds
\* a row, with any number of other streams at work.
THEOREM ResendsFindRows == Spec => ResendFindsRow
<1>1. ASSUME IInv, Next
      PROVE  \A s \in Streams, d \in stored :
               /\ pc[s] = "process" /\ pc'[s] = "loaded"
               /\ d # cur[s] /\ msg[d] = Received(s) /\ Complete(msg[d])
               /\ msg[d]["entry_count"] # Empty /\ msg[d]["entry_count"] = msg[d]["exit_count"]
               /\ CountUndisputed(d)
               => found'[s] # None
  <2>1. SUFFICES ASSUME NEW s \in Streams, NEW d \in stored,
                        pc[s] = "process", pc'[s] = "loaded", msg[d] = Received(s),
                        Complete(msg[d]), msg[d]["entry_count"] # Empty,
                        msg[d]["entry_count"] = msg[d]["exit_count"], CountUndisputed(d)
                 PROVE  found'[s] # None
    OBVIOUS
  <2>2. FindEntry(s)
    BY <1>1, <2>1, LoadedByLookup
  <2>3. msg[d] \in CustomerFlow /\ LookupCount(msg[d]) = msg[d]["entry_count"]
    BY <2>1, <2>2 DEF FindEntry, LookupCount, Complete, ExitOnly
  <2>4. ~ExitOnly(msg[d])
    BY <2>1 DEF Complete, ExitOnly
  <2>5. home[d] \in FindEntryByCount(rows, LookupCount(Received(s)))
    BY <1>1, <2>1, <2>3, <2>4, RowAnswersToCount
  <2>6. PICK u \in FindEntryByCount(rows, LookupCount(Received(s))) :
          found' = [found EXCEPT ![s] = u]
    BY <2>2, <2>5 DEF FindEntry
  <2>7. u \in Detections /\ u # None
    BY <1>1, IngestionAssumption DEF FindEntryByCount, IInv, TypeOK
  <2> QED BY <1>1, <2>6, <2>7 DEF IInv, TypeOK
<1>2. IInv /\ [Next]_vars =>
        [\A s \in Streams, d \in stored :
           /\ pc[s] = "process" /\ pc'[s] = "loaded"
           /\ d # cur[s] /\ msg[d] = Received(s) /\ Complete(msg[d])
           /\ msg[d]["entry_count"] # Empty /\ msg[d]["entry_count"] = msg[d]["exit_count"]
           /\ CountUndisputed(d)
           => found'[s] # None]_vars
  BY <1>1
<1> QED BY <1>2, Invariance, PTL DEF Spec, ResendFindsRow

----------------------------------------------------------------------------
(* Streams that wait for connections of the pool and for rows. *)

\* HoldInv is kept by every step.
LEMMA HoldStep ==
  ASSUME TypeOK, HoldInv, [Next]_vars
  PROVE  HoldInv'
<1> USE DEF Goto
<1>1. ASSUME NEW s \in Streams, NEW to, pc' = [pc EXCEPT ![s] = to],
             \A t \in Streams \ {s} : <<t, "ingest">> \in conns => <<t, "ingest">> \in conns',
             to \in {"loaded", "flushed"} => <<s, "ingest">> \in conns'
      PROVE  HoldInv'
  BY <1>1 DEF HoldInv, TypeOK
<1>2. ASSUME NEW s \in Streams,
             \/ \E d \in Detections : Receive(s, d)
             \/ Refuse(s) \/ Publish(s) \/ PublishError(s) \/ NotifyError(s) \/ Acknowledge(s)
      PROVE  HoldInv'
  BY <1>1, <1>2 DEF Receive, Refuse, Publish, PublishError, NotifyError, Acknowledge
<1>3. ASSUME NEW s \in Streams,
             \/ InsertEntryOnly(s) \/ InsertWaitingTime(s) \/ FindEntry(s) \/ UpdateEntry(s)
             \/ InsertComplete(s) \/ Notify(s)
      PROVE  HoldInv'
  <2>1. conns' = conns \cup {<<s, "ingest">>}
    BY <1>3 DEF InsertEntryOnly, InsertWaitingTime, FindEntry, UpdateEntry, InsertComplete,
                Notify, Flush, Connect
  <2>2. PICK to : pc' = [pc EXCEPT ![s] = to]
    BY <1>3 DEF InsertEntryOnly, InsertWaitingTime, FindEntry, UpdateEntry, InsertComplete,
                Notify
  <2> QED BY <2>1, <2>2, <1>1
<1>4. ASSUME NEW s \in Streams,
             \/ RefuseLoaded(s) \/ DatabaseError(s) \/ Commit(s) \/ CommitUnknown(s)
             \/ CloseSession(s) \/ CloseError(s) \/ Cancel(s)
      PROVE  HoldInv'
  <2>1. conns' = conns \ ({s} \X Sessions)
    BY <1>4 DEF RefuseLoaded, DatabaseError, Commit, CommitUnknown, CloseSession, CloseError,
                Cancel, EndTransaction, Released
  <2>2. PICK to : pc' = [pc EXCEPT ![s] = to] /\ to \notin {"loaded", "flushed"}
    BY <1>4 DEF RefuseLoaded, DatabaseError, Commit, CommitUnknown, CloseSession, CloseError,
                Cancel
  <2> QED BY <2>1, <2>2, <1>1
<1>5. ASSUME NEW s \in Streams, MetricsFirst(s) \/ MetricsRest(s) \/ MetricsError(s)
      PROVE  HoldInv'
  <2>1. conns' \in {conns \cup {<<s, "metrics">>}, conns \ {<<s, "metrics">>}}
    BY <1>5 DEF MetricsFirst, MetricsRest, MetricsError, Connect
  <2>2. PICK to : pc' = [pc EXCEPT ![s] = to] /\ to \notin {"loaded", "flushed"}
    BY <1>5 DEF MetricsFirst, MetricsRest, MetricsError
  <2> QED BY <2>1, <2>2, <1>1
<1>6. CASE Crash
  BY <1>6 DEF Crash, HoldInv
<1>7. CASE UNCHANGED vars
  BY <1>7 DEF vars, HoldInv
<1> QED BY <1>2, <1>3, <1>4, <1>5, <1>6, <1>7 DEF Next, Progress, Failure

\* Whoever holds a row has flushed and needs nothing but its commit.
LEMMA HolderFlushed ==
  ASSUME IInv, HoldInv, NEW s \in Streams, WaitsForRow(s)
  PROVE  \E t \in Streams : pc[t] = "flushed"
<1>1. PICK t \in Streams \ {s} : tx[t].uuid = found[s]
  BY DEF WaitsForRow, LockedByOther
<1>2. tx[t] # NoWrite
  BY <1>1 DEF WaitsForRow, NoWrite
<1> QED BY <1>1, <1>2 DEF IInv, TxInv, TxOf

\* However many streams compete for however few connections and for the same rows, one of
\* those at work waits for none: who holds the last connections is about to commit, to
\* close or to read on, or waits for one that is about to commit (grpc_server.py 36-68).
THEOREM NoDeadlock == Spec => []SomeoneGoesOn
<1>1. ASSUME IInv, HoldInv PROVE SomeoneGoesOn
  <2> SUFFICES ASSUME NEW s \in Streams, pc[s] # "idle"
               PROVE  \E t \in Streams : /\ pc[t] # "idle"
                                         /\ ~WaitsForConnection(t) /\ ~WaitsForRow(t)
    BY DEF SomeoneGoesOn
  <2>1. ASSUME NEW t \in Streams, pc[t] \in {"flushed", "close", "metrics_rest"}
        PROVE  pc[t] # "idle" /\ ~WaitsForConnection(t) /\ ~WaitsForRow(t)
    BY <2>1 DEF WaitsForConnection, WaitsForRow
  <2>2. ASSUME NEW t \in Streams, pc[t] = "loaded"
        PROVE  ~WaitsForConnection(t)
    BY <1>1, <2>2 DEF WaitsForConnection, HoldInv
  <2>3. CASE \E t \in Streams : WaitsForRow(t)
    BY <1>1, <2>1, <2>3, HolderFlushed
  <2>4. CASE WaitsForConnection(s) /\ ~(\E t \in Streams : WaitsForRow(t))
    <3>1. conns # {}
      BY <2>4, FS_EmptySet, IngestionAssumption DEF WaitsForConnection
    <3>2. conns \subseteq Streams \X {"ingest", "metrics"}
      BY <1>1 DEF IInv, TypeOK, Sessions
    <3>3. PICK p \in conns : p \in Streams \X {"ingest", "metrics"}
      BY <3>1, <3>2
    <3>4. PICK t \in Streams, k \in {"ingest", "metrics"} : p = <<t, k>>
      BY <3>3
    <3>5. pc[t] \in {"loaded", "flushed", "close", "metrics_rest"}
      BY <1>1, <3>3, <3>4 DEF IInv, ConnInv
    <3> QED BY <2>1, <2>2, <2>4, <3>5
  <2> QED BY <2>3, <2>4
<1>2. Init => HoldInv
  BY DEF Init, HoldInv
<1>3. IInv /\ HoldInv /\ [Next]_vars => HoldInv'
  BY HoldStep DEF IInv
<1> QED BY <1>1, <1>2, <1>3, Invariance, PTL DEF Spec

----------------------------------------------------------------------------
(* What a commit of the ingestion is to whoever reads the entries table. *)

\* A step changes at most one row: with RecordsArePermanent, what module DashboardReport
\* supposes of the commits between its statements (its action Write).
OneRowAtATime ==
  [][\A u, v \in Detections : rows'[u] # rows[u] /\ rows'[v] # rows[v] => u = v]_vars

\* Each detection is recorded in one row, whatever its message carries
\* (detection_service.py 60-130).
THEOREM CommitsOneRow == Spec => OneRowAtATime
<1>1. ASSUME IInv, [Next]_vars
      PROVE  \A u, v \in Detections : rows'[u] # rows[u] /\ rows'[v] # rows[v] => u = v
  <2>1. CASE UNCHANGED rows
    BY <2>1
  <2>2. ASSUME NEW s \in Streams, TakeEffect(s)
        PROVE  \A u, v \in Detections : rows'[u] # rows[u] /\ rows'[v] # rows[v] => u = v
    BY <1>1, <2>2 DEF IInv, TypeOK, TakeEffect
  <2> QED BY <1>1, <2>1, <2>2, StoreSteps DEF IInv
<1>2. IInv /\ [Next]_vars =>
        [\A u, v \in Detections : rows'[u] # rows[u] /\ rows'[v] # rows[v] => u = v]_vars
  BY <1>1
<1> QED BY <1>2, Invariance, PTL DEF Spec, OneRowAtATime
----------------------------------------------------------------------------
(* What a stream does for one message: it comes to its answer, tells the dashboards *)
(* once, and tells PostgreSQL's listeners nothing.                                   *)

\* How many awaits a coroutine may still come to before it is ready for a message again.
Remaining ==
  [process |-> 9, loaded |-> 8, flushed |-> 7, metrics |-> 6, metrics_rest |-> 5,
   publish |-> 4, notify |-> 3, close |-> 2, ack_ok |-> 1, ack_fail |-> 1, idle |-> 0]

\* Whatever fails, a coroutine at work is only moved towards its answer: nothing is tried
\* again, so that a message costs it nine awaits at most.
ComesToItsAnswer ==
  [][\A s \in Streams : pc[s] # "idle" =>
       pc'[s] = pc[s] \/ Remaining[pc'[s]] < Remaining[pc[s]]]_vars

\* A detection is published once at most, however its stream ends and whatever is tried
\* for others meanwhile.
PublishedOnce ==
  \A m, n \in DOMAIN channel : channel[m].of = channel[n].of => m = n

\* pg_notify is called in a transaction that nothing commits: no notification of the
\* ingestion ever reaches a listener ("Emits a PostgreSQL NOTIFY event", notifier.py 28).
NoneDelivered == delivered = {}

Publishing == {"metrics", "metrics_rest", "publish"}

\* One step of the coroutine of s.
Works(s) ==
  /\ \E to \in States : pc' = [pc EXCEPT ![s] = to]
  /\ pc[s] # "idle" => Remaining[pc'[s]] < Remaining[pc[s]]
  /\ pc'[s] \in Publishing => cur' = cur /\ pc[s] \in Publishing \cup {"flushed"}
  /\ \A t \in Streams \ {s} : cur'[t] = cur[t] /\ notes'[t] = notes[t]
  /\ pc'[s] # "close" => notes'[s] = {} \/ (pc[s] # "close" /\ notes'[s] = notes[s])
  /\ delivered' \in {delivered, delivered \cup notes[s]}
  /\ delivered' # delivered => pc[s] = "flushed"
  /\ \/ channel' = channel
     \/ /\ pc[s] = "publish" /\ pc'[s] = "notify"
        /\ \E e : e.of = cur[s] /\ channel' = Append(channel, e)

LEMMA StreamSteps ==
  ASSUME TypeOK, [Next]_vars
  PROVE  \/ UNCHANGED <<pc, cur, notes, delivered, channel>>
         \/ Crash
         \/ \E s \in Streams : Works(s)
<1> USE DEF Goto, Works, Publishing, Remaining, States, TypeOK
<1>1. ASSUME NEW s \in Streams, \E d \in Detections : Receive(s, d) PROVE Works(s)
  BY <1>1 DEF Receive, store
<1>2. ASSUME NEW s \in Streams,
             \/ Refuse(s) \/ InsertEntryOnly(s) \/ InsertWaitingTime(s) \/ UpdateEntry(s)
             \/ InsertComplete(s)
      PROVE  Works(s)
  <2>1. /\ pc[s] \in {"process", "loaded"} /\ UNCHANGED <<notes, delivered, channel, cur>>
        /\ \/ pc' = [pc EXCEPT ![s] = "flushed"]
           \/ pc[s] = "process" /\ pc' = [pc EXCEPT ![s] = "ack_fail"]
    BY <1>2 DEF Refuse, InsertEntryOnly, InsertWaitingTime, UpdateEntry, InsertComplete, Flush,
                store, work
  <2> QED BY <2>1
<1>3. ASSUME NEW s \in Streams, FindEntry(s) PROVE Works(s)
  BY <1>3 DEF FindEntry, store
<1>4. ASSUME NEW s \in Streams, RefuseLoaded(s) \/ DatabaseError(s) \/ Cancel(s)
      PROVE  Works(s)
  <2>1. /\ notes' = [notes EXCEPT ![s] = {}] /\ UNCHANGED <<delivered, channel>>
        /\ \/ pc[s] \in {"process", "loaded", "flushed"} /\ pc' = [pc EXCEPT ![s] = "ack_fail"]
           \/ pc[s] # "idle" /\ pc' = [pc EXCEPT ![s] = "idle"]
        /\ \A t \in Streams \ {s} : cur'[t] = cur[t]
    BY <1>4 DEF RefuseLoaded, DatabaseError, Cancel, EndTransaction, Forget, store, work
  <2> QED BY <2>1
<1>5. ASSUME NEW s \in Streams, Commit(s) \/ CommitUnknown(s) PROVE Works(s)
  <2>1. /\ notes' = [notes EXCEPT ![s] = {}] /\ delivered' = delivered \cup notes[s]
        /\ UNCHANGED <<cur, channel>> /\ pc[s] = "flushed"
        /\ pc' \in {[pc EXCEPT ![s] = "metrics"], [pc EXCEPT ![s] = "ack_fail"]}
    BY <1>5 DEF Commit, CommitUnknown, TakeEffect, EndTransaction, work
  <2> QED BY <2>1
<1>6. ASSUME NEW s \in Streams,
             \/ MetricsFirst(s) \/ MetricsRest(s) \/ MetricsError(s) \/ PublishError(s)
      PROVE  Works(s)
  BY <1>6 DEF MetricsFirst, MetricsRest, MetricsError, PublishError, store, work
<1>7. ASSUME NEW s \in Streams, Publish(s) PROVE Works(s)
  <2> DEFINE e == [stream |-> s, of |-> cur[s], first |-> event[s].first, last |-> event[s].last]
  <2>1. /\ pc[s] = "publish" /\ pc' = [pc EXCEPT ![s] = "notify"]
        /\ channel' = Append(channel, e) /\ e.of = cur[s]
        /\ UNCHANGED <<cur, notes, delivered>>
    BY <1>7 DEF Publish, store, work
  <2> HIDE DEF e
  <2> QED BY <2>1
<1>8. ASSUME NEW s \in Streams, Notify(s) \/ NotifyError(s) PROVE Works(s)
  BY <1>8 DEF Notify, NotifyError, store, work
<1>9. ASSUME NEW s \in Streams, CloseSession(s) \/ CloseError(s) PROVE Works(s)
  BY <1>9 DEF CloseSession, CloseError, EndTransaction, store, work
<1>10. ASSUME NEW s \in Streams, Acknowledge(s) PROVE Works(s)
  BY <1>10 DEF Acknowledge, Forget, store
<1>11. CASE UNCHANGED vars
  BY <1>11 DEF vars
<1> HIDE DEF Goto, Works, Publishing, Remaining, States, TypeOK
<1> QED BY <1>1, <1>2, <1>3, <1>4, <1>5, <1>6, <1>7, <1>8, <1>9, <1>10, <1>11
        DEF Next, Progress, Failure

\* No step of a coroutine leads back, those of the others and a restart included.
THEOREM AnswersAreApproached == Spec => ComesToItsAnswer
<1>1. ASSUME TypeOK, [Next]_vars, NEW s \in Streams, pc[s] # "idle"
      PROVE  pc'[s] = pc[s] \/ Remaining[pc'[s]] < Remaining[pc[s]]
  <2>1. CASE Crash
    BY <1>1, <2>1 DEF Crash, TypeOK, States, Remaining
  <2>2. ASSUME NEW t \in Streams, Works(t)
        PROVE  pc'[s] = pc[s] \/ Remaining[pc'[s]] < Remaining[pc[s]]
    BY <1>1, <2>2 DEF Works, TypeOK
  <2> QED BY <1>1, <2>1, <2>2, StreamSteps
<1>2. TypeOK /\ [Next]_vars =>
        [\A s \in Streams : pc[s] # "idle" =>
           pc'[s] = pc[s] \/ Remaining[pc'[s]] < Remaining[pc[s]]]_vars
  BY <1>1
<1> QED BY <1>2, TypeCorrect, PTL DEF Spec, ComesToItsAnswer

\* Notifications are queued by a coroutine that is about to close its session only.
QueueInv ==
  /\ delivered = {}
  /\ \A s \in Streams : pc[s] # "close" => notes[s] = {}

\* The commit of the detection comes before pg_notify, and the session is closed behind it
\* without another (grpc_server.py 48 and 57-68).
THEOREM NoNotificationArrives == Spec => []NoneDelivered
<1>1. Init => QueueInv
  BY DEF Init, QueueInv
<1>2. ASSUME TypeOK, QueueInv, [Next]_vars PROVE QueueInv'
  <2>1. CASE Crash
    BY <1>2, <2>1 DEF Crash, QueueInv, store
  <2>2. ASSUME NEW s \in Streams, Works(s) PROVE QueueInv'
    <3>1. delivered' = {}
      BY <1>2, <2>2 DEF Works, QueueInv
    <3>2. ASSUME NEW t \in Streams, pc'[t] # "close" PROVE notes'[t] = {}
      BY <1>2, <2>2, <3>2 DEF Works, QueueInv, TypeOK
    <3> QED BY <3>1, <3>2 DEF QueueInv
  <2>3. CASE UNCHANGED <<pc, cur, notes, delivered, channel>>
    BY <1>2, <2>3 DEF QueueInv
  <2> QED BY <1>2, <2>1, <2>2, <2>3, StreamSteps
<1>3. QueueInv => NoneDelivered
  BY DEF QueueInv, NoneDelivered
<1> QED BY <1>1, <1>2, <1>3, TypeCorrect, PTL DEF Spec

\* A published detection is stored, and the stream that is about to publish has not yet.
OnceInv ==
  /\ PublishedOnce
  /\ \A n \in DOMAIN channel : channel[n].of \in stored
  /\ \A s \in Streams : pc[s] \in Publishing =>
       \A n \in DOMAIN channel : channel[n].of # cur[s]

LEMMA OnceStep ==
  ASSUME IInv, OnceInv, [Next]_vars
  PROVE  OnceInv'
<1>1. stored \subseteq stored'
  BY StoreSteps DEF TakeEffect
<1>2. CASE Crash
  BY <1>1, <1>2 DEF Crash, OnceInv, PublishedOnce, Publishing, store
<1>3. ASSUME NEW s \in Streams, Works(s) PROVE OnceInv'
  <2>1. ASSUME NEW t \in Streams, pc'[t] \in Publishing, NEW n \in DOMAIN channel
        PROVE  channel[n].of # cur'[t]
    <3>1. CASE t # s
      <4>1. pc'[t] = pc[t] /\ cur'[t] = cur[t]
        BY <1>3, <3>1 DEF Works, IInv, TypeOK
      <4> QED BY <2>1, <4>1 DEF OnceInv
    <3>2. CASE t = s /\ pc[s] \in Publishing
      BY <1>3, <2>1, <3>2 DEF Works, OnceInv
    <3>3. CASE t = s /\ pc[s] = "flushed"
      <4>1. cur'[s] = cur[s] /\ cur[s] \notin stored
        BY <1>3, <2>1, <3>3 DEF Works, IInv, WorkInv, BeforeCommit
      <4> QED BY <3>3, <4>1 DEF OnceInv
    <3> QED BY <1>3, <2>1, <3>1, <3>2, <3>3 DEF Works
  <2>2. CASE channel' = channel
    BY <1>1, <2>1, <2>2 DEF OnceInv, PublishedOnce
  <2>3. ASSUME pc[s] = "publish", pc'[s] = "notify",
               NEW e, e.of = cur[s], channel' = Append(channel, e)
        PROVE  OnceInv'
    <3>1. /\ DOMAIN channel = 1..Len(channel) /\ Len(channel) \in Nat
          /\ DOMAIN channel' = 1..Len(channel) + 1
          /\ \A n \in DOMAIN channel : channel'[n] = channel[n]
          /\ channel'[Len(channel) + 1] = e
      BY <2>3 DEF IInv, TypeOK
    <3>2. /\ cur[s] \in stored /\ cur[s] # None
          /\ \A n \in DOMAIN channel : channel[n].of # cur[s]
      BY <2>3 DEF IInv, WorkInv, AfterCommit, OnceInv, Publishing
    <3>3. PublishedOnce'
      BY <2>3, <3>1, <3>2 DEF OnceInv, PublishedOnce
    <3>4. \A n \in DOMAIN channel' : channel'[n].of \in stored'
      BY <1>1, <2>3, <3>1, <3>2 DEF OnceInv
    <3>5. ASSUME NEW t \in Streams, pc'[t] \in Publishing PROVE cur'[t] # cur[s]
      <4>1. t # s
        BY <2>3, <3>5 DEF Publishing
      <4>2. cur'[t] = cur[t]
        BY <1>3, <4>1 DEF Works
      <4> QED BY <3>2, <4>1, <4>2 DEF IInv, WorkInv
    <3>6. \A t \in Streams : pc'[t] \in Publishing =>
            \A n \in DOMAIN channel' : channel'[n].of # cur'[t]
      BY <2>1, <2>3, <3>1, <3>5
    <3> QED BY <3>3, <3>4, <3>6 DEF OnceInv
  <2> QED BY <1>3, <2>2, <2>3 DEF Works
<1>4. CASE UNCHANGED <<pc, cur, notes, delivered, channel>>
  BY <1>1, <1>4 DEF OnceInv, PublishedOnce
<1> QED BY <1>2, <1>3, <1>4, StreamSteps DEF IInv

\* However the streams overlap, fail and restart, the dashboards hear of a detection once
\* at most (grpc_server.py 57-59, publisher.py 69-84).
THEOREM EventsAreSingle == Spec => []PublishedOnce
<1>1. Init => OnceInv
  BY DEF Init, OnceInv, PublishedOnce, Publishing
<1>2. IInv /\ OnceInv /\ [Next]_vars => OnceInv'
  BY OnceStep
<1>3. OnceInv => PublishedOnce
  BY DEF OnceInv
<1> QED BY <1>1, <1>2, <1>3, Invariance, PTL DEF Spec
================================================================================
