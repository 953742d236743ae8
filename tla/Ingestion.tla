-------------------------------- MODULE Ingestion --------------------------------
(***************************************************************************)
(* The gRPC servicer (app/grpc/grpc_server.py) on top of DetectionService, *)
(* with the database session and what is published after the commit.       *)
(*                                                                         *)
(* Every stream of the ML service is one coroutine; it advances from await *)
(* to await, and at each await other streams run, the call may raise, the  *)
(* stream may be cancelled and the process may die.  A session takes a     *)
(* pool connection with its first statement and gives it back when its     *)
(* transaction ends.  PostgreSQL runs READ COMMITTED: a SELECT sees the    *)
(* committed rows, an UPDATE waits for the row's lock and then patches the *)
(* row as it is.                                                           *)
(***************************************************************************)
EXTENDS DetectionService, Sequences

CONSTANTS
  Streams,     \* open StreamDetections calls
  Detections,  \* the detections that may arrive: the bound of the model
  Messages,    \* the messages the ML service sends
  PoolSize,    \* connections of the SQLAlchemy pool
  Faults,      \* what may go wrong: a subset of FaultKinds
  None,        \* Python's None: no detection, no row found
  NoRow,       \* a uuid that is not in the table
  NoMessage    \* a detection not received yet

FaultKinds == {"database", "redis", "cancel", "crash"}

ASSUME IngestionAssumption ==
  /\ Faults \subseteq FaultKinds
  /\ Messages \subseteq Message
  /\ PoolSize \in Nat \ {0}
  /\ None \notin Detections
  /\ NoRow \notin Row
  /\ NoMessage \notin Message

VARIABLES
  rows,       \* entries, committed: uuid -> row.  A new row's uuid is its detection.
  waiting,    \* waiting_times, committed: the detections with a row
  conns,      \* pool connections in use: pairs <<stream, session>>
  pc,         \* the await each stream is at
  cur,        \* the detection a stream works on
  found,      \* what _find_entry_by_count returned
  base,       \* the attributes of that row when it was loaded
  tx,         \* the write flushed by the open transaction
  notes,      \* pg_notify calls executed in the open transaction
  event,      \* what the metrics queries of publish_dashboard_event saw
  channel,    \* events published on the global Redis channel, in order
  delivered,  \* notifications PostgreSQL handed to its listeners
  msg,        \* history: the message of each detection
  stored,     \* history: detections whose transaction was committed
  home,       \* history: the row a committed detection was recorded in
  acks,       \* history: the DetectionAck each detection got
  doubt       \* history: detections whose commit or session close raised

store == <<rows, waiting, stored, home, delivered, doubt>>
work  == <<cur, found, base>>
vars  == <<rows, waiting, conns, pc, cur, found, base, tx, notes, event,
           channel, delivered, msg, stored, home, acks, doubt>>

Sessions == {"ingest", "metrics"}
NoWrite  == [table |-> "none", uuid |-> None, cols |-> [c \in Columns |-> Empty]]
WaitingInsert == [NoWrite EXCEPT !.table = "waiting_times"]
EntryWrite(u, cols) == [table |-> "entries", uuid |-> u, cols |-> cols]
Write == [table : {"none", "waiting_times", "entries"},
          uuid : Detections \cup {None}, cols : Patch]
View  == [first : SUBSET Detections, last : SUBSET Detections]
Event == [stream : Streams, of : Detections,
          first : SUBSET Detections, last : SUBSET Detections]

States == {"idle", "process", "loaded", "flushed", "metrics", "metrics_rest",
           "publish", "notify", "close", "ack_ok", "ack_fail"}

Init ==
  /\ rows = [u \in Detections |-> NoRow]
  /\ waiting = {}
  /\ conns = {}
  /\ pc = [s \in Streams |-> "idle"]
  /\ cur = [s \in Streams |-> None]
  /\ found = [s \in Streams |-> None]
  /\ base = [s \in Streams |-> NoRow]
  /\ tx = [s \in Streams |-> NoWrite]
  /\ notes = [s \in Streams |-> {}]
  /\ event = [s \in Streams |-> [first |-> {}, last |-> {}]]
  /\ channel = <<>>
  /\ delivered = {}
  /\ msg = [d \in Detections |-> NoMessage]
  /\ stored = {}
  /\ home = [d \in Detections |-> None]
  /\ acks = [d \in Detections |-> "none"]
  /\ doubt = {}

----------------------------------------------------------------------------
(* Pieces the actions share. *)

Goto(s, from, to) == pc[s] = from /\ pc' = [pc EXCEPT ![s] = to]

Connect(s, session) ==
  /\ Cardinality(conns) < PoolSize \/ <<s, session>> \in conns
  /\ conns' = conns \cup {<<s, session>>}

Released(s) == conns \ ({s} \X Sessions)

Received(s) == msg[cur[s]]

\* The row lock an UPDATE of u has to wait for.
LockedByOther(s, u) ==
  \E t \in Streams \ {s} : tx[t].uuid = u

\* The transaction of s takes effect: its write, and the notifications queued in it.
TakeEffect(s) ==
  /\ rows' = IF tx[s].table = "entries"
             THEN [rows EXCEPT ![tx[s].uuid] = Merge(@, tx[s].cols)] ELSE rows
  /\ waiting' = IF tx[s].table = "waiting_times" THEN waiting \cup {cur[s]} ELSE waiting
  /\ stored' = stored \cup {cur[s]}
  /\ home' = [home EXCEPT ![cur[s]] = IF found[s] # None THEN found[s] ELSE cur[s]]
  /\ delivered' = delivered \cup notes[s]

\* Mutant: the write stays in the session, with the row's lock.
EndTransactionKeepsLock(s) ==
  /\ conns' = Released(s)
  /\ notes' = [notes EXCEPT ![s] = {}]
  /\ UNCHANGED tx

\* The transaction of s ends; rollback, commit and close all give the connection back.
EndTransaction(s) ==
  /\ tx' = [tx EXCEPT ![s] = NoWrite]
  /\ notes' = [notes EXCEPT ![s] = {}]
  /\ conns' = Released(s)

----------------------------------------------------------------------------
(* From the message to the commit. *)

\* "async for detection in request_iterator": the next message of the stream.
Receive(s, d) ==
  /\ Goto(s, "idle", "process")
  /\ msg[d] = NoMessage
  /\ \E m \in Messages : msg' = [msg EXCEPT ![d] = m]
  /\ cur' = [cur EXCEPT ![s] = d]
  /\ UNCHANGED <<store, found, base, conns, tx, notes, event, channel, acks>>

\* The ValueErrors raised before the first await, a timestamp that does not parse
\* in a row that is created without a lookup included.
Refuse(s) ==
  /\ Goto(s, "process", "ack_fail")
  /\ \/ Refused(Received(s))
     \/ /\ Received(s) \in CustomerFlow /\ LookupCount(Received(s)) = Empty
        /\ BadTimestamp(Received(s), IF EntryOnly(Received(s)) THEN EntryColumns ELSE Columns)
  /\ UNCHANGED <<store, work, conns, tx, notes, event, channel, msg, acks>>

\* A write reaches the database inside the open transaction.
Flush(s, write) ==
  /\ Connect(s, "ingest")
  /\ tx' = [tx EXCEPT ![s] = write]
  /\ UNCHANGED <<store, work, notes, event, channel, msg, acks>>

InsertEntryOnly(s) ==
  /\ Goto(s, "process", "flushed")
  /\ Received(s) \in CustomerFlow /\ EntryOnly(Received(s))
  /\ ~BadTimestamp(Received(s), EntryColumns)
  /\ Flush(s, EntryWrite(cur[s], CreateEntryOnly(Received(s))))

\* A waiting session is always inserted; its fields are not looked at.
InsertWaitingTime(s) ==
  /\ Goto(s, "process", "flushed")
  /\ Received(s) = WaitingSession
  /\ Flush(s, WaitingInsert)

\* SELECT ... LIMIT 1 on the committed rows.
FindEntry(s) ==
  /\ Goto(s, "process", "loaded")
  /\ Received(s) \in CustomerFlow /\ ~Refused(Received(s))
  /\ LookupCount(Received(s)) # Empty
  /\ LET match == FindEntryByCount(rows, LookupCount(Received(s)))
     IN  IF match = {} THEN UNCHANGED <<found, base>>
         ELSE \E u \in match :
                /\ found' = [found EXCEPT ![s] = u]
                /\ base' = [base EXCEPT ![s] = rows[u]]
  /\ Connect(s, "ingest")
  /\ UNCHANGED <<store, cur, tx, notes, event, channel, msg, acks>>

\* No row to put the exit on, or a timestamp that does not parse: rollback, re-raise.
RefuseLoaded(s) ==
  /\ Goto(s, "loaded", "ack_fail")
  /\ \/ ExitOnly(Received(s)) /\ found[s] = None
     \/ BadTimestamp(Received(s), IF ExitOnly(Received(s)) THEN ExitColumns ELSE Columns)
  /\ EndTransaction(s)
  /\ UNCHANGED <<store, work, event, channel, msg, acks>>

\* The assignments to the loaded object and the flush, which waits for the row's lock.
\* When no attribute changed there is no UPDATE and no lock.
UpdateEntry(s) ==
  /\ Goto(s, "loaded", "flushed")
  /\ found[s] # None
  /\ ~BadTimestamp(Received(s), IF ExitOnly(Received(s)) THEN ExitColumns ELSE Columns)
  /\ LET after == Applied(base[s], Received(s))
     IN  IF after = base[s] THEN Flush(s, NoWrite)
         ELSE /\ ~LockedByOther(s, found[s])
              /\ Flush(s, EntryWrite(found[s], ChangedColumns(base[s], after)))

\* A complete message whose lookup found nothing, or that had no count to look up.
InsertComplete(s) ==
  /\ \/ Goto(s, "loaded", "flushed") /\ found[s] = None
     \/ /\ Goto(s, "process", "flushed")
        /\ Received(s) \in CustomerFlow /\ LookupCount(Received(s)) = Empty
  /\ Complete(Received(s)) /\ ~BadTimestamp(Received(s), Columns)
  /\ Flush(s, EntryWrite(cur[s], CreateCompleteEntry(Received(s))))

\* Mutant: the connection is kept until the session is closed.
CommitKeepsConnection(s) ==
  /\ Goto(s, "flushed", "metrics")
  /\ TakeEffect(s)
  /\ tx' = [tx EXCEPT ![s] = NoWrite]
  /\ UNCHANGED <<conns, notes, work, event, channel, msg, acks, doubt>>

Commit(s) ==
  /\ Goto(s, "flushed", "metrics")
  /\ TakeEffect(s) /\ EndTransaction(s)
  /\ UNCHANGED <<work, event, channel, msg, acks, doubt>>

\* Mutant: the error is logged and the answer is "stored".
DatabaseErrorSwallowed(s) ==
  /\ pc[s] \in {"process", "loaded", "flushed"} /\ Goto(s, pc[s], "ack_ok")
  /\ EndTransaction(s)
  /\ UNCHANGED <<store, work, event, channel, msg, acks>>

\* A statement, the wait for a connection or the commit raises: rollback, re-raise.
DatabaseError(s) ==
  /\ pc[s] \in {"process", "loaded", "flushed"} /\ Goto(s, pc[s], "ack_fail")
  /\ EndTransaction(s)
  /\ UNCHANGED <<store, work, event, channel, msg, acks>>

\* The commit raises although the server carried it out (the connection broke).
CommitUnknown(s) ==
  /\ Goto(s, "flushed", "ack_fail")
  /\ TakeEffect(s) /\ EndTransaction(s)
  /\ doubt' = doubt \cup {cur[s]}
  /\ UNCHANGED <<work, event, channel, msg, acks>>

----------------------------------------------------------------------------
(* After the commit: publish_dashboard_event, notify_db_dashboard_update and *)
(* the end of the session.                                                   *)

\* get_dashboard_metrics is six SELECTs; the first and the last are kept.
\* Mutant: the event counts the new detection alone.
MetricsOfOne(s) ==
  /\ Goto(s, "metrics", "metrics_rest")
  /\ Connect(s, "metrics")
  /\ event' = [event EXCEPT ![s].first = {cur[s]}]
  /\ UNCHANGED <<store, work, tx, notes, channel, msg, acks>>

MetricsFirst(s) ==
  /\ Goto(s, "metrics", "metrics_rest")
  /\ Connect(s, "metrics")
  /\ event' = [event EXCEPT ![s].first = stored]
  /\ UNCHANGED <<store, work, tx, notes, channel, msg, acks>>

MetricsRest(s) ==
  /\ Goto(s, "metrics_rest", "publish")
  /\ event' = [event EXCEPT ![s].last = stored]
  /\ conns' = conns \ {<<s, "metrics">>}
  /\ UNCHANGED <<store, work, tx, notes, channel, msg, acks>>

\* Mutant: no "return" after the error.
MetricsErrorPublishes(s) ==
  /\ pc[s] \in {"metrics", "metrics_rest"} /\ Goto(s, pc[s], "publish")
  /\ conns' = conns \ {<<s, "metrics">>}
  /\ UNCHANGED <<store, work, tx, notes, event, channel, msg, acks>>

\* An error is logged and nothing is published.
MetricsError(s) ==
  /\ pc[s] \in {"metrics", "metrics_rest"} /\ Goto(s, pc[s], "notify")
  /\ conns' = conns \ {<<s, "metrics">>}
  /\ UNCHANGED <<store, work, tx, notes, event, channel, msg, acks>>

\* branch_id is None for every row the service writes: only the global channel.
\* The connection manager has no members, its broadcast returns at once.
Publish(s) ==
  /\ Goto(s, "publish", "notify")
  /\ channel' = Append(channel, [stream |-> s, of |-> cur[s],
                                 first |-> event[s].first, last |-> event[s].last])
  /\ UNCHANGED <<store, work, conns, tx, notes, event, msg, acks>>

\* Mutant: no try around the notification, its error reaches the outer except.
PublishErrorRejects(s) ==
  /\ Goto(s, "publish", "ack_fail")
  /\ EndTransaction(s)
  /\ UNCHANGED <<store, work, event, channel, msg, acks>>

PublishError(s) ==
  /\ Goto(s, "publish", "notify")
  /\ UNCHANGED <<store, work, conns, tx, notes, event, channel, msg, acks>>

\* pg_notify opens a new transaction on the ingest session.
Notify(s) ==
  /\ Goto(s, "notify", "close")
  /\ Connect(s, "ingest")
  /\ notes' = [notes EXCEPT ![s] = {cur[s]}]
  /\ UNCHANGED <<store, work, tx, event, channel, msg, acks>>

NotifyError(s) ==
  /\ Goto(s, "notify", "close")
  /\ UNCHANGED <<store, work, conns, tx, notes, event, channel, msg, acks>>

\* Leaving "async with" closes the session, which rolls its transaction back.
CloseSession(s) ==
  /\ Goto(s, "close", "ack_ok")
  /\ EndTransaction(s)
  /\ UNCHANGED <<store, work, event, channel, msg, acks>>

CloseError(s) ==
  /\ Goto(s, "close", "ack_fail")
  /\ EndTransaction(s)
  /\ doubt' = doubt \cup {cur[s]}
  /\ UNCHANGED <<rows, waiting, stored, home, delivered, work, event, channel, msg, acks>>

----------------------------------------------------------------------------
(* The answer, and the ways a stream ends. *)

\* The coroutine's locals after the answer or the end of the stream.
Forget(s) ==
  /\ cur' = [cur EXCEPT ![s] = None]
  /\ found' = [found EXCEPT ![s] = None]
  /\ base' = [base EXCEPT ![s] = NoRow]
  /\ event' = [event EXCEPT ![s] = [first |-> {}, last |-> {}]]

\* Mutant: every detection is answered "stored".
AcknowledgeAll(s) ==
  /\ pc[s] \in {"ack_ok", "ack_fail"} /\ Goto(s, pc[s], "idle")
  /\ acks' = [acks EXCEPT ![cur[s]] = "ok"]
  /\ Forget(s)
  /\ UNCHANGED <<store, conns, tx, notes, channel, msg>>

Acknowledge(s) ==
  /\ pc[s] \in {"ack_ok", "ack_fail"} /\ Goto(s, pc[s], "idle")
  /\ acks' = [acks EXCEPT ![cur[s]] = IF pc[s] = "ack_ok" THEN "ok" ELSE "fail"]
  /\ Forget(s)
  /\ UNCHANGED <<store, conns, tx, notes, channel, msg>>

\* Mutant: leaving the session block commits what was flushed.
CancelCommits(s) ==
  /\ pc[s] # "idle" /\ Goto(s, pc[s], "idle")
  /\ rows' = IF tx[s].table = "entries"
             THEN [rows EXCEPT ![tx[s].uuid] = Merge(@, tx[s].cols)] ELSE rows
  /\ EndTransaction(s) /\ Forget(s)
  /\ UNCHANGED <<waiting, stored, home, delivered, doubt, channel, msg, acks>>

\* CancelledError passes both "except Exception": no rollback call and no answer, the
\* session's close ends the transaction.  The ML service may open a new stream.
Cancel(s) ==
  /\ pc[s] # "idle" /\ Goto(s, pc[s], "idle")
  /\ EndTransaction(s) /\ Forget(s)
  /\ UNCHANGED <<store, channel, msg, acks>>

\* The process dies and is started again; the database ends its transactions.
Crash ==
  /\ \E s \in Streams : pc[s] # "idle"
  /\ pc' = [s \in Streams |-> "idle"]
  /\ cur' = [s \in Streams |-> None]
  /\ found' = [s \in Streams |-> None]
  /\ base' = [s \in Streams |-> NoRow]
  /\ event' = [s \in Streams |-> [first |-> {}, last |-> {}]]
  /\ tx' = [s \in Streams |-> NoWrite]
  /\ notes' = [s \in Streams |-> {}]
  /\ conns' = {}
  /\ UNCHANGED <<store, channel, msg, acks>>

\* What the coroutine does when the calls it awaits return normally.
Progress(s) ==
  \/ Refuse(s) \/ InsertEntryOnly(s) \/ InsertWaitingTime(s) \/ FindEntry(s)
  \/ RefuseLoaded(s) \/ UpdateEntry(s) \/ InsertComplete(s) \/ Commit(s)
  \/ MetricsFirst(s) \/ MetricsRest(s) \/ Publish(s) \/ Notify(s)
  \/ CloseSession(s) \/ Acknowledge(s)

\* What the database, Redis or the client may do to it.
Failure(s) ==
  \/ /\ "database" \in Faults
     /\ \/ DatabaseError(s) \/ CommitUnknown(s) \/ MetricsError(s)
        \/ NotifyError(s) \/ CloseError(s)
  \/ "redis" \in Faults /\ PublishError(s)
  \/ "cancel" \in Faults /\ Cancel(s)

Next ==
  \/ \E s \in Streams, d \in Detections : Receive(s, d)
  \/ \E s \in Streams : Progress(s) \/ Failure(s)
  \/ "crash" \in Faults /\ Crash

\* Calls return; messages need not arrive and failures need not happen.
Fairness == \A s \in Streams : WF_vars(Progress(s))

Spec == Init /\ [][Next]_vars
FairSpec == Spec /\ Fairness

----------------------------------------------------------------------------
(* Correctness. *)

\* Type invariant.
TypeOK ==
  /\ rows \in [Detections -> Row \cup {NoRow}]
  /\ waiting \subseteq Detections
  /\ conns \subseteq Streams \X Sessions
  /\ pc \in [Streams -> States]
  /\ cur \in [Streams -> Detections \cup {None}]
  /\ found \in [Streams -> Detections \cup {None}]
  /\ base \in [Streams -> Row \cup {NoRow}]
  /\ tx \in [Streams -> Write]
  /\ notes \in [Streams -> SUBSET Detections]
  /\ event \in [Streams -> View]
  /\ channel \in Seq(Event)
  /\ delivered \subseteq Detections
  /\ msg \in [Detections -> Message \cup {NoMessage}]
  /\ stored \subseteq Detections
  /\ home \in [Detections -> Detections \cup {None}]
  /\ acks \in [Detections -> {"none", "ok", "fail"}]
  /\ doubt \subseteq Detections

\* The columns a flow message is responsible for.
Recorded(m) ==
  IF EntryOnly(m) THEN EntryColumns ELSE IF ExitOnly(m) THEN ExitColumns ELSE Columns

\* d left its mark: its waiting session is in the table, or the row it was recorded
\* in still has a value for every field d carried.
Visible(d) ==
  IF msg[d] = WaitingSession THEN d \in waiting
  ELSE /\ home[d] # None /\ rows[home[d]] # NoRow
       /\ \A c \in Recorded(msg[d]) : msg[d][c] # Empty => rows[home[d]][c] # NULL

\* An ack with ok = True means stored (grpc_server.py 68-71), whatever the other
\* streams and later detections did to the row: the acknowledged data is there.
AckedIsVisible == \A d \in Detections : acks[d] = "ok" => d \in stored /\ Visible(d)

\* Every value in a row was brought by a committed detection recorded in that very
\* row: what was rolled back, cancelled or lost in a crash leaves no trace, and
\* overlapping updates never carry a value from one row to another.
RowsComeFromStored ==
  \A u \in Detections : rows[u] # NoRow =>
    \A c \in Columns : rows[u][c] # NULL =>
      \E d \in stored : home[d] = u /\ msg[d] \in CustomerFlow /\ msg[d][c] = rows[u][c]

\* ok = False for a detection that is in the database only when the database itself
\* left the outcome open: a failing notification never turns into a rejection
\* (grpc_server.py 57-66).
NackedIsNotStored ==
  \A d \in Detections : acks[d] = "fail" /\ d \in stored => d \in doubt

\* While its metrics session is open a stream holds no second connection, so
\* streams waiting for the pool never wait for each other (the commit gives the
\* ingest connection back before publish_dashboard_event asks for one).
OneConnectionPerStream ==
  \A s \in Streams : Cardinality({p \in conns : p[1] = s}) <= 1

\* A published dashboard event already counts the detection it is published for
\* (tests/test_websocket.py 461: publication reflects the committed state).
EventReflectsOwnCommit ==
  \A i \in DOMAIN channel : channel[i].of \in channel[i].first

\* Events of one stream never go back in time: each was computed after everything
\* the previous one had seen.
EventsInStreamOrder ==
  \A i, j \in DOMAIN channel :
    i < j /\ channel[i].stream = channel[j].stream => channel[i].last \subseteq channel[j].first

\* Nothing recorded is erased: a row stays, and a column that has a value keeps one,
\* so a customer who left is never again counted inside.
RecordsArePermanent ==
  [][\A u \in Detections : rows[u] # NoRow =>
       /\ rows'[u] # NoRow
       /\ \A c \in Columns : rows[u][c] # NULL => rows'[u][c] # NULL]_vars

\* Streams that update one row interfere column by column only: what the commit changes
\* is what _apply_entry_data and _apply_exit_data changed in the loaded object, and every
\* other column keeps its value, also one that another stream put there after the load.
UpdateIsSerial ==
  [][\A s \in Streams :
       cur[s] \in stored' \ stored /\ found[s] # None =>
         \A c \in Columns :
           LET after == Applied(base[s], Received(s))[c]
           IN  rows'[found[s]][c] = IF after # base[s][c] THEN after ELSE rows[found[s]][c]]_vars

\* The row of d still answers to the count of d: whatever else was recorded in it
\* carried that count or none.
CountUndisputed(d) ==
  \A e \in stored :
    home[e] = home[d] /\ msg[e] \in CustomerFlow =>
      msg[e]["entry_count"] \in {Empty, msg[d]["entry_count"]}

\* A complete message that carries one count for entry and exit can be sent again when
\* its answer was lost: once the first copy is stored, the second finds a row to update
\* and creates none (detection_service.py 71-87).  Two copies processed at the same time
\* may both create a row.
ResendFindsRow ==
  [][\A s \in Streams, d \in stored :
       /\ pc[s] = "process" /\ pc'[s] = "loaded"
       /\ d # cur[s] /\ msg[d] = Received(s) /\ Complete(msg[d])
       /\ msg[d]["entry_count"] # Empty /\ msg[d]["entry_count"] = msg[d]["exit_count"]
       /\ CountUndisputed(d)
       => found'[s] # None]_vars

\* A coroutine that received a detection gets to its next receive, also when every
\* stream competes for the last connection and for the same row.
Answered == \A s \in Streams : pc[s] # "idle" ~> pc[s] = "idle"

\* The docstring of notify_db_dashboard_update: a notification executed for a
\* detection that is then acknowledged is emitted.
NotificationIsEmitted ==
  [][\A s \in Streams : pc'[s] = "ack_ok" => notes[s] \subseteq delivered']_vars

\* The promise of module DetectionStore, with the history variables as its state.
Abstract == INSTANCE DetectionStore
Implements == Abstract!StoreSpec
=============================================================================
