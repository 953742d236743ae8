---------------------------------- MODULE Listener ----------------------------------
(***************************************************************************)
(* The task that listens for PostgreSQL notifications                      *)
(* (run_postgres_notification_listener, app/analytics/notifier.py), the    *)
(* lifespan that starts and cancels it (app/main.py), and what its         *)
(* callbacks publish (publish_dashboard_event, app/websocket/publisher.py, *)
(* called with the branch of the notification and no event).               *)
(*                                                                         *)
(* Every notification starts a callback task; the tasks of several         *)
(* notifications overlap.  The API's own notifications are never committed *)
(* (module Ingestion), the ones here come from other clients of the        *)
(* database.                                                               *)
(***************************************************************************)
EXTENDS Naturals, Sequences, Functions

CONSTANTS
  Branches,   \* branch identifiers
  None,       \* no branch, also what a payload that is not JSON gives
  Faults,     \* what may go wrong: a subset of FaultKinds
  MaxCommits  \* bound: commits of other clients that notify

FaultKinds == {"loss", "refusal", "metrics", "redis", "outage", "shutdown"}

ASSUME ListenerAssumption ==
  /\ Faults \subseteq FaultKinds /\ MaxCommits \in Nat /\ None \notin Branches

Commits == 1..MaxCommits

VARIABLES
  db,         \* the database answers, refuses, or keeps silent
  version,    \* commits so far
  app,        \* the lifespan: running, waiting for the listener task, closed
  stop,       \* stop_event
  cancel,     \* listener_task.cancel() was called and not delivered yet
  pc,         \* the await the listener is at
  conn,       \* its connection
  listening,  \* LISTEN was carried out on that connection
  left,       \* history: whether a connection was let go of while it was open
  task,       \* the await of each notification's callback
  branch,     \* the branch of its payload
  seen,       \* the version its metrics were computed from
  failed,     \* history: callbacks whose metrics or publication raised
  events      \* Redis: the events published on each channel, <<commit, version>>

lifespan == <<app, stop, cancel>>
listener == <<pc, conn, listening, left>>
callback == <<task, branch, seen, failed, events>>
vars     == <<db, version, lifespan, listener, callback>>

Channels == Branches \cup {None}  \* None is the global channel

Init ==
  /\ db \in {"up", "down"} /\ version = 0
  /\ app = "running" /\ stop = FALSE /\ cancel = FALSE
  /\ pc = "connect" /\ conn = "none" /\ listening = FALSE /\ left = FALSE
  /\ task = [n \in Commits |-> "none"] /\ branch = [n \in Commits |-> None]
  /\ seen = [n \in Commits |-> 0] /\ failed = {}
  /\ events = [ch \in Channels |-> <<>>]

----------------------------------------------------------------------------
(* The database and the network. *)

\* A connection breaks when the database goes down; silence breaks nothing.
Outage(state) ==
  /\ "outage" \in Faults /\ db # state
  /\ db' = state
  /\ conn' = IF state = "down" /\ conn = "open" THEN "lost" ELSE conn
  /\ UNCHANGED <<version, lifespan, pc, listening, left, callback>>

\* A failover, a proxy's idle timeout, pg_terminate_backend.
Lose ==
  /\ "loss" \in Faults /\ conn = "open"
  /\ conn' = "lost"
  /\ UNCHANGED <<db, version, lifespan, pc, listening, left, callback>>

\* Another client commits a transaction with a notification; asyncpg starts a callback
\* when it arrives on a connection that listens.
Notified(b) ==
  /\ db = "up" /\ version < MaxCommits
  /\ version' = version + 1
  /\ IF listening /\ conn = "open" /\ app # "closed"
     THEN /\ task' = [task EXCEPT ![version + 1] = "metrics"]
          /\ branch' = [branch EXCEPT ![version + 1] = b]
     ELSE UNCHANGED <<task, branch>>
  /\ UNCHANGED <<db, lifespan, listener, seen, failed, events>>

----------------------------------------------------------------------------
(* The listener's loop. *)

Go(from, to) == pc = from /\ ~cancel /\ pc' = to

\* The head of the outer loop: the end, or conn = None and a new attempt.
NextRound == IF stop THEN "ended" ELSE "connect"

ConnectOk ==
  /\ Go("connect", "listen")
  /\ db = "up"
  /\ conn' = "open" /\ listening' = FALSE /\ left' = (left \/ conn = "open")
  /\ UNCHANGED <<db, version, lifespan, callback>>

\* A refusal, or asyncpg's connection timeout.  "conn" is None in the except block.
ConnectError ==
  /\ Go("connect", "backoff")
  /\ db # "up"
  /\ conn' = "none" /\ listening' = FALSE /\ left' = (left \/ conn = "open")
  /\ UNCHANGED <<db, version, lifespan, callback>>

AddListener ==
  /\ Go("listen", "sleep")
  /\ conn = "open" /\ db = "up"
  /\ listening' = TRUE
  /\ UNCHANGED <<db, version, lifespan, conn, left, callback>>

\* Mutant: the except block does not close the connection.
AddListenerErrorKeeps ==
  /\ Go("listen", "backoff")
  /\ conn = "lost" \/ ("refusal" \in Faults /\ db = "up")
  /\ UNCHANGED <<db, version, lifespan, conn, listening, left, callback>>

\* The connection broke, or the server answers LISTEN with an error.
AddListenerError ==
  /\ Go("listen", "close")
  /\ conn = "lost" \/ ("refusal" \in Faults /\ db = "up")
  /\ UNCHANGED <<db, version, lifespan, conn, listening, left, callback>>

\* conn.close() in the except block; its own error is ignored.
Close ==
  /\ Go("close", "backoff")
  /\ conn = "lost" \/ db # "silent"
  /\ conn' = "none" /\ listening' = FALSE
  /\ UNCHANGED <<db, version, lifespan, left, callback>>

\* Mutant: the loop is left after an error.
BackoffGivesUp ==
  /\ Go("backoff", "ended")
  /\ UNCHANGED <<db, version, lifespan, conn, listening, left, callback>>

\* asyncio.sleep(3.0) and the test of the outer loop.
Backoff ==
  /\ Go("backoff", NextRound)
  /\ UNCHANGED <<db, version, lifespan, conn, listening, left, callback>>

\* One turn of the inner loop.  It looks at stop_event only, and that is set together
\* with the cancellation: the remove_listener and close behind the loop are not reached.
Sleep ==
  /\ Go("sleep", "sleep")
  /\ ~stop
  /\ UNCHANGED <<db, version, lifespan, conn, listening, left, callback>>

\* CancelledError at the await the task is at.  In the try block it is caught, in the
\* except block it leaves the coroutine; either way nothing is closed any more.
Cancelled ==
  /\ cancel /\ pc # "ended"
  /\ pc' = "ended" /\ cancel' = FALSE
  /\ left' = (left \/ conn = "open")
  /\ UNCHANGED <<db, version, app, stop, conn, listening, callback>>

----------------------------------------------------------------------------
(* The lifespan. *)

Shutdown ==
  /\ "shutdown" \in Faults /\ app = "running"
  /\ app' = "stopping" /\ stop' = TRUE /\ cancel' = (pc # "ended")
  /\ UNCHANGED <<db, version, listener, callback>>

\* "await listener_task" returns or raises; Redis, auth and the engine are closed and
\* the event loop ends with the callbacks that are left.
Closed ==
  /\ app = "stopping" /\ pc = "ended"
  /\ app' = "closed"
  /\ task' = [n \in Commits |-> IF task[n] \in {"none", "done"} THEN task[n] ELSE "lost"]
  /\ UNCHANGED <<db, version, stop, cancel, listener, branch, seen, failed, events>>

----------------------------------------------------------------------------
(* A callback: publish_dashboard_event(branch_id). *)

Advance(n, from, to) == task[n] = from /\ task' = [task EXCEPT ![n] = to]

\* Mutant: what was counted for an earlier notification is used again.
MetricsOld(n) ==
  /\ Advance(n, "metrics", IF branch[n] = None THEN "global" ELSE "branch")
  /\ db = "up"
  /\ seen' = [seen EXCEPT ![n] = n - 1]
  /\ UNCHANGED <<db, version, lifespan, listener, branch, failed, events>>

Metrics(n) ==
  /\ Advance(n, "metrics", IF branch[n] = None THEN "global" ELSE "branch")
  /\ db = "up"
  /\ seen' = [seen EXCEPT ![n] = version]
  /\ UNCHANGED <<db, version, lifespan, listener, branch, failed, events>>

\* Logged, and nothing is published.
MetricsError(n) ==
  /\ Advance(n, "metrics", "done")
  /\ db # "up" \/ "metrics" \in Faults
  /\ failed' = failed \cup {n}
  /\ UNCHANGED <<db, version, lifespan, listener, branch, seen, events>>

\* Mutant: the event of a branch goes to its own channel only.
PublishBranchOnly(n) ==
  /\ Advance(n, "branch", "done")
  /\ events' = [events EXCEPT ![branch[n]] = Append(@, <<n, seen[n]>>)]
  /\ UNCHANGED <<db, version, lifespan, listener, branch, seen, failed>>

PublishBranch(n) ==
  /\ Advance(n, "branch", "global")
  /\ events' = [events EXCEPT ![branch[n]] = Append(@, <<n, seen[n]>>)]
  /\ UNCHANGED <<db, version, lifespan, listener, branch, seen, failed>>

PublishGlobal(n) ==
  /\ Advance(n, "global", "done")
  /\ events' = [events EXCEPT ![None] = Append(@, <<n, seen[n]>>)]
  /\ UNCHANGED <<db, version, lifespan, listener, branch, seen, failed>>

\* An error of either publication, logged; the second one is not tried any more.
PublishError(n) ==
  /\ "redis" \in Faults
  /\ Advance(n, "branch", "done") \/ Advance(n, "global", "done")
  /\ failed' = failed \cup {n}
  /\ UNCHANGED <<db, version, lifespan, listener, branch, seen, events>>

----------------------------------------------------------------------------

Database == Lose \/ (\E s \in {"up", "down", "silent"} : Outage(s))
            \/ (\E b \in Channels : Notified(b))

Listen == \/ ConnectOk \/ ConnectError \/ AddListener \/ AddListenerError
          \/ Close \/ Backoff \/ Sleep \/ Cancelled

Callback(n) == \/ Metrics(n) \/ MetricsError(n)
               \/ PublishBranch(n) \/ PublishGlobal(n) \/ PublishError(n)

Next == Database \/ Listen \/ Shutdown \/ Closed \/ \E n \in Commits : Callback(n)

Spec == Init /\ [][Next]_vars

\* The event loop runs whatever is ready; the database may be away as long as it likes.
FairSpec ==
  /\ Spec /\ WF_vars(Listen) /\ WF_vars(Closed)
  /\ \A n \in Commits : WF_vars(Callback(n))

----------------------------------------------------------------------------

\* However often it fails and tries again, the listener holds one connection: an open one
\* is let go of at shutdown only (notifier.py 127-136).
OneConnection == left => stop /\ pc = "ended"

\* From some time on the database is reachable, no connection breaks and LISTEN is not
\* refused.
Calm ==
  /\ <>[](db = "up" /\ app = "running")
  /\ <>[][conn' # "lost"]_conn
  /\ <>[][pc = "listen" => pc' # "close"]_pc

\* Until it listens for the first time the listener goes on trying, and succeeds in the
\* end, however long the database was away and however often a connection broke.  (Once it
\* has listened it is in the inner loop, which never looks at the connection: for a loss
\* after that the docstring's "Automatically reconnects", notifier.py 88, is not what the
\* code does.)
ConnectsWhenReachable == Calm => <>listening

\* A notification that reached the listener is published for the dashboards of its branch
\* and for the global ones, with metrics at least as new as its commit, however the
\* callbacks overlap; or its failure was logged, or the process ends, or the database
\* stays silent (publisher.py 72-84).
NotificationIsPublished ==
  <>[](db # "silent") =>
    \A n \in Commits :
      task[n] = "metrics" ~>
        \/ \A ch \in {None, branch[n]} : \E e \in Range(events[ch]) : e[1] = n /\ e[2] >= n
        \/ n \in failed \/ app = "closed"
=====================================================================================
