-------------------------------- MODULE LiveDashboard --------------------------------
(***************************************************************************)
(* From a detection to a dashboard: the gRPC server (module Ingestion) and *)
(* the API server (module DashboardStream) are two processes that share    *)
(* PostgreSQL, where the one commits and the other reads its snapshots,    *)
(* and Redis, where the one publishes and the other is subscribed.         *)
(*                                                                         *)
(* The events of Redis' global channel are those the ingestion publishes:  *)
(* the two modules take that step together, every other step alone.        *)
(***************************************************************************)
EXTENDS Naturals, Sequences, FiniteSets

CONSTANTS
  Streams, Detections, Messages, DbPool, IngestionFaults, NoRow, NoMessage,
  Values, Unparsable, Empty, NULL, WaitingSession, NoPayload,
  Conns, Tickets, Branches, Global, BlankName, Requests, StreamFaults, RedisPool, MaxEvents,
  None

VARIABLES
  rows, waiting, conns, at, cur, found, base, tx, notes, event, channel, delivered,
  msg, stored, home, acks, doubt,
  keys, published, subs, inbox, pubsubs, sessions, pc, asked, payload, reader, message,
  client, code, frames, issued, redeemer, accepted, start, broken,
  shown,   \* history: what was stored when the snapshot's first query ran, and its last
  before,  \* history: what was stored when SUBSCRIBE took effect
  joined   \* history: the connections whose SUBSCRIBE took effect

ingestion == <<rows, waiting, conns, at, cur, found, base, tx, notes, event, channel,
               delivered, msg, stored, home, acks, doubt>>
dashboard == <<keys, published, subs, inbox, pubsubs, sessions, pc, asked, payload, reader,
               message, client, code, frames, issued, redeemer, accepted, start, broken>>
history   == <<shown, before, joined>>
vars      == <<ingestion, dashboard, history>>

In == INSTANCE Ingestion WITH pc <- at, PoolSize <- DbPool, Faults <- IngestionFaults
D  == INSTANCE DashboardStream WITH Blank <- BlankName, PoolSize <- RedisPool, Faults <- StreamFaults

\* The assumptions of the two modules, on the constants they are instantiated with.
ASSUME LiveAssumption ==
  /\ IngestionFaults \subseteq In!FaultKinds /\ Messages \subseteq In!Message
  /\ DbPool \in Nat \ {0}
  /\ None \notin Detections /\ NoRow \notin In!Row /\ NoMessage \notin In!Message
  /\ Unparsable \subseteq Values
  /\ Empty \notin Values /\ NULL \notin Values /\ Empty # NULL
  /\ WaitingSession \notin In!CustomerFlow /\ NoPayload \notin In!CustomerFlow
  /\ WaitingSession # NoPayload
  /\ Requests \subseteq D!Request /\ StreamFaults \subseteq D!FaultKinds
  /\ RedisPool \in Nat \ {0} /\ MaxEvents \in Nat
  /\ Global \notin Branches /\ BlankName \notin D!Names
  /\ None \notin D!Names \cup {BlankName} \cup Tickets \cup Conns

Init ==
  /\ In!Init /\ D!Init
  /\ shown = [c \in Conns |-> [first |-> {}, last |-> {}]]
  /\ before = [c \in Conns |-> {}]
  /\ joined = {}

\* Mutant: the commit's event is not for Redis but for the sockets of the own process.
PublishLocally(s) ==
  /\ In!Publish(s)
  /\ UNCHANGED <<dashboard, history>>

\* One redis.publish on the global channel: branch_id is None for what the ingestion writes.
Publish(s) ==
  /\ In!Publish(s) /\ D!Publish(Global)
  /\ UNCHANGED history

\* Any other step of the gRPC server.
Ingest ==
  /\ In!Next /\ UNCHANGED channel
  /\ UNCHANGED <<dashboard, history>>

\* The steps of the API server, which publishes nothing itself.
Handle ==
  \/ \E t \in Tickets : D!Expire(t) \/ (\E name \in D!Names : D!CreateTicket(t, name))
  \/ \E c \in Conns :
       \/ \E request \in Requests : D!Connect(c, request)
       \/ D!Leave(c) \/ D!ReaderStops(c) \/ D!Progress(c) \/ D!Failure(c)
  \/ "crash" \in StreamFaults /\ D!Crash

\* The handler of c comes to the await "to" in this step.
Reaches(c, to) == pc[c] # to /\ pc'[c] = to

\* The queries of a snapshot run between the opening of its session and its end.
Serve ==
  /\ Handle
  /\ shown' = [c \in Conns |->
                 [first |-> IF Reaches(c, "snapshot") THEN stored ELSE shown[c].first,
                  last  |-> IF Reaches(c, "accept") THEN stored ELSE shown[c].last]]
  /\ before' = [c \in Conns |-> IF c \in subs' \ subs THEN stored ELSE before[c]]
  /\ joined' = joined \cup subs'
  /\ UNCHANGED ingestion

Next == Ingest \/ Serve \/ (\E s \in Streams : Publish(s))

Spec == Init /\ [][Next]_vars

FairSpec == Spec /\ In!Fairness /\ D!Fairness

----------------------------------------------------------------------------

\* What the i-th frame of c shows: the states its first and its last query saw.
View(c, i) ==
  LET n == frames[c][i][2]
  IN  IF n = 0 THEN shown[c] ELSE [first |-> channel[n].first, last |-> channel[n].last]

\* The gap between the snapshot and the subscription closes with the next detection: an
\* event for a detection stored after the subscription shows everything that was stored
\* before it, also what was published while nobody listened.
GapIsRepaired ==
  \A c \in Conns : \A i \in DOMAIN frames[c] :
    LET n == frames[c][i][2]
    IN  n > 0 /\ channel[n].of \notin before[c] => before[c] \subseteq channel[n].first

\* With one stream of detections a dashboard never goes back: each frame was computed
\* after everything the frame before it shows.
DisplayNeverGoesBack ==
  \A c \in Conns : \A i \in DOMAIN frames[c] :
    i > 1 => View(c, i - 1).last \subseteq View(c, i).first

\* "Broadcasted when an ML detection is stored in PostgreSQL" (DOCUMENTATION.md 400), as
\* far as the code does it, for clients without a branch: a detection stored while a client
\* is subscribed comes to be shown by a frame it gets, unless the client leaves or the
\* connection to Redis broke.
UpdatesArePushed ==
  \A c \in Conns : \A d \in Detections :
    (c \in joined /\ d \in stored \ before[c]) ~>
      \/ \E i \in DOMAIN frames[c] : d \in View(c, i).first
      \/ reader[c] = "done" \/ c \in broken
======================================================================================
