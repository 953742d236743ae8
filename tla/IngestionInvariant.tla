--------------------------- MODULE IngestionInvariant ---------------------------
(***************************************************************************)
(* The inductive invariant of module Ingestion: what is true of the store  *)
(* and of every coroutine's locals between two awaits.  TLC checks it on   *)
(* the instances of MCIngestion, Ingestion_proofs proves it.               *)
(***************************************************************************)
EXTENDS Ingestion

BeforeCommit == {"process", "loaded", "flushed"}
AfterCommit  == {"metrics", "metrics_rest", "publish", "notify", "close", "ack_ok"}

\* A coroutine works on one unanswered detection, which no other coroutine has.
WorkInv ==
  \A s \in Streams :
    /\ pc[s] = "idle" <=> cur[s] = None
    /\ cur[s] # None => msg[cur[s]] # NoMessage /\ acks[cur[s]] = "none"
    /\ \A t \in Streams : cur[t] = cur[s] /\ cur[s] # None => t = s
    /\ pc[s] \in BeforeCommit => cur[s] \notin stored
    /\ pc[s] \in AfterCommit => cur[s] \in stored

\* What the tables and the answers say of the detections.
HistoryInv ==
  \A d \in Detections :
    /\ msg[d] \in Messages \cup {NoMessage}
    /\ msg[d] = NoMessage => acks[d] = "none" /\ d \notin stored
    /\ rows[d] # NoRow => d \in stored
    /\ acks[d] = "ok" => d \in stored
    /\ d \in stored => Visible(d)

\* A loaded row is in the table, and what it had when it was loaded it still has.
LoadOf(s) ==
  /\ pc[s] \in {"idle", "process"} => found[s] = None
  /\ pc[s] = "loaded" => Received(s) \in CustomerFlow /\ ~EntryOnly(Received(s))
  /\ found[s] # None =>
       /\ Received(s) \in CustomerFlow /\ ~EntryOnly(Received(s))
       /\ rows[found[s]] # NoRow /\ base[s] \in Row
       /\ \A c \in Columns : base[s][c] # NULL => rows[found[s]][c] # NULL

LoadInv == \A s \in Streams : LoadOf(s)

\* What a flushed transaction is about to do: insert a complete row for cur[s] out of
\* its message, or patch found[s] with fields of its message.
Inserts(s) ==
  LET m == Received(s) IN
  /\ found[s] = None /\ m \in CustomerFlow
  /\ tx[s].table = "entries" /\ tx[s].uuid = cur[s] /\ tx[s].cols \in Row
  /\ \A c \in Columns : tx[s].cols[c] \in {NULL, m[c]}
  /\ \A c \in Recorded(m) : m[c] # Empty => tx[s].cols[c] # NULL

Updates(s) ==
  LET m == Received(s) IN
  /\ found[s] # None
  /\ \/ tx[s] = NoWrite
     \/ tx[s].table = "entries" /\ tx[s].uuid = found[s]
  /\ \A c \in Columns : tx[s].cols[c] \in {Empty, m[c]}
  /\ \A c \in Recorded(m) : m[c] # Empty => tx[s].cols[c] # Empty \/ base[s][c] # NULL

TxOf(s) ==
  /\ pc[s] # "flushed" => tx[s] = NoWrite
  /\ pc[s] = "flushed" =>
       \/ tx[s] = WaitingInsert /\ Received(s) = WaitingSession
       \/ Inserts(s)
       \/ Updates(s)

TxInv == \A s \in Streams : TxOf(s)

\* Which session of a stream may hold a connection at which await.
ConnInv ==
  \A s \in Streams :
    /\ <<s, "ingest">> \in conns => pc[s] \in {"loaded", "flushed", "close"}
    /\ <<s, "metrics">> \in conns => pc[s] = "metrics_rest"

\* What was seen by the metrics queries, and how an open outcome is remembered.
EventInv ==
  /\ \A s \in Streams :
       /\ pc[s] \in {"metrics_rest", "publish"} => cur[s] \in event[s].first
       /\ pc[s] = "ack_fail" /\ cur[s] \in stored => cur[s] \in doubt
  /\ EventReflectsOwnCommit
  /\ NackedIsNotStored

\* What a published event saw had been stored, and a stream's next event has seen it.
OrderInv ==
  /\ EventsInStreamOrder
  /\ \A i \in DOMAIN channel :
       /\ channel[i].last \subseteq stored
       /\ pc[channel[i].stream] \in {"metrics_rest", "publish"} =>
            channel[i].last \subseteq event[channel[i].stream].first
  /\ \A s \in Streams : pc[s] = "publish" => event[s].last \subseteq stored

IInv ==
  /\ TypeOK /\ WorkInv /\ HistoryInv /\ LoadInv /\ TxInv /\ ConnInv /\ EventInv
  /\ RowsComeFromStored /\ OrderInv

\* The next statement of s needs a connection and there is none; or its UPDATE waits for
\* a row that an open transaction of another stream has written.
WaitsForConnection(s) ==
  /\ Cardinality(conns) >= PoolSize
  /\ \/ pc[s] \in {"process", "loaded", "notify"} /\ <<s, "ingest">> \notin conns
     \/ pc[s] = "metrics"
WaitsForRow(s) == pc[s] = "loaded" /\ found[s] # None /\ LockedByOther(s, found[s])

\* Never does everyone wait for everyone.
SomeoneGoesOn ==
  (\E s \in Streams : pc[s] # "idle") =>
    \E s \in Streams : pc[s] # "idle" /\ ~WaitsForConnection(s) /\ ~WaitsForRow(s)

\* A transaction that has begun has its connection.
HoldInv == \A s \in Streams : pc[s] \in {"loaded", "flushed"} => <<s, "ingest">> \in conns
=================================================================================
