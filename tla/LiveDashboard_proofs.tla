----------------------------- MODULE LiveDashboard_proofs -----------------------------
(***************************************************************************)
(* Theorems about module LiveDashboard, for any number of streams,         *)
(* detections, clients and events: the two processes it composes behave as *)
(* their own modules say, so that the invariants proved of those modules   *)
(* hold here; and what a dashboard shows across the gap between its        *)
(* snapshot and its subscription.                                          *)
(***************************************************************************)
EXTENDS LiveDashboard, TLAPS

InP == INSTANCE Ingestion_proofs
         WITH pc <- at, PoolSize <- DbPool, Faults <- IngestionFaults
DP == INSTANCE DashboardStream_proofs
        WITH Blank <- BlankName, PoolSize <- RedisPool, Faults <- StreamFaults

----------------------------------------------------------------------------
(* The instances of the modules with theorems are those of LiveDashboard. *)

\* The assumptions of the modules' theorems are those of LiveDashboard.
LEMMA Assumptions ==
  /\ /\ IngestionFaults \subseteq InP!FaultKinds /\ Messages \subseteq InP!Message
     /\ DbPool \in Nat \ {0}
     /\ None \notin Detections /\ NoRow \notin InP!Row /\ NoMessage \notin InP!Message
  /\ /\ Unparsable \subseteq Values
     /\ Empty \notin Values /\ NULL \notin Values /\ Empty # NULL
  /\ /\ WaitingSession \notin InP!CustomerFlow /\ NoPayload \notin InP!CustomerFlow
     /\ WaitingSession # NoPayload
  /\ /\ Requests \subseteq DP!Request /\ StreamFaults \subseteq DP!FaultKinds
     /\ RedisPool \in Nat \ {0} /\ MaxEvents \in Nat
     /\ Global \notin Branches /\ BlankName \notin DP!Names
     /\ None \notin DP!Names \cup {BlankName} \cup Tickets \cup Conns
BY LiveAssumption
DEF
    In!Columns, In!CustomerFlow, In!EntryColumns, In!ExitColumns, In!FaultKinds, In!Message,
    In!Row, InP!Columns, InP!CustomerFlow, InP!EntryColumns, InP!ExitColumns,
    InP!FaultKinds, InP!Message, InP!Row,
    D!FaultKinds, D!Names, D!Request, DP!FaultKinds, DP!Names, DP!Request

LEMMA SameIngestion == In!Spec <=> InP!Spec
<1>1. In!Init <=> InP!Init
  BY DEF
    In!Columns, In!EntryColumns, In!ExitColumns, In!Init, In!NoWrite, InP!Columns,
    InP!EntryColumns, InP!ExitColumns, InP!Init, InP!NoWrite
<1>2. In!Next <=> InP!Next
  BY DEF
    In!Acknowledge, In!Applied, In!ApplyEntryData, In!ApplyExitData, In!BadTimestamp,
    In!Cancel, In!Cardinality, In!ChangedColumns, In!CloseError, In!CloseSession,
    In!Columns, In!Commit, In!CommitUnknown, In!Complete, In!Connect, In!Crash,
    In!CreateCompleteEntry, In!CreateEntryOnly, In!CustomerFlow, In!DatabaseError,
    In!EndTransaction, In!EntryColumns, In!EntryOnly, In!EntryWrite, In!ExitColumns,
    In!ExitOnly, In!Failure, In!FindEntry, In!FindEntryByCount, In!Flush, In!Forget,
    In!Goto, In!HasEntry, In!HasExit, In!InsertComplete, In!InsertEntryOnly,
    In!InsertWaitingTime, In!LockedByOther, In!LookupCount, In!Merge, In!MetricsError,
    In!MetricsFirst, In!MetricsRest, In!Next, In!NoWrite, In!Notify, In!NotifyError,
    In!OrNone, In!Progress, In!Publish, In!PublishError, In!Receive, In!Received, In!Refuse,
    In!RefuseLoaded, In!Refused, In!Released, In!Row, In!Sessions, In!TakeEffect,
    In!TimeColumns, In!UpdateEntry, In!WaitingInsert, In!store, In!work, InP!Acknowledge,
    InP!Applied, InP!ApplyEntryData, InP!ApplyExitData, InP!BadTimestamp, InP!Cancel,
    InP!Cardinality, InP!ChangedColumns, InP!CloseError, InP!CloseSession, InP!Columns,
    InP!Commit, InP!CommitUnknown, InP!Complete, InP!Connect, InP!Crash,
    InP!CreateCompleteEntry, InP!CreateEntryOnly, InP!CustomerFlow, InP!DatabaseError,
    InP!EndTransaction, InP!EntryColumns, InP!EntryOnly, InP!EntryWrite, InP!ExitColumns,
    InP!ExitOnly, InP!Failure, InP!FindEntry, InP!FindEntryByCount, InP!Flush, InP!Forget,
    InP!Goto, InP!HasEntry, InP!HasExit, InP!InsertComplete, InP!InsertEntryOnly,
    InP!InsertWaitingTime, InP!LockedByOther, InP!LookupCount, InP!Merge, InP!MetricsError,
    InP!MetricsFirst, InP!MetricsRest, InP!Next, InP!NoWrite, InP!Notify, InP!NotifyError,
    InP!OrNone, InP!Progress, InP!Publish, InP!PublishError, InP!Receive, InP!Received,
    InP!Refuse, InP!RefuseLoaded, InP!Refused, InP!Released, InP!Row, InP!Sessions,
    InP!TakeEffect, InP!TimeColumns, InP!UpdateEntry, InP!WaitingInsert, InP!store,
    InP!work
<1> QED BY <1>1, <1>2, PTL DEF In!Spec, InP!Spec, In!vars, InP!vars

LEMMA SameStream == D!Spec <=> DP!Spec
<1>1. D!Init <=> DP!Init
  BY DEF
    D!Channels, D!Init, D!Names, D!NoEvent, D!NoRequest, DP!Channels, DP!Init, DP!Names,
    DP!NoEvent, DP!NoRequest
<1>2. D!Next <=> DP!Next
  BY DEF
    D!Accept, D!Aclose, D!BrokerFailed, D!CancelReader, D!Cardinality, D!Channel,
    D!ChannelName, D!Channels, D!CleanupError, D!CloseWith, D!Connect, D!Crash,
    D!CreateTicket, D!Expected, D!Expire, D!Failure, D!Forward, D!ForwardError, D!GetError,
    D!GetMessage, D!GetNothing, D!Goto, D!GreetError, D!Leave, D!Loop, D!Matches, D!Names,
    D!Next, D!NoEvent, D!OpenSession, D!Progress, D!Publish, D!ReaderStops, D!Reconnect,
    D!Redeem, D!RedeemError, D!RedisRoom, D!RejectMismatch, D!RejectRequest, D!RejectTicket,
    D!Running, D!Scope, D!SendSnapshot, D!Snapshot, D!SnapshotError, D!Subscribe,
    D!SubscribeError, D!SubscribeRefused, D!Target, D!TargetBranch, D!Unsubscribe,
    D!Unsubscribed, D!handler, D!history, D!redis, DP!Accept, DP!Aclose, DP!BrokerFailed,
    DP!CancelReader, DP!Cardinality, DP!Channel, DP!ChannelName, DP!Channels,
    DP!CleanupError, DP!CloseWith, DP!Connect, DP!Crash, DP!CreateTicket, DP!Expected,
    DP!Expire, DP!Failure, DP!Forward, DP!ForwardError, DP!GetError, DP!GetMessage,
    DP!GetNothing, DP!Goto, DP!GreetError, DP!Leave, DP!Loop, DP!Matches, DP!Names, DP!Next,
    DP!NoEvent, DP!OpenSession, DP!Progress, DP!Publish, DP!ReaderStops, DP!Reconnect,
    DP!Redeem, DP!RedeemError, DP!RedisRoom, DP!RejectMismatch, DP!RejectRequest,
    DP!RejectTicket, DP!Running, DP!Scope, DP!SendSnapshot, DP!Snapshot, DP!SnapshotError,
    DP!Subscribe, DP!SubscribeError, DP!SubscribeRefused, DP!Target, DP!TargetBranch,
    DP!Unsubscribe, DP!Unsubscribed, DP!handler, DP!history, DP!redis
<1> QED
  BY <1>1, <1>2, PTL
  DEF D!Spec, DP!Spec, D!vars, DP!vars, D!redis, DP!redis, D!handler, DP!handler,
      D!history, DP!history

----------------------------------------------------------------------------
(* The composition. *)

\* Taken by itself, each of the two processes does what its own module says: the common
\* step is a publication of both, every other step leaves one of them alone.
THEOREM Composition == Spec => In!Spec /\ D!Spec
<1>1. Init => In!Init /\ D!Init
  BY DEF Init
<1>2. [Next]_vars => [In!Next]_(In!vars) /\ [D!Next]_(D!vars)
  <2>1. ASSUME Ingest PROVE In!Next /\ UNCHANGED D!vars
    BY <2>1 DEF Ingest, dashboard, D!vars, D!redis, D!handler, D!history
  <2>2. ASSUME Serve PROVE UNCHANGED In!vars /\ D!Next
    <3>1. UNCHANGED In!vars
      BY <2>2 DEF Serve, ingestion, In!vars
    <3>2. D!Next
      BY <2>2 DEF Serve, Handle, D!Next
    <3> QED BY <3>1, <3>2
  <2>3. ASSUME NEW s \in Streams, Publish(s) PROVE In!Next /\ D!Next
    <3>1. In!Next
      BY <2>3 DEF Publish, In!Next, In!Progress
    <3>2. D!Next
      BY <2>3 DEF Publish, D!Next, D!Channels, D!Names
    <3> QED BY <3>1, <3>2
  <2>4. ASSUME UNCHANGED vars PROVE UNCHANGED In!vars /\ UNCHANGED D!vars
    BY <2>4 DEF vars, ingestion, dashboard, In!vars, D!vars, D!redis, D!handler, D!history
  <2> QED BY <2>1, <2>2, <2>3, <2>4 DEF Next
<1> QED BY <1>1, <1>2, PTL DEF Spec, In!Spec, D!Spec

\* What is proved of the gRPC server and of the API server holds in the whole system.
LEMMA Components == Spec => []InP!IInv /\ []DP!DInv
<1>1. InP!Spec => []InP!IInv
  BY InP!Invariance, Assumptions
<1>2. DP!Spec => []DP!DInv
  BY DP!Invariance, Assumptions
<1> QED BY <1>1, <1>2, Composition, SameIngestion, SameStream, PTL

\* The whole system keeps both promises: the gRPC server's to the database's readers
\* (module DetectionStore) and the API server's to the holders of tickets (module
\* TicketAuthority), whatever the other process does meanwhile.
THEOREM KeepsPromises == Spec => InP!Implements /\ DP!ImplementsAuthority
<1>1. InP!Spec => InP!Implements
  BY InP!Implementation, Assumptions
<1>2. DP!Spec => DP!ImplementsAuthority
  BY DP!Implementation, Assumptions
<1> QED BY <1>1, <1>2, Composition, SameIngestion, SameStream, PTL

----------------------------------------------------------------------------
(* What one step of either process changes, as far as the gap is concerned. *)

\* A stream is between the first query of its metrics and the publication.
Counting == {"metrics_rest", "publish"}

\* What is stored stays stored and grows by a commit only; a stream that has counted
\* keeps its detection, and what it counted is what was stored when it did.
Counted(s) ==
  /\ at'[s] \in Counting =>
       /\ cur'[s] = cur[s]
       /\ \/ at[s] \in Counting /\ event'[s].first = event[s].first
          \/ event'[s].first = stored /\ stored' = stored
  /\ at'[s] = "publish" =>
       \/ at[s] = "publish" /\ event'[s].last = event[s].last
       \/ event'[s].last = stored

LEMMA IngestStep ==
  ASSUME InP!IInv, In!Next
  PROVE  /\ stored \subseteq stored'
         /\ stored' = stored \/ (\E s \in Streams : at[s] = "flushed" /\ at'[s] \notin Counting)
         /\ \A s \in Streams : Counted(s)
<1> USE DEF InP!IInv, InP!TypeOK, Counting, Counted, In!store, In!work, In!Goto
<1> DEFINE Goal == /\ stored \subseteq stored'
                   /\ \/ stored' = stored
                      \/ \E s \in Streams : at[s] = "flushed" /\ at'[s] \notin Counting
                   /\ \A s \in Streams : Counted(s)
<1>1. ASSUME NEW s \in Streams, NEW e \in Detections, In!Receive(s, e) PROVE Goal
  BY <1>1 DEF In!Receive
<1>2. ASSUME NEW s \in Streams, In!Progress(s) PROVE Goal
  <2>1. CASE In!Refuse(s)
    BY <2>1 DEF In!Refuse
  <2>2. CASE In!InsertEntryOnly(s)
    BY <2>2 DEF In!InsertEntryOnly, In!Flush
  <2>3. CASE In!InsertWaitingTime(s)
    BY <2>3 DEF In!InsertWaitingTime, In!Flush
  <2>4. CASE In!FindEntry(s)
    BY <2>4 DEF In!FindEntry
  <2>5. CASE In!RefuseLoaded(s)
    BY <2>5 DEF In!RefuseLoaded
  <2>6. CASE In!UpdateEntry(s)
    BY <2>6 DEF In!UpdateEntry, In!Flush
  <2>7. CASE In!InsertComplete(s)
    BY <2>7 DEF In!InsertComplete, In!Flush
  <2>8. CASE In!Commit(s)
    BY <2>8 DEF In!Commit, In!TakeEffect
  <2>9. CASE In!MetricsFirst(s)
    BY <2>9 DEF In!MetricsFirst
  <2>10. CASE In!MetricsRest(s)
    BY <2>10 DEF In!MetricsRest
  <2>11. CASE In!Publish(s)
    BY <2>11 DEF In!Publish
  <2>12. CASE In!Notify(s)
    BY <2>12 DEF In!Notify
  <2>13. CASE In!CloseSession(s)
    BY <2>13 DEF In!CloseSession
  <2>14. CASE In!Acknowledge(s)
    BY <2>14 DEF In!Acknowledge, In!Forget
  <2> QED BY <1>2, <2>1, <2>2, <2>3, <2>4, <2>5, <2>6, <2>7, <2>8, <2>9,
       <2>10, <2>11, <2>12, <2>13, <2>14 DEF In!Progress
<1>3. ASSUME NEW s \in Streams, In!Failure(s) PROVE Goal
  <2>1. CASE In!DatabaseError(s)
    BY <2>1 DEF In!DatabaseError
  <2>2. CASE In!CommitUnknown(s)
    BY <2>2 DEF In!CommitUnknown, In!TakeEffect
  <2>3. CASE In!MetricsError(s)
    BY <2>3 DEF In!MetricsError
  <2>4. CASE In!NotifyError(s)
    BY <2>4 DEF In!NotifyError
  <2>5. CASE In!CloseError(s)
    BY <2>5 DEF In!CloseError
  <2>6. CASE In!PublishError(s)
    BY <2>6 DEF In!PublishError
  <2>7. CASE In!Cancel(s)
    BY <2>7 DEF In!Cancel, In!Forget
  <2> QED BY <1>3, <2>1, <2>2, <2>3, <2>4, <2>5, <2>6, <2>7 DEF In!Failure
<1>4. ASSUME In!Crash PROVE Goal
  BY <1>4 DEF In!Crash
<1> QED BY <1>1, <1>2, <1>3, <1>4 DEF In!Next

\* The handler of c between SUBSCRIBE and the cleanup.
Streaming == {"loop", "get", "forward"}

\* What one step of the API server may be for the handler of c, which it need not be a
\* step of: nothing is put before the client and the events at hand stay or are lost;
\* the subscription; an event is taken out of the inbox; it is sent; the snapshot is sent.
Rests(c) ==
  /\ frames'[c] = frames[c] /\ inbox'[c] \in {inbox[c], <<>>}
  /\ pc'[c] \in Streaming => pc[c] \in Streaming /\ asked'[c] = asked[c] /\ start'[c] = start[c]
  /\ pc'[c] = "forward" => pc[c] = "forward" /\ message'[c] = message[c]

Subscribes(c) ==
  /\ pc[c] = "subscribe" /\ pc'[c] = "loop"
  /\ start'[c] = published[D!Channel(c)]
  /\ asked'[c] = asked[c] /\ frames'[c] = frames[c] /\ inbox'[c] = inbox[c]

Takes(c) ==
  /\ pc[c] = "get" /\ pc'[c] = "forward"
  /\ inbox[c] # <<>> /\ message'[c] = Head(inbox[c]) /\ inbox'[c] = Tail(inbox[c])
  /\ asked'[c] = asked[c] /\ frames'[c] = frames[c] /\ start'[c] = start[c]

Shows(c) ==
  /\ pc[c] = "forward" /\ pc'[c] = "loop"
  /\ frames'[c] = Append(frames[c], message[c])
  /\ asked'[c] = asked[c] /\ inbox'[c] = inbox[c] /\ start'[c] = start[c]

Greets(c) ==
  /\ pc'[c] = "subscribe"
  /\ \E scope : frames'[c] = <<<<scope, 0>>>>
  /\ inbox'[c] = inbox[c]

Moves(c) == Rests(c) \/ Subscribes(c) \/ Takes(c) \/ Shows(c) \/ Greets(c)

LEMMA ServeStep ==
  ASSUME DP!DInv, Handle
  PROVE  published' = published /\ \A c \in Conns : Moves(c)
<1> DEFINE Goal == published' = published /\ \A c \in Conns : Moves(c)
<1> USE DEF DP!DInv, DP!TypeOK, Streaming, Moves, Rests, D!redis, D!handler, D!history, D!Goto
<1>1. ASSUME NEW t \in Tickets, D!Expire(t) PROVE Goal
  BY <1>1 DEF D!Expire
<1>2. ASSUME NEW t \in Tickets, NEW name \in D!Names, D!CreateTicket(t, name) PROVE Goal
  BY <1>2 DEF D!CreateTicket
<1>3. ASSUME NEW e \in Conns, NEW request \in Requests, D!Connect(e, request) PROVE Goal
  BY <1>3 DEF D!Connect
<1>4. ASSUME NEW e \in Conns, D!Leave(e) PROVE Goal
  BY <1>4 DEF D!Leave
<1>5. ASSUME NEW e \in Conns, D!ReaderStops(e) PROVE Goal
  BY <1>5 DEF D!ReaderStops
<1>6. ASSUME NEW e \in Conns, D!Progress(e) PROVE Goal
  <2>1. CASE D!RejectRequest(e)
    BY <2>1 DEF D!RejectRequest, D!CloseWith
  <2>2. CASE \E t \in Tickets : D!Redeem(e, t)
    BY <2>2 DEF D!Redeem
  <2>3. CASE D!RejectTicket(e)
    BY <2>3 DEF D!RejectTicket, D!CloseWith
  <2>4. CASE D!RejectMismatch(e)
    BY <2>4 DEF D!RejectMismatch, D!CloseWith
  <2>5. CASE D!OpenSession(e)
    BY <2>5 DEF D!OpenSession
  <2>6. CASE D!Snapshot(e)
    BY <2>6 DEF D!Snapshot
  <2>7. CASE D!Accept(e)
    BY <2>7 DEF D!Accept
  <2>8. CASE D!SendSnapshot(e)
    BY <2>8 DEF D!SendSnapshot, Greets
  <2>9. CASE D!Subscribe(e)
    BY <2>9 DEF D!Subscribe, Subscribes
  <2>10. CASE D!SubscribeRefused(e)
    BY <2>10 DEF D!SubscribeRefused, D!CloseWith
  <2>11. CASE D!Loop(e)
    BY <2>11 DEF D!Loop
  <2>12. CASE D!GetMessage(e)
    BY <2>12 DEF D!GetMessage, Takes
  <2>13. CASE D!GetNothing(e)
    BY <2>13 DEF D!GetNothing
  <2>14. CASE D!Forward(e)
    BY <2>14 DEF D!Forward, Shows
  <2>15. CASE D!CancelReader(e)
    BY <2>15 DEF D!CancelReader
  <2>16. CASE D!Unsubscribe(e)
    BY <2>16 DEF D!Unsubscribe, D!Unsubscribed
  <2>17. CASE D!Aclose(e)
    BY <2>17 DEF D!Aclose
  <2> QED
    BY <1>6, <2>1, <2>2, <2>3, <2>4, <2>5, <2>6, <2>7, <2>8, <2>9,
       <2>10, <2>11, <2>12, <2>13, <2>14, <2>15, <2>16, <2>17
    DEF D!Progress
<1>7. ASSUME NEW e \in Conns, D!Failure(e) PROVE Goal
  <2>1. CASE D!GreetError(e)
    BY <2>1 DEF D!GreetError
  <2>2. CASE D!ForwardError(e)
    BY <2>2 DEF D!ForwardError, D!CloseWith
  <2>3. CASE D!RedeemError(e)
    BY <2>3 DEF D!RedeemError, D!CloseWith
  <2>4. CASE D!SubscribeError(e)
    BY <2>4 DEF D!SubscribeError, D!CloseWith
  <2>5. CASE D!Reconnect(e)
    BY <2>5 DEF D!Reconnect
  <2>6. CASE D!GetError(e)
    BY <2>6 DEF D!GetError, D!CloseWith, D!Unsubscribed
  <2>7. CASE D!CleanupError(e)
    BY <2>7 DEF D!CleanupError, D!Unsubscribed
  <2>8. CASE D!SnapshotError(e)
    BY <2>8 DEF D!SnapshotError, D!CloseWith
  <2> QED
    BY <1>7, <2>1, <2>2, <2>3, <2>4, <2>5, <2>6, <2>7, <2>8
    DEF D!Failure
<1>8. ASSUME D!Crash PROVE Goal
  BY <1>8 DEF D!Crash, D!Running
<1> QED BY <1>1, <1>2, <1>3, <1>4, <1>5, <1>6, <1>7, <1>8 DEF Handle

----------------------------------------------------------------------------
(* The gap between the snapshot and the subscription. *)

\* The events of Redis' global channel are those the ingestion published, each for a
\* stored detection; no branch has any, and nobody was shown a later one.
ChannelInv ==
  /\ published[Global] = Len(channel)
  /\ \A b \in Branches : published[b] = 0
  /\ \A n \in DOMAIN channel : channel[n].of \in stored
  /\ \A c \in Conns : \A i \in DOMAIN frames[c] : frames[c][i][2] <= Len(channel)

\* An event, published or on its way, that does not see all of X is for a detection of X.
\* That is so of everything that was ever the contents of the table.
Known(X) ==
  /\ X \subseteq stored
  /\ \A n \in DOMAIN channel : channel[n].of \in X \/ X \subseteq channel[n].first
  /\ \A s \in Streams : at[s] \in Counting => cur[s] \in X \/ X \subseteq event[s].first

\* What was stored at the subscription of c.
RepairInv == \A c \in Conns : Known(before[c])

LEMMA SameChannel == \A c : D!Channel(c) = DP!Channel(c)
BY DEF
    D!Channel, D!ChannelName, D!Target, D!TargetBranch, DP!Channel, DP!ChannelName,
    DP!Target, DP!TargetBranch

\* The event in a handler's hand is one of the global channel.
LEMMA EventAtHand ==
  ASSUME DP!DInv, ChannelInv, NEW c \in Conns, pc[c] = "forward"
  PROVE  /\ message[c][2] \in 1..Len(channel)
         /\ D!Channel(c) = Global
<1>1. message[c] \in DP!Event /\ message[c][1] = DP!Channel(c)
  BY DEF DP!DInv, DP!ScopeInv, DP!ScopeOf
<1>2. message[c][2] <= published[DP!Channel(c)]
  BY DEF DP!DInv, DP!OrderInv, DP!OrderOf, DP!Streaming, DP!Taken
<1>3. message[c][2] \in 1..MaxEvents
  BY <1>1 DEF DP!Event
<1>4. DP!Channel(c) \in Branches \cup {Global}
  BY DEF DP!Channel, DP!ChannelName
<1>5. DP!Channel(c) = Global
  BY <1>2, <1>3, <1>4 DEF ChannelInv
<1>6. Len(channel) \in Nat
  BY <1>5 DEF ChannelInv, DP!DInv, DP!TypeOK, DP!Channels, DP!Names
<1> QED BY <1>2, <1>3, <1>5, <1>6, SameChannel DEF ChannelInv

\* What a publication does to both processes.
LEMMA PublishStep ==
  ASSUME InP!IInv, DP!DInv, NEW s \in Streams, Publish(s)
  PROVE  /\ In!Next
         /\ at[s] = "publish"
         /\ channel' = Append(channel, [stream |-> s, of |-> cur[s],
                                        first |-> event[s].first, last |-> event[s].last])
         /\ stored' = stored /\ event' = event /\ cur' = cur
         /\ published' = [published EXCEPT ![Global] = @ + 1]
         /\ inbox' = [c \in Conns |->
                        IF c \in subs /\ D!Channel(c) = Global
                        THEN Append(inbox[c], <<Global, published[Global] + 1>>) ELSE inbox[c]]
         /\ UNCHANGED <<subs, pc, asked, message, frames, start, history>>
<1>1. In!Next
  BY DEF Publish, In!Next, In!Progress
<1>2. In!Publish(s) /\ D!Publish(Global) /\ UNCHANGED history
  BY DEF Publish
<1> QED
  BY <1>1, <1>2
  DEF In!Publish, In!Goto, In!store, In!work, D!Publish, D!handler, D!history

\* Whatever is stored is known, and stays so.
LEMMA StoredIsKnown ==
  ASSUME InP!IInv, ChannelInv
  PROVE  Known(stored)
<1>1. \A s \in Streams : at[s] \in Counting => cur[s] \in stored
  BY DEF InP!IInv, InP!WorkInv, InP!AfterCommit, Counting
<1> QED BY <1>1 DEF Known, ChannelInv

LEMMA KnownStays ==
  ASSUME InP!IInv, DP!DInv, [Next]_vars, NEW X, Known(X)
  PROVE  Known(X)'
<1>1. CASE Ingest
  <2>1. In!Next /\ channel' = channel
    BY <1>1 DEF Ingest
  <2>2. stored \subseteq stored' /\ \A s \in Streams : Counted(s)
    BY <2>1, IngestStep
  <2> QED BY <2>1, <2>2 DEF Known, Counted
<1>2. CASE Serve
  BY <1>2 DEF Serve, ingestion, Known
<1>3. ASSUME NEW s \in Streams, Publish(s) PROVE Known(X)'
  <2> DEFINE e == [stream |-> s, of |-> cur[s],
                   first |-> event[s].first, last |-> event[s].last]
  <2>1. /\ channel' = Append(channel, e)
        /\ stored' = stored /\ event' = event /\ cur' = cur /\ at[s] = "publish"
    BY <1>3, PublishStep
  <2>2. \A t \in Streams : Counted(t)
    BY <1>3, PublishStep, IngestStep
  <2>3. \A n \in DOMAIN channel' :
          channel'[n] = e \/ (n \in DOMAIN channel /\ channel'[n] = channel[n])
    BY <2>1 DEF InP!IInv, InP!TypeOK
  <2>4. e.of \in X \/ X \subseteq e.first
    BY <2>1 DEF Known, Counting
  <2>5. \A n \in DOMAIN channel' : channel'[n].of \in X \/ X \subseteq channel'[n].first
    BY <2>3, <2>4 DEF Known
  <2>6. \A t \in Streams : at'[t] \in Counting => cur'[t] \in X \/ X \subseteq event'[t].first
    BY <2>1, <2>2 DEF Known, Counted
  <2> QED BY <2>1, <2>5, <2>6 DEF Known
<1>4. CASE UNCHANGED vars
  BY <1>4 DEF vars, ingestion, Known
<1> QED BY <1>1, <1>2, <1>3, <1>4 DEF Next

LEMMA ChannelStep ==
  ASSUME InP!IInv, DP!DInv, ChannelInv, [Next]_vars
  PROVE  ChannelInv'
<1>0. /\ channel \in Seq(InP!Event) /\ Len(channel) \in Nat
      /\ DOMAIN channel = 1..Len(channel)
      /\ published \in [DP!Channels -> 0..MaxEvents] /\ Global \in DP!Channels
      /\ Branches \subseteq DP!Channels /\ Global \notin Branches
      /\ frames \in [Conns -> Seq(DP!Frame)]
  BY LiveAssumption
  DEF InP!IInv, InP!TypeOK, DP!DInv, DP!TypeOK, DP!Channels, DP!Names
<1>1. CASE Ingest
  <2>1. In!Next /\ UNCHANGED <<channel, published, frames, history>>
    BY <1>1 DEF Ingest, dashboard
  <2>2. stored \subseteq stored'
    BY <2>1, IngestStep
  <2> QED BY <2>1, <2>2 DEF ChannelInv
<1>2. CASE Serve
  <2>1. UNCHANGED <<channel, stored>>
    BY <1>2 DEF Serve, ingestion
  <2>2. published' = published /\ \A c \in Conns : Moves(c)
    BY <1>2, ServeStep DEF Serve
  <2>3. ASSUME NEW c \in Conns, NEW i \in DOMAIN frames'[c]
        PROVE  frames'[c][i][2] <= Len(channel)
    <3>1. CASE frames'[c] = frames[c]
      BY <3>1, <2>3 DEF ChannelInv
    <3>2. CASE Shows(c)
      <4>1. message[c][2] \in 1..Len(channel)
        BY <3>2, EventAtHand DEF Shows
      <4>2. frames[c] \in Seq(DP!Frame) /\ DOMAIN frames[c] = 1..Len(frames[c])
        BY <1>0
      <4>3. i \in DOMAIN frames[c] \/ i = Len(frames[c]) + 1
        BY <3>2, <4>2, <2>3 DEF Shows
      <4>4. i \in DOMAIN frames[c] => frames'[c][i] = frames[c][i]
        BY <3>2, <4>2 DEF Shows
      <4>5. i = Len(frames[c]) + 1 => frames'[c][i] = message[c]
        BY <3>2, <4>2 DEF Shows
      <4> QED BY <4>1, <4>3, <4>4, <4>5, <1>0 DEF ChannelInv
    <3>3. CASE Greets(c)
      BY <3>3, <2>3, <1>0 DEF Greets
    <3> QED BY <3>1, <3>2, <3>3, <2>2 DEF Moves, Rests, Subscribes, Takes
  <2> QED BY <2>1, <2>2, <2>3 DEF ChannelInv
<1>3. ASSUME NEW s \in Streams, Publish(s) PROVE ChannelInv'
  <2> DEFINE e == [stream |-> s, of |-> cur[s],
                   first |-> event[s].first, last |-> event[s].last]
  <2>1. /\ channel' = Append(channel, e)
        /\ stored' = stored /\ at[s] = "publish"
        /\ published' = [published EXCEPT ![Global] = @ + 1]
        /\ frames' = frames
    BY <1>3, PublishStep DEF history
  <2>3. cur[s] \in stored
    BY <2>1 DEF InP!IInv, InP!WorkInv, InP!AfterCommit
  <2>4. /\ DOMAIN channel' = 1..Len(channel) + 1 /\ Len(channel') = Len(channel) + 1
        /\ \A n \in DOMAIN channel : channel'[n] = channel[n]
        /\ channel'[Len(channel) + 1] = e
    BY <2>1, <1>0
  <2>5. \A n \in DOMAIN channel' : n \in DOMAIN channel \/ channel'[n] = e
    BY <2>4, <1>0
  <2>6. published'[Global] = Len(channel')
    BY <2>1, <2>4, <1>0 DEF ChannelInv
  <2>7. \A b \in Branches : published'[b] = 0
    BY <2>1, <1>0 DEF ChannelInv
  <2>8. \A n \in DOMAIN channel' : channel'[n].of \in stored'
    BY <2>1, <2>3, <2>4, <2>5 DEF ChannelInv
  <2>9. ASSUME NEW c \in Conns, NEW i \in DOMAIN frames[c]
        PROVE  frames[c][i][2] <= Len(channel')
    <3>1. frames[c][i] \in DP!Frame
      BY <1>0, <2>9
    <3>2. frames[c][i][2] \in Nat
      BY <3>1, LiveAssumption DEF DP!Frame, DP!Event
    <3> QED BY <3>2, <2>4, <1>0, <2>9 DEF ChannelInv
  <2> QED BY <2>6, <2>7, <2>8, <2>9, <2>1 DEF ChannelInv
<1>4. CASE UNCHANGED vars
  BY <1>4 DEF vars, ingestion, dashboard, ChannelInv
<1> QED BY <1>1, <1>2, <1>3, <1>4 DEF Next

LEMMA RepairStep ==
  ASSUME InP!IInv, DP!DInv, ChannelInv, RepairInv, [Next]_vars
  PROVE  RepairInv'
<1>1. \A c \in Conns : before'[c] \in {before[c], stored}
  BY PublishStep DEF Next, Ingest, Serve, history, vars
<1> QED BY <1>1, StoredIsKnown, KnownStays DEF RepairInv, Known

LEMMA GapInvariance == Spec => [](ChannelInv /\ RepairInv)
<1>1. Init => ChannelInv /\ RepairInv
  BY DEF Init, In!Init, D!Init, D!Channels, D!Names, ChannelInv, RepairInv, Known, Counting
<1>2. InP!IInv /\ DP!DInv /\ ChannelInv /\ RepairInv /\ [Next]_vars
        => ChannelInv' /\ RepairInv'
  BY ChannelStep, RepairStep
<1> QED BY <1>1, <1>2, Components, PTL DEF Spec

\* However many streams there are: an event for a detection stored after a client's
\* subscription shows the client everything that was stored before it.
THEOREM GapsAreRepaired == Spec => []GapIsRepaired
<1>1. ASSUME ChannelInv, RepairInv, InP!IInv, DP!DInv PROVE GapIsRepaired
  <2>1. SUFFICES ASSUME NEW c \in Conns, NEW i \in DOMAIN frames[c],
                        frames[c][i][2] > 0, channel[frames[c][i][2]].of \notin before[c]
                 PROVE  before[c] \subseteq channel[frames[c][i][2]].first
    BY DEF GapIsRepaired
  <2>2. frames[c][i] \in DP!Frame
    BY <1>1, <2>1 DEF DP!DInv, DP!TypeOK
  <2>3. frames[c][i][2] \in Nat
    BY <2>2, LiveAssumption DEF DP!Frame, DP!Event
  <2>4. DOMAIN channel = 1..Len(channel) /\ Len(channel) \in Nat
    BY <1>1 DEF InP!IInv, InP!TypeOK
  <2>5. frames[c][i][2] \in DOMAIN channel
    BY <1>1, <2>1, <2>3, <2>4 DEF ChannelInv
  <2> QED BY <1>1, <2>1, <2>5 DEF RepairInv, Known
<1> QED BY <1>1, GapInvariance, Components, PTL

----------------------------------------------------------------------------
(* Detections one after the other: the display never goes back. *)

\* What is pushed to a subscriber was published after its subscription.
NumbersInv ==
  \A c \in Conns :
    pc[c] \in Streaming =>
      /\ start[c] <= published[D!Channel(c)]
      /\ \A i \in DOMAIN inbox[c] : start[c] < inbox[c][i][2]
      /\ pc[c] = "forward" => start[c] < message[c][2]

\* Nothing is stored while the metrics of another detection are computed or published.
Undisturbed == [][stored' # stored => \A s \in Streams : at[s] \notin Counting]_vars

\* A stream counts what is stored.  So the events are in order, and those a client gets
\* after its snapshot have seen everything the snapshot saw.
ShownInv ==
  /\ \A s \in Streams : at[s] \in Counting => event[s].first = stored
  /\ \A m, n \in DOMAIN channel : m < n => channel[m].last \subseteq channel[n].first
  /\ \A c \in Conns :
       /\ shown[c].last \subseteq stored
       /\ pc[c] \in Streaming /\ D!Channel(c) = Global =>
            \A n \in DOMAIN channel : start[c] < n => shown[c].last \subseteq channel[n].first
       /\ \A i \in DOMAIN frames[c] :
            i > 1 => shown[c].last \subseteq channel[frames[c][i][2]].first

LEMMA Types ==
  ASSUME InP!IInv, DP!DInv
  PROVE  /\ channel \in Seq(InP!Event) /\ Len(channel) \in Nat
         /\ DOMAIN channel = 1..Len(channel)
         /\ published \in [DP!Channels -> Nat] /\ Global \in DP!Channels
         /\ start \in [Conns -> Nat]
         /\ \A c \in Conns :
              /\ D!Channel(c) \in DP!Channels
              /\ inbox[c] \in Seq(DP!Event) /\ DOMAIN inbox[c] = 1..Len(inbox[c])
              /\ Len(inbox[c]) \in Nat
              /\ frames[c] \in Seq(DP!Frame) /\ DOMAIN frames[c] = 1..Len(frames[c])
              /\ Len(frames[c]) \in Nat
<1>1. /\ channel \in Seq(InP!Event)
      /\ published \in [DP!Channels -> 0..MaxEvents] /\ start \in [Conns -> 0..MaxEvents]
      /\ inbox \in [Conns -> Seq(DP!Event)] /\ frames \in [Conns -> Seq(DP!Frame)]
  BY DEF InP!IInv, InP!TypeOK, DP!DInv, DP!TypeOK
<1>2. 0..MaxEvents \subseteq Nat
  BY LiveAssumption
<1>3. \A c \in Conns : D!Channel(c) \in DP!Channels
  BY SameChannel DEF DP!Channel, DP!ChannelName, DP!Channels, DP!Names
<1> QED BY <1>1, <1>2, <1>3 DEF DP!Channels, DP!Names

\* The numbers of the frames after the snapshot are those of published events, in order.
LEMMA FrameNumbers ==
  ASSUME InP!IInv, DP!DInv, ChannelInv, NEW c \in Conns, NEW i \in DOMAIN frames[c], i > 1
  PROVE  /\ frames[c][i][2] \in DOMAIN channel
         /\ i - 1 \in DOMAIN frames[c]
         /\ frames[c][i - 1][2] < frames[c][i][2]
         /\ i - 1 = 1 => frames[c][i - 1][2] = 0
         /\ i - 1 > 1 => frames[c][i - 1][2] \in DOMAIN channel
<1>1. \A j \in DOMAIN frames[c] : frames[c][j][2] \in Nat
  <2>1. \A j \in DOMAIN frames[c] : frames[c][j] \in DP!Frame
    BY Types
  <2> QED BY <2>1, LiveAssumption DEF DP!Frame, DP!Event
<1>2. \A j \in DOMAIN frames[c] :
        /\ j = 1 => frames[c][j][2] = 0
        /\ j > 1 => frames[c][j - 1][2] < frames[c][j][2]
  BY DEF DP!DInv, DP!OrderInv, DP!OrderOf
<1>3. \A j \in DOMAIN frames[c] : j > 1 => j - 1 \in DOMAIN frames[c]
  BY Types
<1>4. \A j \in DOMAIN frames[c] : j > 1 => frames[c][j][2] \in 1..Len(channel)
  <2> SUFFICES ASSUME NEW j \in DOMAIN frames[c], j > 1
               PROVE  frames[c][j][2] \in 1..Len(channel)
    OBVIOUS
  <2>1. frames[c][j][2] \in Nat /\ frames[c][j - 1][2] \in Nat
    BY <1>1, <1>3
  <2>2. frames[c][j - 1][2] < frames[c][j][2]
    BY <1>2
  <2>3. frames[c][j][2] <= Len(channel) /\ Len(channel) \in Nat
    BY Types DEF ChannelInv
  <2> QED BY <2>1, <2>2, <2>3
<1> QED BY <1>2, <1>3, <1>4, Types

LEMMA NumbersStep ==
  ASSUME InP!IInv, DP!DInv, NumbersInv, [Next]_vars
  PROVE  NumbersInv'
<1>1. CASE Ingest \/ UNCHANGED vars
  BY <1>1
  DEF Ingest, vars, dashboard, NumbersInv, D!Channel, D!ChannelName, D!TargetBranch, D!Target
<1>2. CASE Serve
  <2> SUFFICES ASSUME NEW c \in Conns, pc'[c] \in Streaming
               PROVE  /\ start'[c] <= published'[D!Channel(c)']
                      /\ \A i \in DOMAIN inbox'[c] : start'[c] < inbox'[c][i][2]
                      /\ pc'[c] = "forward" => start'[c] < message'[c][2]
    BY DEF NumbersInv
  <2>1. published' = published /\ Moves(c)
    BY <1>2, ServeStep DEF Serve
  <2>2. asked'[c] = asked[c] => D!Channel(c)' = D!Channel(c)
    BY DEF D!Channel, D!ChannelName, D!TargetBranch, D!Target
  <2>3. CASE Rests(c)
    BY <2>1, <2>2, <2>3 DEF Rests, NumbersInv
  <2>4. CASE Subscribes(c)
    <3>1. inbox[c] = <<>>
      BY <2>4
      DEF Subscribes, DP!DInv, DP!ScopeInv, DP!ScopeOf, DP!Late, DP!Past, DP!States
    <3> QED BY <3>1, <2>1, <2>2, <2>4, Types DEF Subscribes
  <2>5. CASE Takes(c)
    <3>1. \A i \in DOMAIN inbox[c] : start[c] < inbox[c][i][2]
      BY <2>5 DEF Takes, NumbersInv, Streaming
    <3>2. \A i \in DOMAIN Tail(inbox[c]) :
            i + 1 \in DOMAIN inbox[c] /\ Tail(inbox[c])[i] = inbox[c][i + 1]
      BY <2>5, Types DEF Takes
    <3>3. Head(inbox[c]) = inbox[c][1] /\ 1 \in DOMAIN inbox[c]
      BY <2>5, Types DEF Takes
    <3> QED BY <3>1, <3>2, <3>3, <2>1, <2>2, <2>5 DEF Takes, NumbersInv, Streaming
  <2>6. CASE Shows(c)
    BY <2>1, <2>2, <2>6 DEF Shows, NumbersInv, Streaming
  <2>7. CASE Greets(c)
    BY <2>7 DEF Greets, Streaming
  <2> QED BY <2>1, <2>3, <2>4, <2>5, <2>6, <2>7 DEF Moves
<1>3. ASSUME NEW s \in Streams, Publish(s) PROVE NumbersInv'
  <2> SUFFICES ASSUME NEW c \in Conns, pc[c] \in Streaming
               PROVE  /\ start[c] <= published'[D!Channel(c)']
                      /\ \A i \in DOMAIN inbox'[c] : start[c] < inbox'[c][i][2]
                      /\ pc[c] = "forward" => start[c] < message[c][2]
    BY <1>3, PublishStep DEF NumbersInv
  <2>1. /\ published' = [published EXCEPT ![Global] = @ + 1]
        /\ inbox'[c] = IF c \in subs /\ D!Channel(c) = Global
                       THEN Append(inbox[c], <<Global, published[Global] + 1>>) ELSE inbox[c]
        /\ asked' = asked
    BY <1>3, PublishStep
  <2>2. D!Channel(c)' = D!Channel(c)
    BY <2>1 DEF D!Channel, D!ChannelName, D!TargetBranch, D!Target
  <2>3. start[c] <= published'[D!Channel(c)]
    <3>1. published'[D!Channel(c)] \in {published[D!Channel(c)], published[D!Channel(c)] + 1}
      BY <2>1, Types
    <3>2. published[D!Channel(c)] \in Nat /\ start[c] \in Nat
      BY Types
    <3> QED BY <3>1, <3>2 DEF NumbersInv
  <2>4. ASSUME NEW i \in DOMAIN inbox'[c] PROVE start[c] < inbox'[c][i][2]
    <3>1. CASE inbox'[c] = inbox[c]
      BY <3>1, <2>4 DEF NumbersInv
    <3>2. CASE /\ D!Channel(c) = Global
               /\ inbox'[c] = Append(inbox[c], <<Global, published[Global] + 1>>)
      <4>1. \/ i \in DOMAIN inbox[c] /\ inbox'[c][i] = inbox[c][i]
            \/ inbox'[c][i] = <<Global, published[Global] + 1>>
        BY <3>2, <2>4, Types
      <4>2. start[c] < published[Global] + 1
        BY <3>2, Types DEF NumbersInv
      <4> QED BY <4>1, <4>2 DEF NumbersInv
    <3> QED BY <3>1, <3>2, <2>1
  <2> QED BY <2>2, <2>3, <2>4 DEF NumbersInv
<1> QED BY <1>1, <1>2, <1>3 DEF Next

LEMMA ShownStep ==
  ASSUME InP!IInv, DP!DInv, DP!DInv', ChannelInv, NumbersInv, ShownInv, [Next]_vars,
         stored' # stored => \A s \in Streams : at[s] \notin Counting
  PROVE  ShownInv'
<1>1. CASE Ingest
  <2>1. In!Next /\ UNCHANGED <<channel, dashboard, history>>
    BY <1>1 DEF Ingest
  <2>2. /\ stored \subseteq stored'
        /\ \A s \in Streams : Counted(s)
    BY <2>1, IngestStep
  <2>3. \A s \in Streams : at'[s] \in Counting => event'[s].first = stored'
    BY <2>2 DEF ShownInv, Counted
  <2>4. \A c : D!Channel(c)' = D!Channel(c)
    BY <2>1 DEF dashboard, D!Channel, D!ChannelName, D!TargetBranch, D!Target
  <2> QED BY <2>1, <2>2, <2>3, <2>4 DEF ShownInv, dashboard, history
<1>2. CASE Serve
  <2>1. UNCHANGED <<channel, stored, at, event>> /\ published' = published
    BY <1>2, ServeStep DEF Serve, ingestion
  <2> SUFFICES ASSUME NEW c \in Conns
               PROVE  /\ shown'[c].last \subseteq stored
                      /\ pc'[c] \in Streaming /\ D!Channel(c)' = Global =>
                           \A n \in DOMAIN channel :
                             start'[c] < n => shown'[c].last \subseteq channel[n].first
                      /\ \A i \in DOMAIN frames'[c] :
                           i > 1 => shown'[c].last \subseteq channel[frames'[c][i][2]].first
    BY <2>1 DEF ShownInv
  <2>2. shown'[c].last = IF Reaches(c, "accept") THEN stored ELSE shown[c].last
    BY <1>2 DEF Serve
  <2>3. CASE Reaches(c, "accept")
    <3>1. pc'[c] = "accept"
      BY <2>3 DEF Reaches
    <3>2. frames'[c] = <<>>
      BY <3>1 DEF DP!DInv, DP!ScopeInv, DP!ScopeOf, DP!Late, DP!Past
    <3> QED BY <3>1, <3>2, <2>2, <2>3 DEF Streaming
  <2>4. CASE ~Reaches(c, "accept")
    <3>1. shown'[c].last = shown[c].last
      BY <2>2, <2>4
    <3>2. Moves(c)
      BY <1>2, ServeStep DEF Serve
    <3>3. shown'[c].last \subseteq stored
      BY <3>1 DEF ShownInv
    <3>4. ASSUME pc'[c] \in Streaming, D!Channel(c)' = Global,
                 NEW n \in DOMAIN channel, start'[c] < n
          PROVE  shown[c].last \subseteq channel[n].first
      <4>1. asked'[c] = asked[c] => D!Channel(c) = Global
        BY <3>4 DEF D!Channel, D!ChannelName, D!TargetBranch, D!Target
      <4>2. CASE Subscribes(c)
        BY <4>1, <4>2, <3>4, Types DEF Subscribes, ChannelInv
      <4>3. CASE Rests(c) \/ Takes(c) \/ Shows(c)
        BY <4>1, <4>3, <3>4 DEF Rests, Takes, Shows, ShownInv, Streaming
      <4>4. ~Greets(c)
        BY <3>4 DEF Greets, Streaming
      <4> QED BY <4>2, <4>3, <4>4, <3>2 DEF Moves
    <3>5. ASSUME NEW i \in DOMAIN frames'[c], i > 1
          PROVE  shown[c].last \subseteq channel[frames'[c][i][2]].first
      <4>1. CASE Shows(c)
        <5>1. /\ message[c][2] \in DOMAIN channel /\ D!Channel(c) = Global
              /\ start[c] < message[c][2]
          BY <4>1, EventAtHand, Types DEF Shows, NumbersInv, Streaming
        <5>2. shown[c].last \subseteq channel[message[c][2]].first
          BY <4>1, <5>1 DEF Shows, ShownInv, Streaming
        <5>3. \/ i \in DOMAIN frames[c] /\ frames'[c][i] = frames[c][i]
              \/ frames'[c][i] = message[c]
          BY <4>1, <3>5, Types DEF Shows
        <5> QED BY <5>2, <5>3, <3>5 DEF ShownInv
      <4>2. CASE Rests(c) \/ Subscribes(c) \/ Takes(c)
        BY <4>2, <3>5 DEF Rests, Subscribes, Takes, ShownInv
      <4>3. ~Greets(c)
        BY <3>5 DEF Greets
      <4> QED BY <4>1, <4>2, <4>3, <3>2 DEF Moves
    <3> QED BY <3>1, <3>3, <3>4, <3>5
  <2> QED BY <2>3, <2>4
<1>3. ASSUME NEW s \in Streams, Publish(s) PROVE ShownInv'
  <2> DEFINE e == [stream |-> s, of |-> cur[s],
                   first |-> event[s].first, last |-> event[s].last]
  <2>1. /\ channel' = Append(channel, e) /\ at[s] = "publish"
        /\ stored' = stored /\ event' = event
        /\ UNCHANGED <<pc, asked, frames, start, shown>>
    BY <1>3, PublishStep DEF history
  <2>2. e.first = stored
    BY <2>1 DEF ShownInv, Counting
  <2>3. /\ \A n \in DOMAIN channel : n \in DOMAIN channel' /\ channel'[n] = channel[n]
        /\ \A n \in DOMAIN channel' : n \in DOMAIN channel \/ channel'[n] = e
    BY <2>1, Types
  <2>4. \A t \in Streams : at'[t] \in Counting => event'[t].first = stored'
    <3>1. \A t \in Streams : Counted(t)
      BY <1>3, PublishStep, IngestStep
    <3> QED BY <3>1, <2>1 DEF ShownInv, Counted
  <2>5. ASSUME NEW c \in Conns, pc[c] \in Streaming, D!Channel(c)' = Global,
               NEW n \in DOMAIN channel', start[c] < n
        PROVE  shown[c].last \subseteq channel'[n].first
    <3>1. D!Channel(c) = Global
      BY <2>1, <2>5 DEF D!Channel, D!ChannelName, D!TargetBranch, D!Target
    <3> QED BY <3>1, <2>2, <2>3, <2>5 DEF ShownInv
  <2>6. ASSUME NEW c \in Conns, NEW i \in DOMAIN frames[c], i > 1
        PROVE  shown[c].last \subseteq channel'[frames[c][i][2]].first
    BY <2>3, <2>6, FrameNumbers DEF ShownInv
  <2>7. ASSUME NEW m \in DOMAIN channel', NEW n \in DOMAIN channel', m < n
        PROVE  channel'[m].last \subseteq channel'[n].first
    <3>1. m \in DOMAIN channel /\ channel'[m] = channel[m]
      BY <2>1, <2>7, Types
    <3>2. channel[m].last \subseteq stored
      BY <3>1 DEF InP!IInv, InP!OrderInv
    <3> QED BY <2>2, <2>3, <2>7, <3>1, <3>2 DEF ShownInv
  <2> QED BY <2>1, <2>4, <2>5, <2>6, <2>7 DEF ShownInv
<1>4. CASE UNCHANGED vars
  BY <1>4 DEF vars, ingestion, dashboard, history, ShownInv,
     D!Channel, D!ChannelName, D!TargetBranch, D!Target
<1> QED BY <1>1, <1>2, <1>3, <1>4 DEF Next

\* As long as detections are stored one after the other, each with its publication, every
\* frame of a dashboard was computed after everything the frame before it shows: the
\* snapshot before the first event by ShownInv, two events because they are in order.
THEOREM OneByOneNeverGoesBack == Spec /\ Undisturbed => []DisplayNeverGoesBack
<1>1. Init => NumbersInv /\ ShownInv
  BY DEF Init, In!Init, D!Init, NumbersInv, ShownInv, Counting, Streaming
<1>2. /\ InP!IInv /\ DP!DInv /\ DP!DInv' /\ ChannelInv /\ NumbersInv /\ ShownInv
      /\ [Next]_vars /\ [stored' # stored => \A s \in Streams : at[s] \notin Counting]_vars
      => NumbersInv' /\ ShownInv'
  <2>1. UNCHANGED vars => stored' = stored
    BY DEF vars, ingestion
  <2> QED BY <2>1, NumbersStep, ShownStep
<1>3. ASSUME InP!IInv, DP!DInv, ChannelInv, ShownInv PROVE DisplayNeverGoesBack
  <2>1. SUFFICES ASSUME NEW c \in Conns, NEW i \in DOMAIN frames[c], i > 1
                 PROVE  View(c, i - 1).last \subseteq View(c, i).first
    BY DEF DisplayNeverGoesBack
  <2>2. /\ frames[c][i][2] \in DOMAIN channel
        /\ i - 1 \in DOMAIN frames[c]
        /\ frames[c][i - 1][2] < frames[c][i][2]
        /\ i - 1 = 1 => frames[c][i - 1][2] = 0
        /\ i - 1 > 1 => frames[c][i - 1][2] \in DOMAIN channel
    BY <1>3, <2>1, FrameNumbers
  <2>3. View(c, i).first = channel[frames[c][i][2]].first
    BY <1>3, <2>2, Types DEF View
  <2>4. CASE i - 1 = 1
    BY <1>3, <2>1, <2>2, <2>3, <2>4 DEF View, ShownInv
  <2>5. CASE i - 1 > 1
    <3>1. View(c, i - 1).last = channel[frames[c][i - 1][2]].last
      BY <1>3, <2>2, <2>5, Types DEF View
    <3> QED BY <1>3, <2>2, <2>3, <2>5, <3>1 DEF ShownInv
  <2>6. i \in Nat
    BY <1>3, <2>1, Types
  <2> QED BY <2>1, <2>4, <2>5, <2>6
<1> QED BY <1>1, <1>2, <1>3, GapInvariance, Components, PTL DEF Spec, Undisturbed

\* One stream of detections stores and publishes them one after the other: with one camera
\* the display never goes back.
THEOREM NeverGoesBack ==
  ASSUME \A s, t \in Streams : s = t
  PROVE  Spec => []DisplayNeverGoesBack
<1>1. ASSUME InP!IInv, [Next]_vars
      PROVE  [stored' # stored => \A s \in Streams : at[s] \notin Counting]_vars
  <2>1. ASSUME stored' # stored, NEW s \in Streams PROVE at[s] \notin Counting
    <3>1. Ingest \/ \E t \in Streams : Publish(t)
      BY <1>1, <2>1 DEF Next, Serve, vars, ingestion
    <3>2. In!Next
      BY <3>1 DEF Ingest, Publish, In!Next, In!Progress
    <3>3. \E t \in Streams : at[t] = "flushed"
      BY <1>1, <2>1, <3>2, IngestStep
    <3> QED BY <3>3 DEF Counting
  <2> QED BY <2>1
<1>2. Spec => Undisturbed
  BY <1>1, Components, PTL DEF Spec, Undisturbed
<1> QED BY <1>2, OneByOneNeverGoesBack, PTL

----------------------------------------------------------------------------
(* Any number of streams: what a new detection's frame shows. *)

\* Streams overlap, so that a frame may show less than the one before it; but not a frame
\* that tells of a detection the earlier one does not show: it takes nothing back.
NewsTakesNothingBack ==
  \A c \in Conns : \A i, j \in DOMAIN frames[c] :
    i < j /\ channel[frames[c][j][2]].of \notin View(c, i).last
      => View(c, i).last \subseteq View(c, j).first

\* What the last query of a snapshot or of an event saw was the contents of the table.
NewsInv ==
  /\ \A c \in Conns : Known(shown[c].last)
  /\ \A n \in DOMAIN channel : Known(channel[n].last)
  /\ \A s \in Streams : at[s] = "publish" => Known(event[s].last)

LEMMA NewsStep ==
  ASSUME InP!IInv, DP!DInv, ChannelInv, NewsInv, [Next]_vars
  PROVE  NewsInv'
<1>1. \A c \in Conns : shown'[c].last \in {shown[c].last, stored}
  <2>1. CASE shown' = shown
    BY <2>1
  <2>2. CASE Serve
    BY <2>2 DEF Serve
  <2> QED BY <2>1, <2>2, PublishStep DEF Next, Ingest, history, vars
<1>2. \A n \in DOMAIN channel' :
        \/ n \in DOMAIN channel /\ channel'[n] = channel[n]
        \/ \E s \in Streams : at[s] = "publish" /\ channel'[n].last = event[s].last
  <2>1. CASE channel' = channel
    BY <2>1
  <2>2. ASSUME NEW s \in Streams, Publish(s)
        PROVE  \A n \in DOMAIN channel' :
                 \/ n \in DOMAIN channel /\ channel'[n] = channel[n]
                 \/ at[s] = "publish" /\ channel'[n].last = event[s].last
    <3> DEFINE e == [stream |-> s, of |-> cur[s],
                     first |-> event[s].first, last |-> event[s].last]
    <3>1. channel' = Append(channel, e) /\ at[s] = "publish" /\ e.last = event[s].last
      BY <2>2, PublishStep
    <3> HIDE DEF e
    <3>2. \A n \in DOMAIN channel' :
            \/ n \in DOMAIN channel /\ channel'[n] = channel[n]
            \/ channel'[n] = e
      BY <3>1, Types
    <3> QED BY <3>1, <3>2
  <2> QED BY <2>1, <2>2 DEF Next, Ingest, Serve, ingestion, vars
<1>3. \A s \in Streams : at'[s] = "publish" =>
        \/ at[s] = "publish" /\ event'[s].last = event[s].last
        \/ event'[s].last = stored
  <2>1. CASE at' = at /\ event' = event
    BY <2>1
  <2>2. CASE In!Next
    BY <2>2, IngestStep DEF Counted
  <2> QED BY <2>1, <2>2, PublishStep DEF Next, Ingest, Serve, ingestion, vars
<1>4. \A c \in Conns : Known(shown[c].last)'
  BY <1>1, StoredIsKnown, KnownStays DEF NewsInv, Known
<1>5. \A n \in DOMAIN channel' : Known(channel[n].last)'
  <2> SUFFICES ASSUME NEW n \in DOMAIN channel' PROVE Known(channel[n].last)'
    OBVIOUS
  <2>1. CASE n \in DOMAIN channel /\ channel'[n] = channel[n]
    BY <2>1, KnownStays DEF NewsInv, Known
  <2>2. ASSUME NEW s \in Streams, at[s] = "publish", channel'[n].last = event[s].last
        PROVE  Known(channel[n].last)'
    <3>1. Known(event[s].last)
      BY <2>2 DEF NewsInv
    <3> QED BY <2>2, <3>1, KnownStays DEF Known
  <2> QED BY <1>2, <2>1, <2>2
<1>6. \A s \in Streams : at'[s] = "publish" => Known(event[s].last)'
  BY <1>3, StoredIsKnown, KnownStays DEF NewsInv, Known
<1> QED BY <1>4, <1>5, <1>6 DEF NewsInv

\* However many streams publish at once, a dashboard that is told of a new detection loses
\* none of the earlier ones from sight (publisher.py 43-53, router.py 103-108).
THEOREM NewsKeepsWhatIsShown == Spec => []NewsTakesNothingBack
<1>1. Init => NewsInv
  BY DEF Init, In!Init, NewsInv, Known, Counting
<1>2. InP!IInv /\ DP!DInv /\ ChannelInv /\ NewsInv /\ [Next]_vars => NewsInv'
  BY NewsStep
<1>3. ASSUME InP!IInv, DP!DInv, ChannelInv, NewsInv PROVE NewsTakesNothingBack
  <2>1. SUFFICES ASSUME NEW c \in Conns, NEW i \in DOMAIN frames[c], NEW j \in DOMAIN frames[c],
                        i < j, channel[frames[c][j][2]].of \notin View(c, i).last
                 PROVE  View(c, i).last \subseteq View(c, j).first
    BY DEF NewsTakesNothingBack
  <2>2. i \in Nat \ {0} /\ j \in Nat /\ j > 1
    BY <1>3, <2>1, Types
  <2>3. frames[c][j][2] \in DOMAIN channel
    BY <1>3, <2>1, <2>2, FrameNumbers
  <2>4. View(c, j).first = channel[frames[c][j][2]].first
    BY <1>3, <2>3, Types DEF View
  <2>5. frames[c][i][2] = 0 \/ frames[c][i][2] \in DOMAIN channel
    <3>1. CASE i = 1
      BY <1>3, <3>1 DEF DP!DInv, DP!OrderInv, DP!OrderOf
    <3>2. CASE i > 1
      BY <1>3, <3>2, FrameNumbers
    <3> QED BY <2>2, <3>1, <3>2
  <2>6. Known(View(c, i).last)
    BY <1>3, <2>5 DEF View, NewsInv, Known
  <2> QED BY <2>1, <2>3, <2>4, <2>6 DEF Known
<1> QED BY <1>1, <1>2, <1>3, GapInvariance, Components, PTL DEF Spec

----------------------------------------------------------------------------
(* What is published while a client is subscribed is on its way to it. *)

\* An event for a detection that was stored after the subscription of c has reached it, or
\* is at hand, or waits in its inbox.
UpdatesAreOnTheirWay ==
  \A c \in Conns : \A n \in DOMAIN channel :
    /\ pc[c] \in Streaming /\ c \notin broken /\ D!Channel(c) = Global
    /\ channel[n].of \notin before[c]
    => \/ \E i \in DOMAIN frames[c] : frames[c][i][2] = n
       \/ pc[c] = "forward" /\ message[c][2] = n
       \/ \E i \in DOMAIN inbox[c] : inbox[c][i][2] = n

\* What was published before the subscription of c is for a detection stored before it.
StartInv ==
  \A c \in Conns :
    pc[c] \in Streaming /\ D!Channel(c) = Global =>
      \A n \in DOMAIN channel : n <= start[c] => channel[n].of \in before[c]

LEMMA StartStep ==
  ASSUME InP!IInv, DP!DInv, DP!DInv', ChannelInv, NumbersInv, StartInv, [Next]_vars
  PROVE  StartInv'
<1>1. CASE Ingest \/ UNCHANGED vars
  BY <1>1
  DEF Ingest, vars, ingestion, dashboard, history, StartInv,
      D!Channel, D!ChannelName, D!TargetBranch, D!Target
<1>2. CASE Serve
  <2> SUFFICES ASSUME NEW c \in Conns, pc'[c] \in Streaming, D!Channel(c)' = Global,
                      NEW n \in DOMAIN channel, n <= start'[c]
               PROVE  channel[n].of \in before'[c]
    BY <1>2 DEF StartInv, Serve, ingestion
  <2>1. Moves(c) /\ before'[c] = IF c \in subs' \ subs THEN stored ELSE before[c]
    BY <1>2, ServeStep DEF Serve
  <2>2. asked'[c] = asked[c] => D!Channel(c) = Global
    BY DEF D!Channel, D!ChannelName, D!TargetBranch, D!Target
  <2>3. c \in subs' /\ (pc[c] \in Streaming => c \in subs)
    BY DEF DP!DInv, DP!OrderInv, DP!OrderOf, DP!Streaming, Streaming
  <2>4. CASE Rests(c) \/ Takes(c) \/ Shows(c)
    BY <2>1, <2>2, <2>3, <2>4 DEF Rests, Takes, Shows, StartInv, Streaming
  <2>5. CASE Subscribes(c)
    <3>1. c \notin subs
      BY <2>5 DEF Subscribes, DP!DInv, DP!ScopeInv, DP!ScopeOf, DP!Late, DP!Past, DP!States
    <3> QED BY <2>1, <2>3, <3>1 DEF ChannelInv
  <2>6. ~Greets(c)
    BY DEF Greets, Streaming
  <2> QED BY <2>1, <2>4, <2>5, <2>6 DEF Moves
<1>3. ASSUME NEW s \in Streams, Publish(s) PROVE StartInv'
  <2> SUFFICES ASSUME NEW c \in Conns, pc'[c] \in Streaming, D!Channel(c)' = Global,
                      NEW n \in DOMAIN channel', n <= start'[c]
               PROVE  channel'[n].of \in before'[c]
    BY DEF StartInv
  <2>1. /\ UNCHANGED <<pc, asked, start, before>>
        /\ \A m \in DOMAIN channel' :
             \/ m \in DOMAIN channel /\ channel'[m] = channel[m]
             \/ m = Len(channel) + 1
    <3> DEFINE e == [stream |-> s, of |-> cur[s],
                     first |-> event[s].first, last |-> event[s].last]
    <3>1. channel' = Append(channel, e) /\ UNCHANGED <<pc, asked, start, before>>
      BY <1>3, PublishStep DEF history
    <3> HIDE DEF e
    <3> QED BY <3>1, Types
  <2>2. D!Channel(c) = Global
    BY <2>1 DEF D!Channel, D!ChannelName, D!TargetBranch, D!Target
  <2>3. start[c] <= Len(channel) /\ start[c] \in Nat /\ Len(channel) \in Nat
    BY <2>1, <2>2, Types DEF NumbersInv, ChannelInv
  <2>4. n \in DOMAIN channel /\ channel'[n] = channel[n]
    BY <2>1, <2>3
  <2> QED BY <2>1, <2>2, <2>4 DEF StartInv
<1> QED BY <1>1, <1>2, <1>3 DEF Next

\* The safety half of UpdatesArePushed, across Redis: from the publication of the one
\* process to send_text of the other, nothing a subscribed client should be shown is lost
\* (publisher.py 73-84, router.py 155-186).
THEOREM NoUpdateIsLost == Spec => []UpdatesAreOnTheirWay
<1>1. Init => NumbersInv /\ StartInv
  BY DEF Init, In!Init, D!Init, NumbersInv, StartInv, Streaming
<1>2. /\ InP!IInv /\ DP!DInv /\ DP!DInv' /\ ChannelInv /\ NumbersInv /\ StartInv
      /\ [Next]_vars
      => NumbersInv' /\ StartInv'
  BY NumbersStep, StartStep
<1>3. DP!Spec => []DP!EventsAreAccountedFor
  BY DP!NoEventIsLost, Assumptions
<1>4. ASSUME InP!IInv, DP!DInv, ChannelInv, StartInv, DP!EventsAreAccountedFor
      PROVE  UpdatesAreOnTheirWay
  <2> SUFFICES ASSUME NEW c \in Conns, NEW n \in DOMAIN channel,
                      pc[c] \in Streaming, c \notin broken, D!Channel(c) = Global,
                      channel[n].of \notin before[c]
               PROVE  \/ \E i \in DOMAIN frames[c] : frames[c][i][2] = n
                      \/ pc[c] = "forward" /\ message[c][2] = n
                      \/ \E i \in DOMAIN inbox[c] : inbox[c][i][2] = n
    BY DEF UpdatesAreOnTheirWay
  <2>1. DP!Channel(c) = Global
    BY SameChannel
  <2>2. published[Global] \in 0..MaxEvents /\ published[Global] = Len(channel)
    BY <1>4 DEF DP!DInv, DP!TypeOK, DP!Channels, DP!Names, ChannelInv
  <2>3. n \in 1..MaxEvents /\ n <= published[Global]
    BY <1>4, <2>2, LiveAssumption, Types
  <2>4. start[c] < n
    BY <1>4, <2>3, Types DEF StartInv
  <2> QED BY <1>4, <2>1, <2>3, <2>4 DEF DP!EventsAreAccountedFor, DP!Streaming, Streaming
<1> QED BY <1>1, <1>2, <1>3, <1>4, GapInvariance, Components, Composition, SameStream,
           PTL DEF Spec

======================================================================================
