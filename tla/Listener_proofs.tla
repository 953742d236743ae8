-------------------------------- MODULE Listener_proofs --------------------------------
(***************************************************************************)
(* Theorems about module Listener, for every set of branches and faults    *)
(* and every number of notifications.                                      *)
(***************************************************************************)
EXTENDS Listener, TLAPS

----------------------------------------------------------------------------
(* The listener and its connection. *)

\* The inductive invariant.  A new round begins with no open connection; an open one is
\* held by the listener that has one or, at shutdown, by nobody.
ConnectionInv ==
  /\ left \in BOOLEAN
  /\ pc \in {"connect", "backoff"} => conn # "open"
  /\ cancel => stop
  /\ OneConnection

LEMMA Initially == Init => ConnectionInv
BY DEF Init, ConnectionInv, OneConnection

LEMMA Inductive == ConnectionInv /\ [Next]_vars => ConnectionInv'
<1> SUFFICES ASSUME ConnectionInv, [Next]_vars PROVE ConnectionInv'
  OBVIOUS
<1> USE DEF ConnectionInv, OneConnection
<1>1. CASE Database
  <2>1. conn' \in {conn, "lost"} /\ UNCHANGED <<pc, left, stop, cancel>>
    BY <1>1 DEF Database, Lose, Outage, Notified, lifespan, listener
  <2> QED BY <2>1
<1>2. CASE Listen
  <2>1. CASE ConnectOk \/ ConnectError
    BY <2>1 DEF ConnectOk, ConnectError, Go, lifespan
  <2>2. CASE AddListener \/ AddListenerError \/ Sleep
    BY <2>2 DEF AddListener, AddListenerError, Sleep, Go, lifespan
  <2>3. CASE Close
    BY <2>3 DEF Close, Go, lifespan
  <2>4. CASE Backoff
    BY <2>4 DEF Backoff, NextRound, Go, lifespan
  <2>5. CASE Cancelled
    BY <2>5 DEF Cancelled
  <2> QED BY <1>2, <2>1, <2>2, <2>3, <2>4, <2>5 DEF Listen
<1>3. CASE Shutdown
  BY <1>3 DEF Shutdown, listener
<1>4. CASE Closed
  BY <1>4 DEF Closed, listener
<1>5. CASE \E n \in Commits : Callback(n)
  <2>1. UNCHANGED <<listener, lifespan>>
    BY <1>5 DEF Callback, Metrics, MetricsError, PublishBranch, PublishGlobal, PublishError
  <2> QED BY <2>1 DEF listener, lifespan
<1>6. CASE UNCHANGED vars
  BY <1>6 DEF vars, listener, lifespan
<1> QED BY <1>1, <1>2, <1>3, <1>4, <1>5, <1>6 DEF Next

\* However often it fails and tries again, the listener holds one connection.
THEOREM OneConnectionAtATime == Spec => []OneConnection
<1>1. ConnectionInv => OneConnection
  BY DEF ConnectionInv
<1> QED BY <1>1, Initially, Inductive, PTL DEF Spec

\* As long as the process runs, the task goes on: no error and no outage ends it, so that
\* a connection is attempted again and again until the first LISTEN succeeds.
KeepsTrying == app = "running" => pc # "ended" /\ ~stop

\* Once it listens the task stays in its inner loop to the end, and a connection that was
\* lost then is never replaced: what the docstring calls "Automatically reconnects"
\* (notifier.py 88) is so only for connections that break before LISTEN was carried out.
NeverReconnects ==
  [][listening => /\ pc' \in {pc, "ended"} /\ listening'
                  /\ conn # "open" => conn' # "open"]_vars

\* The task ends because it is told to, and leaves the inner loop for nothing else.
LoopInv ==
  /\ app = "running" => ~stop
  /\ pc = "ended" => stop
  /\ cancel => stop
  /\ listening => pc \in {"sleep", "ended"}

LEMMA LoopInductive == LoopInv /\ [Next]_vars => LoopInv'
<1> SUFFICES ASSUME LoopInv, [Next]_vars PROVE LoopInv'
  OBVIOUS
<1> USE DEF LoopInv
<1>1. CASE Database
  BY <1>1 DEF Database, Lose, Outage, Notified, lifespan, listener
<1>2. CASE Listen
  <2>1. CASE ConnectOk \/ ConnectError \/ Close \/ Cancelled
    BY <2>1 DEF ConnectOk, ConnectError, Close, Cancelled, Go, lifespan
  <2>2. CASE AddListener \/ AddListenerError \/ Sleep
    BY <2>2 DEF AddListener, AddListenerError, Sleep, Go, lifespan
  <2>3. CASE Backoff
    BY <2>3 DEF Backoff, NextRound, Go, lifespan
  <2> QED BY <1>2, <2>1, <2>2, <2>3 DEF Listen
<1>3. CASE Shutdown \/ Closed
  BY <1>3 DEF Shutdown, Closed, listener
<1>4. CASE \E n \in Commits : Callback(n)
  <2>1. UNCHANGED <<listener, lifespan>>
    BY <1>4 DEF Callback, Metrics, MetricsError, PublishBranch, PublishGlobal, PublishError
  <2> QED BY <2>1 DEF listener, lifespan
<1>5. CASE UNCHANGED vars
  BY <1>5 DEF vars, listener, lifespan
<1> QED BY <1>1, <1>2, <1>3, <1>4, <1>5 DEF Next

LEMMA LoopInvariance == Spec => []LoopInv
<1>1. Init => LoopInv
  BY DEF Init, LoopInv
<1> QED BY <1>1, LoopInductive, PTL DEF Spec

\* The safety half of ConnectsWhenReachable: nothing but the shutdown ends the listener
\* task (notifier.py 93-136).
THEOREM TriesUntilShutdown == Spec => []KeepsTrying
<1>1. LoopInv => KeepsTrying
  BY DEF LoopInv, KeepsTrying
<1> QED BY <1>1, LoopInvariance, PTL

\* The inner loop looks at stop_event only: whatever happens to the connection it listens
\* on, the task opens no other one (notifier.py 119-121).
THEOREM LostIsLost == Spec => NeverReconnects
<1>1. ASSUME LoopInv, [Next]_vars, listening
      PROVE  pc' \in {pc, "ended"} /\ listening' /\ (conn # "open" => conn' # "open")
  <2>1. pc \in {"sleep", "ended"}
    BY <1>1 DEF LoopInv
  <2>2. CASE Database
    BY <1>1, <2>2 DEF Database, Lose, Outage, Notified, listener
  <2>3. CASE Listen
    BY <1>1, <2>1, <2>3 DEF Listen, ConnectOk, ConnectError, AddListener, AddListenerError,
                            Close, Backoff, Sleep, Cancelled, Go
  <2>4. CASE Shutdown \/ Closed
    BY <1>1, <2>4 DEF Shutdown, Closed, listener
  <2>5. CASE \E n \in Commits : Callback(n)
    <3>1. UNCHANGED listener
      BY <2>5 DEF Callback, Metrics, MetricsError, PublishBranch, PublishGlobal, PublishError
    <3> QED BY <1>1, <3>1 DEF listener
  <2>6. CASE UNCHANGED vars
    BY <1>1, <2>6 DEF vars, listener
  <2> QED BY <1>1, <2>2, <2>3, <2>4, <2>5, <2>6 DEF Next
<1>2. LoopInv /\ [Next]_vars =>
        [listening => /\ pc' \in {pc, "ended"} /\ listening'
                      /\ conn # "open" => conn' # "open"]_vars
  BY <1>1
<1> QED BY <1>2, LoopInvariance, PTL DEF Spec, NeverReconnects

----------------------------------------------------------------------------
(* The callbacks, which overlap. *)

\* Commit n is published on channel ch, with metrics at least as new.
PublishedOn(n, ch) == \E i \in DOMAIN events[ch] : events[ch][i][1] = n /\ events[ch][i][2] >= n

\* A callback that came to its end has published its notification on both channels, with
\* metrics that count its commit, or its error was logged; and only the end of the process
\* keeps a callback from coming to its end.
CallbacksSettle ==
  \A n \in Commits :
    /\ task[n] = "done" =>
         n \in failed \/ \A ch \in {None, branch[n]} : PublishedOn(n, ch)
    /\ task[n] = "lost" => app = "closed"

\* No dashboard is told twice of one commit, nor of one of another branch, nor with metrics
\* older than the commit.
EventsAreOwn ==
  \A ch \in Channels : \A i \in DOMAIN events[ch] :
    LET n == events[ch][i][1]
    IN  /\ n \in 1..version /\ ch \in {None, branch[n]}
        /\ events[ch][i][2] \in n..version
        /\ \A j \in DOMAIN events[ch] : events[ch][j][1] = n => j = i

Tasks == {"none", "metrics", "branch", "global", "done", "lost"}

CallbackType ==
  /\ version \in 0..MaxCommits
  /\ task \in [Commits -> Tasks] /\ branch \in [Commits -> Channels]
  /\ seen \in [Commits -> Nat]
  /\ events \in [Channels -> Seq(Commits \X Nat)]

\* What a callback has done when it is at an await, and which events are its own.
CallbackOf(n) ==
  /\ task[n] # "none" => n <= version
  /\ task[n] \in {"branch", "global"} => seen[n] \in n..version
  /\ task[n] = "branch" => branch[n] # None
  /\ task[n] = "global" /\ branch[n] # None => PublishedOn(n, branch[n])
  /\ task[n] = "done" /\ n \notin failed =>
       PublishedOn(n, None) /\ PublishedOn(n, branch[n])
  /\ task[n] = "lost" => app = "closed"

EventOf(ch, i) ==
  LET n == events[ch][i][1]
  IN  /\ n <= version /\ events[ch][i][2] \in n..version
      /\ ch = None => task[n] = "done"
      /\ ch # None => ch = branch[n] /\ task[n] \in {"global", "done", "lost"}
      /\ \A j \in DOMAIN events[ch] : events[ch][j][1] = n => j = i

CallbackInv ==
  /\ CallbackType
  /\ \A n \in Commits : CallbackOf(n)
  /\ \A ch \in Channels : \A i \in DOMAIN events[ch] : EventOf(ch, i)

\* A step that publishes nothing: the callbacks that do not move keep their part of the
\* invariant, and so does every event unless its callback is moved to an earlier await.
LEMMA Unpublished ==
  ASSUME CallbackInv, events' = events, version <= version', version' \in Nat,
         failed \subseteq failed', app = "closed" => app' = "closed",
         NEW n \in Commits, branch'[n] = branch[n] \/ task[n] = "none",
         task'[n] = task[n], seen'[n] = seen[n]
  PROVE  CallbackOf(n)'
<1>1. CallbackOf(n) /\ version \in Nat /\ n \in Nat
  BY ListenerAssumption DEF CallbackInv, CallbackType, Commits
<1>2. \A ch : PublishedOn(n, ch)' <=> PublishedOn(n, ch)
  BY DEF PublishedOn
<1> QED BY <1>1, <1>2 DEF CallbackOf

LEMMA EventsKept ==
  ASSUME CallbackInv, events' = events, version <= version', version' \in Nat,
         \A n \in Commits :
           task[n] \in {"global", "done", "lost"} =>
             branch'[n] = branch[n] /\ task'[n] \in {"done", "lost", task[n]}
             /\ (task[n] = "done" => task'[n] = "done"),
         NEW ch \in Channels, NEW i \in DOMAIN events[ch]
  PROVE  EventOf(ch, i)'
<1>1. EventOf(ch, i) /\ version \in Nat
  BY DEF CallbackInv, CallbackType
<1>2. events[ch][i] \in Commits \X Nat
  BY DEF CallbackInv, CallbackType
<1>3. events[ch][i][1] \in Commits /\ events[ch][i][2] \in Nat /\ events[ch][i][1] \in Nat
  BY <1>2 DEF Commits
<1> QED BY <1>1, <1>3 DEF EventOf

\* A publication of n on channel ch by the callback that is at the await for it.
LEMMA PublishKeeps ==
  ASSUME CallbackInv, NEW n \in Commits, NEW ch \in Channels, NEW to \in {"global", "done"},
         \/ task[n] = "branch" /\ ch = branch[n] /\ to = "global"
         \/ task[n] = "global" /\ ch = None /\ to = "done",
         task' = [task EXCEPT ![n] = to],
         events' = [events EXCEPT ![ch] = Append(@, <<n, seen[n]>>)],
         UNCHANGED <<version, app, branch, seen, failed>>
  PROVE  CallbackInv'
<1> DEFINE e == <<n, seen[n]>>
<1>1. /\ version \in Nat /\ n \in Nat /\ n <= version /\ seen[n] \in n..version
      /\ seen[n] \in Nat /\ e[1] = n /\ e[2] = seen[n]
      /\ task \in [Commits -> Tasks] /\ branch \in [Commits -> Channels]
      /\ events \in [Channels -> Seq(Commits \X Nat)]
  BY ListenerAssumption DEF CallbackInv, CallbackType, CallbackOf, Commits
<1>2. e \in Commits \X Nat /\ events[ch] \in Seq(Commits \X Nat)
  BY <1>1
<1> HIDE DEF e
<1>3. events' = [events EXCEPT ![ch] = Append(@, e)]
  BY DEF e
<1>4. /\ Append(events[ch], e) \in Seq(Commits \X Nat)
      /\ Len(events[ch]) \in Nat
      /\ DOMAIN events[ch] = 1..Len(events[ch])
      /\ DOMAIN Append(events[ch], e) = 1..Len(events[ch]) + 1
      /\ \A i \in DOMAIN events[ch] : Append(events[ch], e)[i] = events[ch][i]
      /\ Append(events[ch], e)[Len(events[ch]) + 1] = e
  BY <1>2
<1>5. /\ events'[ch] = Append(events[ch], e)
      /\ \A other \in Channels \ {ch} : events'[other] = events[other]
  BY <1>1, <1>3
<1>6. CallbackType'
  <2>1. events' \in [Channels -> Seq(Commits \X Nat)]
    BY <1>1, <1>3, <1>4
  <2>2. task' \in [Commits -> Tasks]
    BY <1>1 DEF Tasks
  <2> QED BY <2>1, <2>2 DEF CallbackInv, CallbackType
<1>7. ASSUME NEW m \in Commits, NEW other \in Channels, PublishedOn(m, other)
      PROVE  PublishedOn(m, other)'
  <2>1. PICK i \in DOMAIN events[other] : events[other][i][1] = m /\ events[other][i][2] >= m
    BY <1>7 DEF PublishedOn
  <2>2. i \in DOMAIN events'[other] /\ events'[other][i] = events[other][i]
    BY <1>1, <1>4, <1>5
  <2> QED BY <2>1, <2>2 DEF PublishedOn
<1>8. PublishedOn(n, ch)'
  <2>1. Len(events[ch]) + 1 \in DOMAIN events'[ch] /\ events'[ch][Len(events[ch]) + 1] = e
    BY <1>4, <1>5
  <2>2. seen[n] >= n
    BY <1>1
  <2> QED BY <1>1, <2>1, <2>2 DEF PublishedOn
<1>9. ASSUME NEW m \in Commits PROVE CallbackOf(m)'
  <2>1. CallbackOf(m) /\ branch[m] \in Channels /\ None \in Channels
    BY <1>1 DEF CallbackInv, Channels
  <2>2. CASE m # n
    <3>1. task'[m] = task[m]
      BY <1>1, <2>2
    <3> QED BY <2>1, <3>1, <1>7 DEF CallbackOf
  <2>3. CASE m = n
    <3>1. task'[m] = to
      BY <1>1, <2>3
    <3> QED BY <2>1, <2>3, <3>1, <1>1, <1>7, <1>8 DEF CallbackOf
  <2> QED BY <2>2, <2>3
\* The event is the first of its commit on the channel.
<1>10. \A i \in DOMAIN events[ch] : events[ch][i][1] # n
  <2> SUFFICES ASSUME NEW i \in DOMAIN events[ch], events[ch][i][1] = n PROVE FALSE
    OBVIOUS
  <2>1. EventOf(ch, i)
    BY DEF CallbackInv
  <2>2. CASE task[n] = "branch"
    <3>1. ch # None
      BY <2>2 DEF CallbackInv, CallbackOf
    <3> QED BY <2>1, <2>2, <3>1 DEF EventOf
  <2>3. CASE task[n] = "global"
    BY <2>1, <2>3 DEF EventOf
  <2> QED BY <2>2, <2>3
<1>11. ASSUME NEW other \in Channels, NEW i \in DOMAIN events'[other] PROVE EventOf(other, i)'
  <2>1. \A m \in Commits : task'[m] = IF m = n THEN to ELSE task[m]
    BY <1>1
  <2>2. CASE other = ch /\ i = Len(events[ch]) + 1
    <3>1. events'[other][i] = e
      BY <1>4, <1>5, <2>2
    <3>2. ch = None => to = "done"
      BY DEF CallbackInv, CallbackOf
    <3>3. ch # None => ch = branch[n] /\ to = "global"
      OBVIOUS
    <3>4. \A j \in DOMAIN events'[other] : events'[other][j][1] = n => j = i
      BY <1>4, <1>5, <1>10, <2>2
    <3>5. n <= version' /\ seen[n] \in n..version' /\ branch' = branch /\ task'[n] = to
      BY <1>1, <2>1
    <3> QED BY <1>1, <2>2, <3>1, <3>2, <3>3, <3>4, <3>5 DEF EventOf
  <2>3. CASE i \in DOMAIN events[other]
    <3>1. EventOf(other, i) /\ events'[other][i] = events[other][i]
      BY <1>4, <1>5, <2>3 DEF CallbackInv
    <3>2. events[other][i] \in Commits \X Nat
      BY <1>1, <2>3
    <3>3. events[other][i][1] \in Commits
      BY <3>2
    <3>4. \A j \in DOMAIN events'[other] : events'[other][j][1] = events[other][i][1] => j = i
      <4>1. CASE other = ch
        <5>1. events[other][i][1] # n
          BY <1>10, <2>3, <4>1
        <5> QED BY <1>1, <1>4, <1>5, <2>3, <3>1, <4>1, <5>1 DEF EventOf
      <4>2. CASE other # ch
        BY <1>5, <3>1, <4>2 DEF EventOf
      <4> QED BY <4>1, <4>2
    <3>5. \/ task'[events[other][i][1]] = task[events[other][i][1]]
          \/ task[events[other][i][1]] \in {"branch", "global"}
             /\ task'[events[other][i][1]] = to /\ events[other][i][1] = n
      BY <2>1, <3>3
    <3>6. other = None => task'[events[other][i][1]] = "done"
      BY <3>1, <3>5 DEF EventOf
    <3>7. other # None => other = branch[events[other][i][1]]
                          /\ task'[events[other][i][1]] \in {"global", "done", "lost"}
      BY <3>1, <3>5 DEF EventOf
    <3> QED BY <3>1, <3>4, <3>6, <3>7 DEF EventOf
  <2> QED BY <1>4, <1>5, <1>11, <2>2, <2>3
<1> QED BY <1>6, <1>9, <1>11 DEF CallbackInv

LEMMA CallbackStep == CallbackInv /\ [Next]_vars => CallbackInv'
<1> SUFFICES ASSUME CallbackInv, [Next]_vars PROVE CallbackInv'
  OBVIOUS
<1>0. /\ version \in Nat /\ MaxCommits \in Nat /\ version <= MaxCommits
      /\ task \in [Commits -> Tasks] /\ branch \in [Commits -> Channels]
      /\ seen \in [Commits -> Nat]
      /\ \A n \in Commits : n \in Nat \ {0} /\ CallbackOf(n)
  BY ListenerAssumption DEF CallbackInv, CallbackType, Commits
\* Whatever leaves the callbacks and the counter of commits alone.
<1>1. ASSUME UNCHANGED <<version, callback>>, app = "closed" => app' = "closed"
      PROVE  CallbackInv'
  <2>1. CallbackType'
    BY <1>1 DEF callback, CallbackInv, CallbackType
  <2>2. \A n \in Commits : CallbackOf(n)'
    BY <1>0, <1>1, Unpublished DEF callback
  <2>3. \A ch \in Channels : \A i \in DOMAIN events[ch] : EventOf(ch, i)'
    BY <1>0, <1>1, EventsKept DEF callback
  <2> QED BY <1>1, <2>1, <2>2, <2>3 DEF callback, CallbackInv
<1>2. CASE Database
  <2>1. CASE Lose \/ \E state \in {"up", "down", "silent"} : Outage(state)
    BY <1>1, <2>1 DEF Lose, Outage, lifespan
  <2>2. ASSUME NEW b \in Channels, Notified(b) PROVE CallbackInv'
    <3>1. /\ version' = version + 1 /\ version < MaxCommits
          /\ UNCHANGED <<app, seen, failed, events>>
          /\ \/ UNCHANGED <<task, branch>>
             \/ /\ task' = [task EXCEPT ![version + 1] = "metrics"]
                /\ branch' = [branch EXCEPT ![version + 1] = b]
      BY <2>2 DEF Notified, lifespan
    <3>2. version + 1 \in Commits /\ task[version + 1] = "none"
      <4>1. version + 1 \in Commits
        BY <1>0, <3>1 DEF Commits
      <4> QED BY <4>1, <1>0 DEF CallbackOf
    <3>3. CallbackType'
      <4>1. version' \in 0..MaxCommits
        BY <1>0, <3>1
      <4>2. task' \in [Commits -> Tasks]
        BY <1>0, <3>1, <3>2 DEF Tasks
      <4>3. branch' \in [Commits -> Channels]
        BY <1>0, <3>1, <3>2
      <4> QED BY <3>1, <4>1, <4>2, <4>3 DEF CallbackInv, CallbackType
    <3>4. ASSUME NEW n \in Commits PROVE CallbackOf(n)'
      <4>1. CASE task'[n] = task[n] /\ branch'[n] = branch[n]
        BY <1>0, <3>1, <4>1, Unpublished
      <4>2. CASE task'[n] = "metrics" /\ n = version + 1
        BY <1>0, <3>1, <4>2 DEF CallbackOf
      <4> QED BY <1>0, <3>1, <4>1, <4>2
    <3>5. ASSUME NEW ch \in Channels, NEW i \in DOMAIN events[ch] PROVE EventOf(ch, i)'
      <4>1. \A n \in Commits :
              task[n] # "none" => task'[n] = task[n] /\ branch'[n] = branch[n]
        BY <1>0, <3>1, <3>2
      <4> QED BY <1>0, <3>1, <4>1, EventsKept
    <3> QED BY <3>1, <3>3, <3>4, <3>5 DEF CallbackInv
  <2> QED BY <1>2, <2>1, <2>2 DEF Database
<1>3. CASE Listen
  <2>1. UNCHANGED <<version, app, callback>>
    BY <1>3 DEF Listen, ConnectOk, ConnectError, AddListener, AddListenerError, Close, Backoff,
                Sleep, Cancelled, Go, lifespan
  <2> QED BY <1>1, <2>1
<1>4. CASE Shutdown
  <2>1. UNCHANGED <<version, callback>> /\ app # "closed"
    BY <1>4 DEF Shutdown
  <2> QED BY <1>1, <2>1
<1>5. CASE Closed
  <2>1. /\ app' = "closed" /\ UNCHANGED <<version, branch, seen, failed, events>>
        /\ \A n \in Commits : task'[n] = IF task[n] \in {"none", "done"} THEN task[n] ELSE "lost"
        /\ task' \in [Commits -> Tasks]
    BY <1>0, <1>5 DEF Closed, Tasks
  <2>2. CallbackType'
    BY <2>1 DEF CallbackInv, CallbackType
  <2>3. ASSUME NEW n \in Commits PROVE CallbackOf(n)'
    <3>1. CASE task'[n] = task[n]
      BY <1>0, <2>1, <3>1, Unpublished
    <3>2. CASE task'[n] = "lost" /\ task[n] # "none"
      BY <1>0, <2>1, <3>2 DEF CallbackOf
    <3> QED BY <2>1, <3>1, <3>2
  <2>4. ASSUME NEW ch \in Channels, NEW i \in DOMAIN events[ch] PROVE EventOf(ch, i)'
    BY <1>0, <2>1, EventsKept
  <2> QED BY <2>1, <2>2, <2>3, <2>4 DEF CallbackInv
<1>6. ASSUME NEW m \in Commits, Callback(m) PROVE CallbackInv'
  <2>1. UNCHANGED <<version, app, branch>>
    BY <1>6 DEF Callback, Metrics, MetricsError, PublishBranch, PublishGlobal, PublishError,
                lifespan
  <2>2. CASE Metrics(m) \/ MetricsError(m) \/ PublishError(m)
    <3>1. /\ events' = events /\ failed \subseteq failed'
          /\ task[m] \in {"metrics", "branch", "global"}
          /\ \E to \in {"branch", "global", "done"} : task' = [task EXCEPT ![m] = to]
          /\ seen' \in {seen, [seen EXCEPT ![m] = version]}
      BY <1>0, <2>2 DEF Metrics, MetricsError, PublishError, Advance
    <3>2. CallbackType'
      BY <1>0, <2>1, <3>1 DEF CallbackInv, CallbackType, Tasks
    <3>3. ASSUME NEW n \in Commits PROVE CallbackOf(n)'
      <4>1. CASE n # m
        <5>1. task'[n] = task[n] /\ seen'[n] = seen[n]
          BY <1>0, <3>1, <4>1
        <5> QED BY <1>0, <2>1, <3>1, <5>1, Unpublished
      <4>2. CASE n = m /\ Metrics(m)
        <5>1. /\ task'[m] = IF branch[m] = None THEN "global" ELSE "branch"
              /\ seen'[m] = version
          BY <1>0, <4>2 DEF Metrics, Advance
        <5>2. m <= version
          BY <1>0, <3>1 DEF CallbackOf
        <5> QED BY <1>0, <2>1, <4>2, <5>1, <5>2 DEF CallbackOf
      <4>3. CASE n = m /\ (MetricsError(m) \/ PublishError(m))
        <5>1. task'[m] = "done" /\ m \in failed'
          BY <1>0, <4>3 DEF MetricsError, PublishError, Advance
        <5>2. m <= version
          BY <1>0, <3>1 DEF CallbackOf
        <5> QED BY <2>1, <4>3, <5>1, <5>2 DEF CallbackOf
      <4> QED BY <2>2, <4>1, <4>2, <4>3
    <3>4. ASSUME NEW ch \in Channels, NEW i \in DOMAIN events[ch] PROVE EventOf(ch, i)'
      <4>1. \A n \in Commits : task[n] \in {"done", "lost"} => task'[n] = task[n]
        BY <1>0, <3>1
      <4>2. \A n \in Commits : task[n] = "global" => task'[n] \in {"global", "done"}
        <5>1. task[m] = "global" => task'[m] = "done"
          BY <1>0, <2>2 DEF Metrics, MetricsError, PublishError, Advance
        <5>2. \A n \in Commits \ {m} : task'[n] = task[n]
          BY <1>0, <3>1
        <5> QED BY <5>1, <5>2
      <4> QED BY <1>0, <2>1, <3>1, <4>1, <4>2, EventsKept
    <3> QED BY <3>1, <3>2, <3>3, <3>4 DEF CallbackInv
  <2>3. CASE PublishBranch(m)
    <3>1. branch[m] \in Channels
      BY <1>0
    <3> QED BY <2>1, <2>3, <3>1, PublishKeeps DEF PublishBranch, Advance
  <2>4. CASE PublishGlobal(m)
    <3>1. None \in Channels
      BY DEF Channels
    <3> QED BY <2>1, <2>4, <3>1, PublishKeeps DEF PublishGlobal, Advance
  <2> QED BY <1>6, <2>2, <2>3, <2>4 DEF Callback
<1>7. CASE UNCHANGED vars
  BY <1>1, <1>7 DEF vars, lifespan, callback
<1> QED BY <1>2, <1>3, <1>4, <1>5, <1>6, <1>7 DEF Next

LEMMA CallbackInvariance == Spec => []CallbackInv
<1>1. ASSUME Init PROVE CallbackInv
  <2>1. <<>> \in Seq(Commits \X Nat) /\ DOMAIN <<>> = {}
    OBVIOUS
  <2>2. CallbackType
    BY <1>1, <2>1, ListenerAssumption DEF Init, CallbackType, Tasks, Channels
  <2> QED BY <1>1, <2>1, <2>2 DEF Init, CallbackInv, CallbackOf
<1> QED BY <1>1, CallbackStep, PTL DEF Spec

\* The safety half of NotificationIsPublished, however many callbacks overlap
\* (notifier.py 98-114, publisher.py 41-84).
THEOREM CallbacksAreSettled == Spec => []CallbacksSettle
<1>1. CallbackInv => CallbacksSettle
  BY DEF CallbackInv, CallbackOf, CallbacksSettle
<1> QED BY <1>1, CallbackInvariance, PTL

\* However many callbacks overlap, an event is published once for each notification on each
\* of the two channels it is for, and its metrics count the commit it tells of.
THEOREM EventsAreForTheirBranch == Spec => []EventsAreOwn
<1>1. ASSUME CallbackInv PROVE EventsAreOwn
  <2> SUFFICES ASSUME NEW ch \in Channels, NEW i \in DOMAIN events[ch]
               PROVE  LET n == events[ch][i][1]
                      IN  /\ n \in 1..version /\ ch \in {None, branch[n]}
                          /\ events[ch][i][2] \in n..version
                          /\ \A j \in DOMAIN events[ch] : events[ch][j][1] = n => j = i
    BY DEF EventsAreOwn
  <2>1. EventOf(ch, i) /\ version \in Nat
    BY <1>1 DEF CallbackInv, CallbackType
  <2>2. events[ch][i] \in Commits \X Nat
    BY <1>1 DEF CallbackInv, CallbackType
  <2>3. events[ch][i][1] \in Commits
    BY <2>2
  <2> QED BY <2>1, <2>3, ListenerAssumption DEF EventOf, Commits
<1> QED BY <1>1, CallbackInvariance, PTL
========================================================================================
