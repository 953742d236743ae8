------------------------------ MODULE DashboardStream ------------------------------
(***************************************************************************)
(* The dashboard's WebSocket: tickets in Redis (app/websocket/tickets.py), *)
(* the handshake (app/websocket/auth.py), and the handler that sends a     *)
(* snapshot and then forwards the events of a Redis channel until the      *)
(* client leaves or the broker fails (app/websocket/router.py).            *)
(*                                                                         *)
(* One handler coroutine and, while it streams, one reader task per        *)
(* connection.  A handler moves from await to await; in between the other  *)
(* handlers run, tickets expire, events are published and clients leave.   *)
(***************************************************************************)
EXTENDS Naturals, Sequences, FiniteSets

CONSTANTS
  Conns,      \* WebSocket connections
  Tickets,    \* ticket strings
  Branches,   \* branch identifiers
  Global,     \* "global", "dashboard" or "_global"
  Blank,      \* what is left of a branch identifier made of white space
  None,       \* Python's None
  Requests,   \* the handshakes clients try: a subset of Request
  Faults,     \* what may go wrong: a subset of FaultKinds
  PoolSize,   \* connections of the Redis pool of the API process
  MaxEvents   \* bound: events published on one channel

FaultKinds == {"broker", "database", "frame", "crash"}

\* Names a ticket can be minted for; a channel carries the events of one name.
Names    == Branches \cup {Global}
Channels == Names
Request  == [originAllowed : BOOLEAN, ticket : Tickets \cup {None},
             branch : Names \cup {Blank, None}]

ASSUME StreamAssumption ==
  /\ Requests \subseteq Request
  /\ Faults \subseteq FaultKinds
  /\ PoolSize \in Nat \ {0} /\ MaxEvents \in Nat
  /\ Global \notin Branches /\ Blank \notin Names
  /\ None \notin Names \cup {Blank} \cup Tickets \cup Conns

VARIABLES
  keys,       \* Redis: the resource stored under a ticket's key, or None
  published,  \* Redis: how many events were published on each channel
  subs,       \* Redis: the connections subscribed to their channel
  inbox,      \* events pushed to a subscriber and not read yet
  pubsubs,    \* connections of the Redis pool taken by PubSub objects
  sessions,   \* handlers with an open database session
  pc,         \* the await each handler is at
  asked,      \* the handshake a client sent
  payload,    \* the ticket's resource, as GETDEL returned it
  reader,     \* the reader task; "done" is client_disconnect_event
  message,    \* the event get_message returned
  client,     \* whether the client is still there
  code,       \* the code of websocket.close
  frames,     \* history: what the client was sent: <<scope, 0>> for the snapshot,
              \* <<channel, n>> for the n-th event of a channel
  issued,     \* history: the resource each ticket was minted for
  redeemer,   \* history: the connection GETDEL gave a ticket's payload to
  accepted,   \* history: connections whose handler reached accept()
  start,      \* history: events published on the channel when SUBSCRIBE took effect
  broken      \* history: handlers that saw the broker fail

redis   == <<keys, published, subs, inbox, pubsubs>>
handler == <<asked, payload, reader, message, client, code>>
history == <<frames, issued, redeemer, accepted, start, broken>>
vars    == <<redis, sessions, pc, handler, history>>

States == {"new", "handshake", "redeemed", "snapshot", "accept", "send", "subscribe",
           "loop", "get", "forward", "cleanup", "unsubscribe", "aclose", "done"}

NoRequest == [originAllowed |-> FALSE, ticket |-> None, branch |-> None]
NoEvent   == <<None, 0>>
Event     == Channels \X (1..MaxEvents)
Frame     == Event \cup ((Names \cup {Blank}) \X {0})

Init ==
  /\ keys = [t \in Tickets |-> None]
  /\ published = [ch \in Channels |-> 0]
  /\ subs = {}
  /\ inbox = [c \in Conns |-> <<>>]
  /\ pubsubs = {}
  /\ sessions = {}
  /\ pc = [c \in Conns |-> "new"]
  /\ asked = [c \in Conns |-> NoRequest]
  /\ payload = [c \in Conns |-> None]
  /\ reader = [c \in Conns |-> "none"]
  /\ message = [c \in Conns |-> NoEvent]
  /\ client = [c \in Conns |-> "here"]
  /\ code = [c \in Conns |-> "none"]
  /\ frames = [c \in Conns |-> <<>>]
  /\ issued = [t \in Tickets |-> None]
  /\ redeemer = [t \in Tickets |-> None]
  /\ accepted = {}
  /\ start = [c \in Conns |-> 0]
  /\ broken = {}

----------------------------------------------------------------------------
(* How a requested branch is turned into a resource, a filter and a channel. *)

\* router.py 88: branch_id.strip() if branch_id else "global"
Target(branch) == IF branch = None THEN Global ELSE branch

\* auth.py 94-95: the blank name counts as "global".
Expected(name) == IF name \in {None, Blank, Global} THEN Global ELSE name

\* router.py 101: the filter of the snapshot; None is no filter.
TargetBranch(name) == IF name = Global THEN None ELSE name

\* service.py: "if branch_id is not None" restricts every query to that branch.
Scope(branch) == IF branch = None THEN Global ELSE branch

\* Mutant: one channel for everybody.
ChannelNameShared(branch) == Global

\* get_channel_name
ChannelName(branch) == IF branch \in Branches THEN branch ELSE Global

Channel(c) == ChannelName(TargetBranch(Target(asked[c].branch)))

----------------------------------------------------------------------------
(* Pieces the actions share. *)

Goto(c, from, to) == pc[c] = from /\ pc' = [pc EXCEPT ![c] = to]

\* A Redis command of this process needs a connection of the pool; max_connections
\* reached is an error, not a wait.
RedisRoom == Cardinality(pubsubs) < PoolSize

\* The handler closes the WebSocket and goes on at "to".
CloseWith(c, from, to, status) ==
  /\ Goto(c, from, to)
  /\ code' = [code EXCEPT ![c] = status]
  /\ UNCHANGED <<asked, payload, reader, message, client>>

BrokerFailed(c) == broken' = broken \cup {c}

\* Redis ends the subscription of c; what was pushed and not read is lost.
Unsubscribed(c) ==
  /\ subs' = subs \ {c}
  /\ inbox' = [inbox EXCEPT ![c] = <<>>]

----------------------------------------------------------------------------
(* The environment: clients, the clock of Redis, publishers. *)

\* Mutant: the name is not tested after strip().
CreateTicketUnchecked(t, name) ==
  /\ issued[t] = None /\ RedisRoom
  /\ keys' \in {[keys EXCEPT ![t] = name], [keys EXCEPT ![t] = Blank]}
  /\ issued' = [issued EXCEPT ![t] = name]
  /\ UNCHANGED <<published, subs, inbox, pubsubs, sessions, pc, handler,
                 frames, redeemer, accepted, start, broken>>

\* POST /ws/{branch_id}/ticket: SET with a time to live.
CreateTicket(t, name) ==
  /\ issued[t] = None /\ RedisRoom
  /\ keys' = [keys EXCEPT ![t] = name]
  /\ issued' = [issued EXCEPT ![t] = name]
  /\ UNCHANGED <<published, subs, inbox, pubsubs, sessions, pc, handler,
                 frames, redeemer, accepted, start, broken>>

\* The time to live of a ticket's key ends.
Expire(t) ==
  /\ keys[t] # None
  /\ keys' = [keys EXCEPT ![t] = None]
  /\ UNCHANGED <<published, subs, inbox, pubsubs, sessions, pc, handler, history>>

\* A client opens a connection with a ticket it was given, or not.
Connect(c, request) ==
  /\ Goto(c, "new", "handshake")
  /\ asked' = [asked EXCEPT ![c] = request]
  /\ UNCHANGED <<redis, sessions, payload, reader, message, client, code, history>>

Leave(c) ==
  /\ pc[c] \notin {"new", "done"} /\ client[c] = "here"
  /\ client' = [client EXCEPT ![c] = "gone"]
  /\ UNCHANGED <<redis, sessions, pc, asked, payload, reader, message, code, history>>

\* One redis.publish: every subscriber of the channel gets the event.
Publish(ch) ==
  /\ published[ch] < MaxEvents
  /\ published' = [published EXCEPT ![ch] = @ + 1]
  /\ inbox' = [c \in Conns |-> IF c \in subs /\ Channel(c) = ch
                               THEN Append(inbox[c], <<ch, published[ch] + 1>>) ELSE inbox[c]]
  /\ UNCHANGED <<keys, subs, pubsubs, sessions, pc, handler, history>>

----------------------------------------------------------------------------
(* The handshake. *)

RejectRequest(c) ==
  /\ ~asked[c].originAllowed \/ asked[c].ticket = None
  /\ CloseWith(c, "handshake", "done", "1008")
  /\ UNCHANGED <<redis, sessions, history>>

\* Mutant: GET instead of GETDEL.
RedeemKeepsKey(c, t) ==
  /\ Goto(c, "handshake", "redeemed")
  /\ asked[c].originAllowed /\ asked[c].ticket = t
  /\ keys[t] # None /\ RedisRoom
  /\ payload' = [payload EXCEPT ![c] = keys[t]]
  /\ redeemer' = [redeemer EXCEPT ![t] = c]
  /\ UNCHANGED <<redis, sessions, asked, reader, message, client, code,
                 frames, issued, accepted, start, broken>>

\* GETDEL finds the key, and removes it.
Redeem(c, t) ==
  /\ Goto(c, "handshake", "redeemed")
  /\ asked[c].originAllowed /\ asked[c].ticket = t
  /\ keys[t] # None /\ RedisRoom
  /\ payload' = [payload EXCEPT ![c] = keys[t]]
  /\ redeemer' = [redeemer EXCEPT ![t] = c]
  /\ keys' = [keys EXCEPT ![t] = None]
  /\ UNCHANGED <<published, subs, inbox, pubsubs, sessions, asked, reader, message, client,
                 code, frames, issued, accepted, start, broken>>

\* GETDEL finds nothing, or there is no connection to send it on.
RejectTicket(c) ==
  /\ asked[c].originAllowed /\ asked[c].ticket # None
  /\ keys[asked[c].ticket] = None \/ ~RedisRoom
  /\ CloseWith(c, "handshake", "done", "1008")
  /\ UNCHANGED <<redis, sessions, history>>

\* GETDEL raises, before or after Redis carried it out.
RedeemError(c) ==
  /\ asked[c].originAllowed /\ asked[c].ticket # None
  /\ CloseWith(c, "handshake", "done", "1008")
  /\ \/ UNCHANGED keys
     \/ keys' = [keys EXCEPT ![asked[c].ticket] = None]
  /\ BrokerFailed(c)
  /\ UNCHANGED <<published, subs, inbox, pubsubs, sessions,
                 frames, issued, redeemer, accepted, start>>

Matches(c) == Expected(Target(asked[c].branch)) = Expected(payload[c])

RejectMismatch(c) ==
  /\ ~Matches(c)
  /\ CloseWith(c, "redeemed", "done", "1008")
  /\ UNCHANGED <<redis, sessions, history>>

----------------------------------------------------------------------------
(* The snapshot, accept(), and the subscription. *)

\* Mutant: the resource of the ticket is not compared with the requested one.
OpenSessionUnmatched(c) ==
  /\ Goto(c, "redeemed", "snapshot")
  /\ sessions' = sessions \cup {c}
  /\ UNCHANGED <<redis, handler, history>>

OpenSession(c) ==
  /\ Goto(c, "redeemed", "snapshot")
  /\ Matches(c)
  /\ sessions' = sessions \cup {c}
  /\ UNCHANGED <<redis, handler, history>>

\* Mutant: the session block reaches to the end of the handler.
SnapshotKeepsSession(c) ==
  /\ Goto(c, "snapshot", "accept")
  /\ UNCHANGED <<redis, sessions, handler, history>>

\* The metrics are computed and "async with" ends.
Snapshot(c) ==
  /\ Goto(c, "snapshot", "accept")
  /\ sessions' = sessions \ {c}
  /\ UNCHANGED <<redis, handler, history>>

SnapshotError(c) ==
  /\ CloseWith(c, "snapshot", "done", "1008")
  /\ sessions' = sessions \ {c}
  /\ UNCHANGED <<redis, history>>

Accept(c) ==
  /\ Goto(c, "accept", "send")
  /\ accepted' = accepted \cup {c}
  /\ UNCHANGED <<redis, sessions, handler, frames, issued, redeemer, start, broken>>

SendSnapshot(c) ==
  /\ Goto(c, "send", "subscribe")
  /\ frames' = [frames EXCEPT ![c] = <<<<Scope(TargetBranch(Target(asked[c].branch))), 0>>>>]
  /\ UNCHANGED <<redis, sessions, handler, issued, redeemer, accepted, start, broken>>

\* The client is gone and accept() or the first send raises.
GreetError(c) ==
  /\ pc[c] \in {"accept", "send"} /\ Goto(c, pc[c], "done")
  /\ client[c] = "gone"
  /\ UNCHANGED <<redis, sessions, handler, history>>

\* SUBSCRIBE on a connection of the pool; the reader task starts.
Subscribe(c) ==
  /\ Goto(c, "subscribe", "loop")
  /\ RedisRoom
  /\ pubsubs' = pubsubs \cup {c}
  /\ subs' = subs \cup {c}
  /\ start' = [start EXCEPT ![c] = published[Channel(c)]]
  /\ reader' = [reader EXCEPT ![c] = "running"]
  /\ UNCHANGED <<keys, published, inbox, sessions, asked, payload, message, client, code,
                 frames, issued, redeemer, accepted, broken>>

SubscribeRefused(c) ==
  /\ ~RedisRoom
  /\ CloseWith(c, "subscribe", "done", "1013")
  /\ UNCHANGED <<redis, sessions, history>>

\* SUBSCRIBE raises.  The PubSub object, which may have taken a connection and even be
\* subscribed, is not closed.
SubscribeError(c) ==
  /\ CloseWith(c, "subscribe", "done", "1013")
  /\ \/ UNCHANGED <<pubsubs, subs>>
     \/ /\ RedisRoom /\ pubsubs' = pubsubs \cup {c}
        /\ subs' \in {subs, subs \cup {c}}
  /\ BrokerFailed(c)
  /\ UNCHANGED <<keys, published, inbox, sessions, frames, issued, redeemer, accepted, start>>

----------------------------------------------------------------------------
(* The streaming loop and the reader task. *)

\* Mutant: the loop does not look at client_disconnect_event.
LoopForever(c) ==
  /\ Goto(c, "loop", "get")
  /\ UNCHANGED <<redis, sessions, handler, history>>

Loop(c) ==
  /\ Goto(c, "loop", IF reader[c] = "done" THEN "cleanup" ELSE "get")
  /\ UNCHANGED <<redis, sessions, handler, history>>

\* Mutant: only the newest waiting event is taken.
GetNewest(c) ==
  /\ Goto(c, "get", "forward")
  /\ inbox[c] # <<>>
  /\ message' = [message EXCEPT ![c] = inbox[c][Len(inbox[c])]]
  /\ inbox' = [inbox EXCEPT ![c] = <<>>]
  /\ UNCHANGED <<keys, published, subs, pubsubs, sessions, asked, payload, reader, client, code,
                 history>>

GetMessage(c) ==
  /\ Goto(c, "get", "forward")
  /\ inbox[c] # <<>>
  /\ message' = [message EXCEPT ![c] = Head(inbox[c])]
  /\ inbox' = [inbox EXCEPT ![c] = Tail(@)]
  /\ UNCHANGED <<keys, published, subs, pubsubs, sessions, asked, payload, reader, client, code,
                 history>>

\* Mutant: ending get_message by the timeout loses what had arrived.
GetNothingDrops(c) ==
  /\ Goto(c, "get", "loop")
  /\ inbox' = [inbox EXCEPT ![c] = <<>>]
  /\ UNCHANGED <<keys, published, subs, pubsubs, sessions, handler, history>>

\* get_message or wait_for ends after a second without a message.
GetNothing(c) ==
  /\ Goto(c, "get", "loop")
  /\ inbox[c] = <<>>
  /\ UNCHANGED <<redis, sessions, handler, history>>

Forward(c) ==
  /\ Goto(c, "forward", "loop")
  /\ frames' = [frames EXCEPT ![c] = Append(@, message[c])]
  /\ message' = [message EXCEPT ![c] = NoEvent]
  /\ UNCHANGED <<redis, sessions, asked, payload, reader, client, code,
                 issued, redeemer, accepted, start, broken>>

\* The client is gone and send_text raises: WebSocketDisconnect, or another exception
\* that the handler answers with a close.
ForwardError(c) ==
  /\ client[c] = "gone"
  /\ \/ CloseWith(c, "forward", "cleanup", "1013")
     \/ CloseWith(c, "forward", "cleanup", code[c])
  /\ UNCHANGED <<redis, sessions, history>>

\* The pub/sub connection breaks: the client of the library reconnects and subscribes
\* again, what was pushed in between is lost; or get_message raises.
Reconnect(c) ==
  /\ pc[c] = "get"
  /\ inbox' = [inbox EXCEPT ![c] = <<>>]
  /\ BrokerFailed(c)
  /\ UNCHANGED <<keys, published, subs, pubsubs, sessions, pc, handler,
                 frames, issued, redeemer, accepted, start>>

GetError(c) ==
  /\ CloseWith(c, "get", "cleanup", "1013")
  /\ Unsubscribed(c) \/ UNCHANGED <<subs, inbox>>
  /\ BrokerFailed(c)
  /\ UNCHANGED <<keys, published, pubsubs, sessions, frames, issued, redeemer, accepted, start>>

\* The reader's receive_text raises: the client left, or sent what is not a text frame.
ReaderStops(c) ==
  /\ reader[c] = "running"
  /\ client[c] = "gone" \/ "frame" \in Faults
  /\ reader' = [reader EXCEPT ![c] = "done"]
  /\ UNCHANGED <<redis, sessions, pc, asked, payload, message, client, code, history>>

\* finally: the reader task is cancelled and awaited.
CancelReader(c) ==
  /\ Goto(c, "cleanup", "unsubscribe")
  /\ reader' = [reader EXCEPT ![c] = "done"]
  /\ UNCHANGED <<redis, sessions, asked, payload, message, client, code, history>>

Unsubscribe(c) ==
  /\ Goto(c, "unsubscribe", "aclose")
  /\ Unsubscribed(c)
  /\ UNCHANGED <<keys, published, pubsubs, sessions, handler, history>>

\* Mutant: the PubSub object is unsubscribed but not closed.
AcloseForgotten(c) ==
  /\ Goto(c, "aclose", "done")
  /\ UNCHANGED <<redis, sessions, handler, history>>

Aclose(c) ==
  /\ Goto(c, "aclose", "done")
  /\ pubsubs' = pubsubs \ {c}
  /\ UNCHANGED <<keys, published, subs, inbox, sessions, handler, history>>

\* unsubscribe or aclose raises; after a failing unsubscribe aclose is not called.
CleanupError(c) ==
  /\ pc[c] \in {"unsubscribe", "aclose"} /\ Goto(c, pc[c], "done")
  /\ Unsubscribed(c) \/ UNCHANGED <<subs, inbox>>
  /\ BrokerFailed(c)
  /\ UNCHANGED <<keys, published, pubsubs, sessions, handler,
                 frames, issued, redeemer, accepted, start>>

\* The API process dies and is started again; Redis keeps the tickets.
Running == {c \in Conns : pc[c] \notin {"new", "done"}}

Crash ==
  /\ Running # {}
  /\ pc' = [c \in Conns |-> IF c \in Running THEN "done" ELSE pc[c]]
  /\ reader' = [c \in Conns |-> IF reader[c] = "running" THEN "done" ELSE reader[c]]
  /\ subs' = {} /\ pubsubs' = {} /\ sessions' = {}
  /\ inbox' = [c \in Conns |-> <<>>]
  /\ UNCHANGED <<keys, published, asked, payload, message, client, code, history>>

----------------------------------------------------------------------------
Progress(c) ==
  \/ RejectRequest(c) \/ (\E t \in Tickets : Redeem(c, t)) \/ RejectTicket(c)
  \/ RejectMismatch(c) \/ OpenSession(c) \/ Snapshot(c) \/ Accept(c) \/ SendSnapshot(c)
  \/ Subscribe(c) \/ SubscribeRefused(c) \/ Loop(c) \/ GetMessage(c) \/ GetNothing(c)
  \/ Forward(c) \/ CancelReader(c) \/ Unsubscribe(c) \/ Aclose(c)

Failure(c) ==
  \/ GreetError(c) \/ ForwardError(c)
  \/ /\ "broker" \in Faults
     /\ \/ RedeemError(c) \/ SubscribeError(c) \/ Reconnect(c) \/ GetError(c)
        \/ CleanupError(c)
  \/ "database" \in Faults /\ SnapshotError(c)

Next ==
  \/ \E t \in Tickets : Expire(t) \/ (\E name \in Names : CreateTicket(t, name))
  \/ \E ch \in Channels : Publish(ch)
  \/ \E c \in Conns :
       \/ \E request \in Requests : Connect(c, request)
       \/ Leave(c) \/ ReaderStops(c) \/ Progress(c) \/ Failure(c)
  \/ "crash" \in Faults /\ Crash

\* Awaited calls return or raise, and the event loop runs every task that is ready.
Fairness == \A c \in Conns : WF_vars(Progress(c)) /\ WF_vars(ReaderStops(c))

Spec == Init /\ [][Next]_vars
FairSpec == Spec /\ Fairness

----------------------------------------------------------------------------
(* Correctness. *)

\* Type invariant.
TypeOK ==
  /\ keys \in [Tickets -> Names \cup {None}]
  /\ published \in [Channels -> 0..MaxEvents]
  /\ subs \subseteq Conns /\ pubsubs \subseteq Conns /\ sessions \subseteq Conns
  /\ inbox \in [Conns -> Seq(Event)]
  /\ pc \in [Conns -> States]
  /\ asked \in [Conns -> Request]
  /\ payload \in [Conns -> Names \cup {None}]
  /\ reader \in [Conns -> {"none", "running", "done"}]
  /\ message \in [Conns -> Event \cup {NoEvent}]
  /\ client \in [Conns -> {"here", "gone"}]
  /\ code \in [Conns -> {"none", "1008", "1013"}]
  /\ frames \in [Conns -> Seq(Frame)]
  /\ issued \in [Tickets -> Names \cup {None}]
  /\ redeemer \in [Tickets -> Conns \cup {None}]
  /\ accepted \subseteq Conns
  /\ start \in [Conns -> 0..MaxEvents]
  /\ broken \subseteq Conns

\* A ticket opens at most one connection, whatever races with its expiry, with another
\* connection or with a restart (AUTHENTICATION.md 164).
SingleUse ==
  \A c, d \in accepted : asked[c].ticket = asked[d].ticket => c = d

\* An accepted connection was asked for from an allowed origin, and everything it is
\* sent belongs to the resource its ticket was minted for: the places that normalise a
\* branch (router.py 88 and 101, auth.py 94-95, publisher.py 22) agree, but for the
\* snapshot of a blank branch.
AcceptedIsAuthorized ==
  \A c \in accepted :
    /\ asked[c].originAllowed
    /\ \A i \in DOMAIN frames[c] :
         \/ frames[c][i][1] = issued[asked[c].ticket]
         \/ frames[c][i] = <<Blank, 0>>

\* A handler holds its database session until accept() only (AUTHENTICATION.md 166), and
\* when it ends, by whatever path, it has given back its session, its reader task, its
\* subscription and its Redis connection; only a broker that failed under it makes it
\* keep the last two.
NothingKept ==
  \A c \in Conns :
    /\ pc[c] \in {"accept", "done"} \/ c \in accepted => c \notin sessions
    /\ pc[c] = "done" => reader[c] # "running" /\ (c \in subs \cup pubsubs => c \in broken)

\* After the snapshot the client gets the events of its channel one by one, in the
\* order they were published, from the first one after the subscription on; events are
\* left out only when the broker's connection broke, and never repeated.
ForwardedInOrder ==
  \A c \in Conns : \A i \in DOMAIN frames[c] :
    /\ i = 1 => frames[c][i][2] = 0
    /\ i > 1 => IF c \in broken THEN frames[c][i - 1][2] < frames[c][i][2]
                ELSE frames[c][i][2] = start[c] + i - 1

\* A handler whose client left comes to its end, also while events keep arriving and
\* when none arrives.
HandlerEnds == \A c \in Conns : client[c] = "gone" ~> pc[c] = "done"

\* An event pushed to a client that stays, over a broker that works, reaches it.
EventsReachClient ==
  \A c \in Conns : \A n \in 1..MaxEvents :
    (c \in subs /\ published[Channel(c)] >= n /\ n > start[c]) ~>
      \/ \E i \in DOMAIN frames[c] : frames[c][i][2] = n
      \/ c \in broken \/ reader[c] = "done"

\* The promise of module TicketAuthority: the tickets that can be redeemed are the keys
\* in Redis, and a connection is admitted for the channel it listens to.
Authority ==
  INSTANCE TicketAuthority WITH
    Unissued <- None, Nobody <- None,
    valid <- {t \in Tickets : keys[t] # None},
    holder <- redeemer,
    admitted <- {<<c, Channel(c)>> : c \in accepted}
ImplementsAuthority == Authority!AuthoritySpec
====================================================================================
