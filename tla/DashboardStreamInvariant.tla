------------------------ MODULE DashboardStreamInvariant ------------------------
(***************************************************************************)
(* The inductive invariant of module DashboardStream: what is true of the  *)
(* tickets, of the handlers and of the events on their way to a client     *)
(* between two awaits.                                                     *)
(***************************************************************************)
EXTENDS DashboardStream

\* The handler redeemed a ticket and runs; it has accepted the connection; it streams.
Past      == States \ {"new", "handshake", "done"}
Late      == Past \ {"redeemed", "snapshot", "accept"}
Streaming == {"loop", "get", "forward"}

\* A ticket is in Redis or was redeemed, and its redeemer is the connection that named it.
TicketInv ==
  \A t \in Tickets :
    /\ keys[t] # None => issued[t] = keys[t] /\ redeemer[t] = None
    /\ redeemer[t] # None =>
         /\ issued[t] # None
         /\ asked[redeemer[t]].ticket = t
         /\ pc[redeemer[t]] \notin {"new", "handshake"}

\* What a handler knows of the connection it admits.
AdmissionOf(c) ==
  /\ pc[c] \in Past \/ c \in accepted =>
       /\ asked[c].originAllowed /\ asked[c].ticket \in Tickets
       /\ redeemer[asked[c].ticket] = c /\ payload[c] = issued[asked[c].ticket]
  /\ pc[c] \in Past \ {"redeemed"} \/ c \in accepted => Matches(c)
  /\ c \in accepted => pc[c] \in Late \cup {"done"}
  /\ pc[c] \in Late => c \in accepted

AdmissionInv == \A c \in Conns : AdmissionOf(c)

\* Where a handler holds its session, its reader task, its subscription and its Redis
\* connection; a broker failure may leave it the last two for good.
HoldsOf(c) ==
  /\ c \in sessions => pc[c] = "snapshot"
  /\ reader[c] = "running" => pc[c] \in Streaming \cup {"cleanup"}
  /\ pc[c] \in Streaming => reader[c] # "none"
  /\ c \in subs => pc[c] \in Streaming \cup {"cleanup", "unsubscribe"} \/ c \in broken
  /\ c \in pubsubs =>
       pc[c] \in Streaming \cup {"cleanup", "unsubscribe", "aclose"} \/ c \in broken

HoldsInv == \A c \in Conns : HoldsOf(c)

\* What the snapshot of a connection is restricted to.
SnapshotScope(c) == Scope(TargetBranch(Target(asked[c].branch)))

\* What a connection was sent, holds and is pushed is of its own channel.
ScopeOf(c) ==
  /\ frames[c] # <<>> => c \in accepted
  /\ \A i \in DOMAIN frames[c] :
       frames[c][i] = <<SnapshotScope(c), 0>> \/ frames[c][i][1] = Channel(c)
  /\ pc[c] = "forward" => message[c] \in Event /\ message[c][1] = Channel(c)
  /\ \A i \in DOMAIN inbox[c] : inbox[c][i][1] = Channel(c)
  /\ pc[c] \notin Late \cup {"done"} => frames[c] = <<>>
  /\ pc[c] \notin (Late \ {"send", "subscribe"}) \cup {"done"} => inbox[c] = <<>> /\ c \notin subs

ScopeInv == \A c \in Conns : ScopeOf(c)

\* How far the client of c is: the number of the last frame it was sent, and the number
\* of the last event its handler took out of the inbox.
SentNumber(c) == frames[c][Len(frames[c])][2]
Taken(c) == IF pc[c] = "forward" THEN message[c][2] ELSE SentNumber(c)
Count(c) == Len(frames[c]) - 1 + (IF pc[c] = "forward" THEN 1 ELSE 0)

\* The frames, the event in the handler's hand, the inbox and the publishers' counter
\* are consecutive; after a failure of the broker they are still in order.
OrderOf(c) ==
  /\ pc[c] = "send" => frames[c] = <<>>
  /\ pc[c] = "subscribe" => Len(frames[c]) = 1
  /\ \A i \in DOMAIN frames[c] :
       /\ i = 1 => frames[c][i][2] = 0
       /\ i > 1 => /\ frames[c][i - 1][2] < frames[c][i][2]
                   /\ c \notin broken => frames[c][i][2] = start[c] + i - 1
  /\ pc[c] \in Streaming =>
       /\ c \in subs /\ frames[c] # <<>>
       /\ pc[c] = "forward" => SentNumber(c) < message[c][2]
       /\ Taken(c) <= published[Channel(c)]
       /\ \A i \in DOMAIN inbox[c] :
            /\ Taken(c) < inbox[c][i][2] /\ inbox[c][i][2] <= published[Channel(c)]
            /\ \A j \in DOMAIN inbox[c] : i < j => inbox[c][i][2] < inbox[c][j][2]
            /\ c \notin broken => inbox[c][i][2] = start[c] + Count(c) + i
       /\ c \notin broken =>
            /\ pc[c] = "forward" => message[c][2] = start[c] + Count(c)
            /\ published[Channel(c)] = start[c] + Count(c) + Len(inbox[c])

OrderInv == \A c \in Conns : OrderOf(c)

DInv == TypeOK /\ TicketInv /\ AdmissionInv /\ HoldsInv /\ ScopeInv /\ OrderInv
=================================================================================
