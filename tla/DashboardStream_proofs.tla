------------------------- MODULE DashboardStream_proofs -------------------------
(***************************************************************************)
(* Theorems about module DashboardStream, for every set of connections and *)
(* tickets, every pool size, every number of events and every choice of    *)
(* faults.                                                                 *)
(***************************************************************************)
EXTENDS DashboardStreamInvariant, TLAPS

----------------------------------------------------------------------------
(* Type correctness. *)

\* The channel of a connection is one of the channels, whatever was asked for.
LEMMA ChannelType ==
  ASSUME TypeOK, NEW c \in Conns
  PROVE  /\ Channel(c) \in Channels
         /\ SnapshotScope(c) \in Names \cup {Blank}
         /\ Target(asked[c].branch) \in Names \cup {Blank}
<1>1. asked[c].branch \in Names \cup {Blank, None}
  BY DEF TypeOK, Request
<1> QED BY <1>1, StreamAssumption
        DEF Channel, ChannelName, TargetBranch, Target, SnapshotScope, Scope, Channels, Names

\* Closing the WebSocket keeps the handler's locals well formed.
LEMMA CloseType ==
  ASSUME TypeOK, NEW c \in Conns, NEW from, NEW to \in States,
         NEW status \in {"none", "1008", "1013"}, CloseWith(c, from, to, status)
  PROVE  /\ pc' \in [Conns -> States] /\ code' \in [Conns -> {"none", "1008", "1013"}]
         /\ UNCHANGED <<asked, payload, reader, message, client>>
BY DEF CloseWith, Goto, TypeOK

\* What is pushed to a subscriber is an event of the channel.
LEMMA PublishType ==
  ASSUME TypeOK, NEW ch \in Channels, Publish(ch)
  PROVE  published' \in [Channels -> 0..MaxEvents] /\ inbox' \in [Conns -> Seq(Event)]
<1>1. /\ published[ch] \in 0..MaxEvents /\ published[ch] < MaxEvents /\ MaxEvents \in Nat
      /\ published' = [published EXCEPT ![ch] = published[ch] + 1]
  BY StreamAssumption DEF Publish, TypeOK
<1>2. <<ch, published[ch] + 1>> \in Event
  BY <1>1 DEF Event
<1>3. \A c \in Conns : inbox'[c] \in {inbox[c], Append(inbox[c], <<ch, published[ch] + 1>>)}
  BY DEF Publish
<1>4. ASSUME NEW c \in Conns PROVE inbox'[c] \in Seq(Event)
  <2>1. inbox[c] \in Seq(Event)
    BY DEF TypeOK
  <2> HIDE DEF Event
  <2>2. Append(inbox[c], <<ch, published[ch] + 1>>) \in Seq(Event)
    BY <1>2, <2>1
  <2> QED BY <1>3, <2>1, <2>2
<1>5. inbox' = [c \in Conns |-> inbox'[c]]
  BY DEF Publish
<1>6. published' \in [Channels -> 0..MaxEvents]
  BY <1>1 DEF TypeOK
<1> QED BY <1>4, <1>5, <1>6

\* Every step keeps the state well formed.
LEMMA TypeStep ==
  ASSUME TypeOK, ScopeInv, [Next]_vars
  PROVE  TypeOK'
<1> USE DEF Goto, redis, handler, history
<1>0. /\ \A c \in Conns : asked[c].ticket \in Tickets \cup {None}
      /\ States = {"new", "handshake", "redeemed", "snapshot", "accept", "send", "subscribe",
                   "loop", "get", "forward", "cleanup", "unsubscribe", "aclose", "done"}
      /\ \A c \in Conns : [inbox EXCEPT ![c] = <<>>] \in [Conns -> Seq(Event)]
  <2>1. <<>> \in Seq(Event)
    OBVIOUS
  <2> QED BY <2>1 DEF TypeOK, Request, States
<1>1. ASSUME NEW t \in Tickets, Expire(t) \/ (\E name \in Names : CreateTicket(t, name))
      PROVE  TypeOK'
  BY <1>1 DEF Expire, CreateTicket, TypeOK
<1>2. ASSUME NEW ch \in Channels, Publish(ch) PROVE TypeOK'
  BY <1>2, PublishType DEF Publish, TypeOK
<1>3. ASSUME NEW c \in Conns, NEW request \in Requests, Connect(c, request) PROVE TypeOK'
  BY <1>0, <1>3, StreamAssumption DEF Connect, TypeOK
<1>4. ASSUME NEW c \in Conns, Leave(c) \/ ReaderStops(c) PROVE TypeOK'
  BY <1>4 DEF Leave, ReaderStops, TypeOK
<1>5. ASSUME NEW c \in Conns,
             RejectRequest(c) \/ RejectTicket(c) \/ RejectMismatch(c) \/ SubscribeRefused(c)
             \/ ForwardError(c)
      PROVE  TypeOK'
  <2>1. code[c] \in {"none", "1008", "1013"}
    BY DEF TypeOK
  <2>2. /\ pc' \in [Conns -> States] /\ code' \in [Conns -> {"none", "1008", "1013"}]
        /\ UNCHANGED <<asked, payload, reader, message, client>>
    BY <1>0, <1>5, <2>1, CloseType
       DEF RejectRequest, RejectTicket, RejectMismatch, SubscribeRefused, ForwardError
  <2>3. UNCHANGED <<redis, sessions, history>>
    BY <1>5 DEF RejectRequest, RejectTicket, RejectMismatch, SubscribeRefused, ForwardError
  <2> QED BY <2>2, <2>3 DEF TypeOK
<1>6. ASSUME NEW c \in Conns, NEW t \in Tickets, Redeem(c, t) PROVE TypeOK'
  BY <1>0, <1>6 DEF Redeem, TypeOK
<1>7. ASSUME NEW c \in Conns, OpenSession(c) \/ Snapshot(c) \/ Accept(c) \/ GreetError(c)
                              \/ Loop(c) \/ GetNothing(c) \/ Aclose(c)
      PROVE  TypeOK'
  BY <1>0, <1>7
     DEF OpenSession, Snapshot, Accept, GreetError, Loop, GetNothing, Aclose, TypeOK
<1>8. ASSUME NEW c \in Conns, SendSnapshot(c) PROVE TypeOK'
  <2>1. <<SnapshotScope(c), 0>> \in Frame
    BY ChannelType DEF Frame
  <2>2. <<<<SnapshotScope(c), 0>>>> \in Seq(Frame)
    BY <2>1
  <2>3. frames' \in [Conns -> Seq(Frame)]
    BY <1>8, <2>2 DEF SendSnapshot, SnapshotScope, TypeOK
  <2> QED BY <1>0, <1>8, <2>3 DEF SendSnapshot, TypeOK
<1>9. ASSUME NEW c \in Conns, Subscribe(c) PROVE TypeOK'
  BY <1>0, <1>9, ChannelType DEF Subscribe, TypeOK
<1>10. ASSUME NEW c \in Conns, GetMessage(c) PROVE TypeOK'
  <2>1. inbox[c] \in Seq(Event) /\ inbox[c] # <<>>
    BY <1>10 DEF GetMessage, TypeOK
  <2>2. Head(inbox[c]) \in Event /\ Tail(inbox[c]) \in Seq(Event)
    BY <2>1
  <2>3. message' \in [Conns -> Event \cup {NoEvent}] /\ inbox' \in [Conns -> Seq(Event)]
    BY <1>10, <2>2 DEF GetMessage, TypeOK
  <2> QED BY <1>0, <1>10, <2>3 DEF GetMessage, TypeOK
<1>11. ASSUME NEW c \in Conns, Forward(c) PROVE TypeOK'
  <2>1. message[c] \in Frame
    BY <1>11 DEF Forward, ScopeInv, ScopeOf, Frame
  <2>2. Append(frames[c], message[c]) \in Seq(Frame)
    BY <2>1 DEF TypeOK
  <2>3. frames' \in [Conns -> Seq(Frame)]
    BY <1>11, <2>2 DEF Forward, TypeOK
  <2> QED BY <1>0, <1>11, <2>3 DEF Forward, TypeOK
<1>12. ASSUME NEW c \in Conns, CancelReader(c) \/ Unsubscribe(c) PROVE TypeOK'
  BY <1>0, <1>12 DEF CancelReader, Unsubscribe, Unsubscribed, TypeOK
<1>13. ASSUME NEW c \in Conns, RedeemError(c) PROVE TypeOK'
  BY <1>0, <1>13, CloseType DEF RedeemError, BrokerFailed, TypeOK
<1>14. ASSUME NEW c \in Conns, SubscribeError(c) PROVE TypeOK'
  <2>1. /\ pc' \in [Conns -> States] /\ code' \in [Conns -> {"none", "1008", "1013"}]
        /\ UNCHANGED <<asked, payload, reader, message, client>>
    BY <1>0, <1>14, CloseType DEF SubscribeError
  <2>2. /\ pubsubs' \subseteq Conns /\ subs' \subseteq Conns /\ broken' \subseteq Conns
        /\ UNCHANGED <<keys, published, inbox, sessions, frames, issued, redeemer, accepted, start>>
    BY <1>14 DEF SubscribeError, BrokerFailed, TypeOK
  <2> QED BY <2>1, <2>2 DEF TypeOK
<1>15. ASSUME NEW c \in Conns, Reconnect(c) \/ CleanupError(c) PROVE TypeOK'
  BY <1>0, <1>15 DEF Reconnect, CleanupError, Unsubscribed, BrokerFailed, TypeOK
<1>16. ASSUME NEW c \in Conns, GetError(c) PROVE TypeOK'
  <2>1. /\ pc' \in [Conns -> States] /\ code' \in [Conns -> {"none", "1008", "1013"}]
        /\ UNCHANGED <<asked, payload, reader, message, client>>
    BY <1>0, <1>16, CloseType DEF GetError
  <2>2. /\ subs' \subseteq Conns /\ inbox' \in [Conns -> Seq(Event)] /\ broken' \subseteq Conns
        /\ UNCHANGED <<keys, published, pubsubs, sessions, frames, issued, redeemer, accepted, start>>
    BY <1>0, <1>16 DEF GetError, Unsubscribed, BrokerFailed, TypeOK
  <2> QED BY <2>1, <2>2 DEF TypeOK
<1>17. ASSUME NEW c \in Conns, SnapshotError(c) PROVE TypeOK'
  BY <1>0, <1>17, CloseType DEF SnapshotError, TypeOK
<1>18. CASE Crash
  BY <1>0, <1>18 DEF Crash, TypeOK
<1>19. CASE UNCHANGED vars
  BY <1>19 DEF vars, TypeOK
<1> QED
  BY <1>1, <1>2, <1>3, <1>4, <1>5, <1>6, <1>7, <1>8, <1>9, <1>10, <1>11, <1>12, <1>13,
     <1>14, <1>15, <1>16, <1>17, <1>18, <1>19 DEF Next, Progress, Failure

----------------------------------------------------------------------------
(* Tickets and admission. *)

\* The handlers that go from one await to another without a ticket being concerned.
Walks(c) ==
  \/ RejectRequest(c) \/ RejectTicket(c) \/ RejectMismatch(c) \/ OpenSession(c) \/ Snapshot(c)
  \/ SnapshotError(c) \/ SendSnapshot(c) \/ GreetError(c) \/ Subscribe(c) \/ SubscribeRefused(c)
  \/ SubscribeError(c) \/ Loop(c) \/ GetMessage(c) \/ GetNothing(c) \/ Forward(c)
  \/ ForwardError(c) \/ GetError(c) \/ CancelReader(c) \/ Unsubscribe(c) \/ Aclose(c)
  \/ CleanupError(c)

\* What a walk leaves alone, and where it leads.
LEMMA WalkFacts ==
  ASSUME TypeOK, NEW c \in Conns, Walks(c)
  PROVE  /\ UNCHANGED <<keys, issued, redeemer, asked, payload, accepted>>
         /\ \E to \in States :
              /\ pc' = [pc EXCEPT ![c] = to]
              /\ \/ to = "done" /\ pc[c] # "new"
                 \/ pc[c] = "redeemed" /\ to = "snapshot" /\ Matches(c)
                 \/ pc[c] = "snapshot" /\ to = "accept"
                 \/ pc[c] \in Late /\ to \in Late
<1> USE DEF Goto, redis, handler, history, States, Past, Late
<1>1. CASE RejectRequest(c) \/ RejectTicket(c) \/ RejectMismatch(c) \/ SubscribeRefused(c)
           \/ SnapshotError(c) \/ ForwardError(c)
  BY <1>1 DEF RejectRequest, RejectTicket, RejectMismatch, SubscribeRefused, SnapshotError,
              ForwardError, CloseWith
<1>2. CASE OpenSession(c) \/ Snapshot(c) \/ SendSnapshot(c) \/ GreetError(c) \/ Subscribe(c)
  BY <1>2 DEF OpenSession, Snapshot, SendSnapshot, GreetError, Subscribe
<1>3. CASE SubscribeError(c) \/ GetError(c) \/ CleanupError(c)
  BY <1>3 DEF SubscribeError, GetError, CleanupError, CloseWith, BrokerFailed, Unsubscribed
<1>4. CASE Loop(c) \/ GetMessage(c) \/ GetNothing(c) \/ Forward(c)
  BY <1>4 DEF Loop, GetMessage, GetNothing, Forward
<1>5. CASE CancelReader(c) \/ Unsubscribe(c) \/ Aclose(c)
  BY <1>5 DEF CancelReader, Unsubscribe, Aclose
<1> QED BY <1>1, <1>2, <1>3, <1>4, <1>5 DEF Walks

\* Steps that concern no ticket and move no handler.
Rests ==
  \/ \E ch \in Channels : Publish(ch)
  \/ \E c \in Conns : Leave(c) \/ ReaderStops(c) \/ Reconnect(c)
  \/ UNCHANGED vars

\* They leave alone all that admission depends on.
LEMMA RestFacts ==
  ASSUME Rests
  PROVE  UNCHANGED <<keys, issued, redeemer, asked, payload, accepted, pc, frames>>
BY DEF Rests, Publish, Leave, ReaderStops, Reconnect, vars, redis, handler, history

\* All the steps there are.
LEMMA StreamSteps ==
  ASSUME [Next]_vars
  PROVE  \/ \E t \in Tickets : Expire(t) \/ (\E name \in Names : CreateTicket(t, name))
         \/ \E c \in Conns : \E request \in Requests : Connect(c, request)
         \/ \E c \in Conns : \E t \in Tickets : Redeem(c, t)
         \/ \E c \in Conns : RedeemError(c) \/ Accept(c) \/ Walks(c)
         \/ Rests
         \/ Crash
BY DEF Next, Progress, Failure, Walks, Rests

\* A ticket leaves Redis when it is redeemed and never comes back.
LEMMA TicketStep ==
  ASSUME TypeOK, TicketInv, [Next]_vars
  PROVE  TicketInv'
<1> USE DEF Goto, redis, handler, history
<1>1. ASSUME NEW t \in Tickets, Expire(t) PROVE TicketInv'
  BY <1>1 DEF Expire, TicketInv, TypeOK
<1>2. ASSUME NEW t \in Tickets, NEW name \in Names, CreateTicket(t, name) PROVE TicketInv'
  BY <1>2 DEF CreateTicket, TicketInv, TypeOK
<1>3. ASSUME NEW c \in Conns, NEW request \in Requests, Connect(c, request) PROVE TicketInv'
  BY <1>3 DEF Connect, TicketInv, TypeOK
<1>4. ASSUME NEW c \in Conns, NEW t \in Tickets, Redeem(c, t) PROVE TicketInv'
  BY <1>4, StreamAssumption DEF Redeem, TicketInv, TypeOK
<1>5. ASSUME NEW c \in Conns, RedeemError(c) PROVE TicketInv'
  BY <1>5 DEF RedeemError, CloseWith, BrokerFailed, TicketInv, TypeOK
<1>6. ASSUME NEW c \in Conns, Accept(c) PROVE TicketInv'
  BY <1>6 DEF Accept, TicketInv, TypeOK
<1>7. ASSUME NEW c \in Conns, Walks(c) PROVE TicketInv'
  <2>1. PICK to \in States \ {"new", "handshake"} : pc' = [pc EXCEPT ![c] = to]
    BY <1>7, WalkFacts DEF Late, Past
  <2>2. UNCHANGED <<keys, issued, redeemer, asked>>
    BY <1>7, WalkFacts
  <2> QED BY <2>1, <2>2 DEF TicketInv, TypeOK
<1>8. CASE Rests
  BY <1>8, RestFacts DEF TicketInv
<1>9. CASE Crash
  BY <1>9 DEF Crash, Running, TicketInv, TypeOK
<1> QED BY <1>1, <1>2, <1>3, <1>4, <1>5, <1>6, <1>7, <1>8, <1>9, StreamSteps

\* Matches depends on what was asked for and on the ticket's payload alone.
LEMMA MatchesStays ==
  ASSUME NEW c \in Conns, asked'[c] = asked[c], payload'[c] = payload[c]
  PROVE  Matches(c)' = Matches(c)
BY DEF Matches

\* A handler that does not move goes on knowing what it knew.
LEMMA AdmissionStays ==
  ASSUME TypeOK, TicketInv, NEW c \in Conns, AdmissionOf(c),
         pc'[c] = pc[c], asked'[c] = asked[c], payload'[c] = payload[c],
         c \in accepted' <=> c \in accepted,
         \A t \in Tickets : redeemer[t] # None =>
           redeemer'[t] = redeemer[t] /\ issued'[t] = issued[t]
  PROVE  AdmissionOf(c)'
BY MatchesStays, StreamAssumption DEF AdmissionOf, TypeOK

\* No step lets a connection in without its ticket.
LEMMA AdmissionStep ==
  ASSUME TypeOK, TicketInv, AdmissionInv, [Next]_vars
  PROVE  AdmissionInv'
<1> USE DEF Goto, redis, handler, history
<1>0. \A c \in Conns : AdmissionOf(c)
  BY DEF AdmissionInv
<1>1. ASSUME NEW t \in Tickets, Expire(t) \/ (\E name \in Names : CreateTicket(t, name))
      PROVE  AdmissionInv'
  <2>1. /\ UNCHANGED <<pc, asked, payload, accepted>>
        /\ \A u \in Tickets : redeemer[u] # None =>
             redeemer'[u] = redeemer[u] /\ issued'[u] = issued[u]
    BY <1>1 DEF Expire, CreateTicket, TicketInv, TypeOK
  <2> QED BY <1>0, <2>1, AdmissionStays DEF AdmissionInv
<1>2. ASSUME NEW c \in Conns, NEW request \in Requests, Connect(c, request) PROVE AdmissionInv'
  <2>1. \A d \in Conns \ {c} : AdmissionOf(d)'
    BY <1>0, <1>2, AdmissionStays DEF Connect, TypeOK
  <2>2. pc'[c] = "handshake" /\ c \notin accepted'
    BY <1>0, <1>2 DEF Connect, TypeOK, AdmissionOf, Late, Past
  <2>3. AdmissionOf(c)'
    BY <2>2 DEF AdmissionOf, Late, Past
  <2> QED BY <2>1, <2>3 DEF AdmissionInv
<1>3. ASSUME NEW c \in Conns, NEW t \in Tickets, Redeem(c, t) PROVE AdmissionInv'
  <2>1. redeemer[t] = None /\ keys[t] = issued[t]
    BY <1>3 DEF Redeem, TicketInv
  <2>2. \A d \in Conns \ {c} : AdmissionOf(d)'
    BY <1>0, <1>3, <2>1, AdmissionStays DEF Redeem, TypeOK
  <2>3. /\ pc'[c] = "redeemed" /\ c \notin accepted' /\ asked'[c] = asked[c]
        /\ asked[c].originAllowed /\ asked[c].ticket = t
        /\ redeemer'[t] = c /\ payload'[c] = issued[t] /\ issued' = issued
    BY <1>0, <1>3, <2>1 DEF Redeem, TypeOK, AdmissionOf, Late, Past
  <2>4. AdmissionOf(c)'
    BY <2>3 DEF AdmissionOf, Late, Past
  <2> QED BY <2>2, <2>4 DEF AdmissionInv
<1>4. ASSUME NEW c \in Conns, RedeemError(c) PROVE AdmissionInv'
  <2>1. /\ UNCHANGED <<asked, payload, accepted, issued, redeemer>>
        /\ pc' = [pc EXCEPT ![c] = "done"] /\ pc[c] = "handshake"
    BY <1>4 DEF RedeemError, CloseWith
  <2>2. \A d \in Conns \ {c} : AdmissionOf(d)'
    BY <1>0, <2>1, AdmissionStays DEF TypeOK
  <2>3. AdmissionOf(c)'
    BY <1>0, <2>1 DEF TypeOK, AdmissionOf, Late, Past
  <2> QED BY <2>2, <2>3 DEF AdmissionInv
<1>5. ASSUME NEW c \in Conns, Accept(c) PROVE AdmissionInv'
  <2>1. /\ UNCHANGED <<asked, payload, issued, redeemer>> /\ accepted' = accepted \cup {c}
        /\ pc' = [pc EXCEPT ![c] = "send"] /\ pc[c] = "accept"
    BY <1>5 DEF Accept
  <2>2. \A d \in Conns \ {c} : AdmissionOf(d)'
    BY <1>0, <2>1, AdmissionStays DEF TypeOK
  <2>3. AdmissionOf(c)'
    BY <1>0, <2>1, MatchesStays DEF TypeOK, AdmissionOf, Late, Past, States
  <2> QED BY <2>2, <2>3 DEF AdmissionInv
<1>6. ASSUME NEW c \in Conns, Walks(c) PROVE AdmissionInv'
  <2>1. UNCHANGED <<asked, payload, issued, redeemer, accepted>>
    BY <1>6, WalkFacts
  <2>2. PICK to \in States :
          /\ pc' = [pc EXCEPT ![c] = to]
          /\ \/ to = "done" /\ pc[c] # "new"
             \/ pc[c] = "redeemed" /\ to = "snapshot" /\ Matches(c)
             \/ pc[c] = "snapshot" /\ to = "accept"
             \/ pc[c] \in Late /\ to \in Late
    BY <1>6, WalkFacts
  <2>3. \A d \in Conns \ {c} : AdmissionOf(d)'
    BY <1>0, <2>1, <2>2, AdmissionStays DEF TypeOK
  <2>4. pc'[c] = to /\ (Matches(c)' = Matches(c))
    BY <2>1, <2>2, MatchesStays DEF TypeOK
  <2>5. AdmissionOf(c)'
    BY <1>0, <2>1, <2>2, <2>4 DEF AdmissionOf, Late, Past, States
  <2> QED BY <2>3, <2>5 DEF AdmissionInv
<1>7. CASE Rests
  BY <1>0, <1>7, RestFacts, AdmissionStays DEF AdmissionInv
<1>8. CASE Crash
  <2>1. ASSUME NEW c \in Conns PROVE AdmissionOf(c)'
    <3>1. /\ UNCHANGED <<asked, payload, issued, redeemer, accepted>>
          /\ \/ pc'[c] = pc[c] /\ pc[c] \in {"new", "done"}
             \/ pc'[c] = "done" /\ pc[c] # "new"
      BY <1>8 DEF Crash, Running, TypeOK
    <3>2. Matches(c)' = Matches(c)
      BY <3>1, MatchesStays
    <3> QED BY <1>0, <3>1, <3>2 DEF AdmissionOf, Late, Past, States
  <2> QED BY <2>1 DEF AdmissionInv
<1> QED BY <1>1, <1>2, <1>3, <1>4, <1>5, <1>6, <1>7, <1>8, StreamSteps

----------------------------------------------------------------------------
(* What a handler holds. *)

\* A handler gives back what it took before it goes on, however it is interrupted.
LEMMA HoldsStep ==
  ASSUME TypeOK, HoldsInv, [Next]_vars
  PROVE  HoldsInv'
<1> USE DEF Goto, redis, handler, history
<1>1. SUFFICES ASSUME NEW d \in Conns PROVE HoldsOf(d)'
  BY DEF HoldsInv
<1>2. HoldsOf(d)
  BY DEF HoldsInv
<1>3. ASSUME NEW t \in Tickets, Expire(t) \/ (\E name \in Names : CreateTicket(t, name))
      PROVE  HoldsOf(d)'
  BY <1>2, <1>3 DEF Expire, CreateTicket, HoldsOf
<1>4. CASE Rests
  BY <1>2, <1>4 DEF Rests, Publish, Leave, ReaderStops, Reconnect, BrokerFailed, vars, HoldsOf, TypeOK
<1>5. ASSUME NEW c \in Conns,
             \/ \E request \in Requests : Connect(c, request)
             \/ \E t \in Tickets : Redeem(c, t)
             \/ RedeemError(c) \/ Accept(c) \/ RejectRequest(c) \/ RejectTicket(c)
             \/ RejectMismatch(c) \/ SubscribeRefused(c) \/ SendSnapshot(c) \/ GreetError(c)
      PROVE  HoldsOf(d)'
  <2>1. /\ UNCHANGED <<sessions, reader, subs, pubsubs>> /\ broken \subseteq broken'
        /\ \/ pc'[d] = pc[d]
           \/ /\ pc[d] \in {"new", "handshake", "redeemed", "accept", "send", "subscribe"}
              /\ pc'[d] \notin Streaming
    BY <1>5 DEF Connect, Redeem, RedeemError, Accept, RejectRequest, RejectTicket, RejectMismatch,
                SubscribeRefused, SendSnapshot, GreetError, CloseWith, BrokerFailed, TypeOK,
                Streaming
  <2> QED BY <1>2, <2>1 DEF HoldsOf, Streaming
<1>6. ASSUME NEW c \in Conns, OpenSession(c) \/ Snapshot(c) \/ SnapshotError(c) PROVE HoldsOf(d)'
  BY <1>2, <1>6 DEF OpenSession, Snapshot, SnapshotError, CloseWith, HoldsOf, Streaming, TypeOK
<1>7. ASSUME NEW c \in Conns, Subscribe(c) \/ SubscribeError(c) PROVE HoldsOf(d)'
  BY <1>2, <1>7 DEF Subscribe, SubscribeError, CloseWith, BrokerFailed, HoldsOf, Streaming, TypeOK
<1>8. ASSUME NEW c \in Conns, Loop(c) \/ GetMessage(c) \/ GetNothing(c) \/ Forward(c)
                              \/ ForwardError(c) \/ GetError(c)
      PROVE  HoldsOf(d)'
  <2>1. /\ UNCHANGED <<sessions, reader, pubsubs>> /\ subs' \subseteq subs /\ broken \subseteq broken'
        /\ \/ pc'[d] = pc[d]
           \/ pc[d] \in Streaming /\ pc'[d] \in Streaming \cup {"cleanup"}
    BY <1>8 DEF Loop, GetMessage, GetNothing, Forward, ForwardError, GetError, CloseWith,
                Unsubscribed, BrokerFailed, Streaming, TypeOK
  <2> QED BY <1>2, <2>1 DEF HoldsOf, Streaming
<1>9. ASSUME NEW c \in Conns, CancelReader(c) \/ Unsubscribe(c) \/ Aclose(c) \/ CleanupError(c)
      PROVE  HoldsOf(d)'
  BY <1>2, <1>9 DEF CancelReader, Unsubscribe, Aclose, CleanupError, Unsubscribed, BrokerFailed,
                    HoldsOf, Streaming, TypeOK
<1>10. CASE Crash
  BY <1>2, <1>10 DEF Crash, Running, HoldsOf, Streaming, TypeOK
<1> QED BY <1>3, <1>4, <1>5, <1>6, <1>7, <1>8, <1>9, <1>10, StreamSteps DEF Walks

----------------------------------------------------------------------------
(* Scope and order of what a client is sent. *)

\* All that ScopeOf and OrderOf say of a connection is about these.
Stays(d) ==
  /\ pc'[d] = pc[d] /\ asked'[d] = asked[d] /\ frames'[d] = frames[d]
  /\ message'[d] = message[d] /\ inbox'[d] = inbox[d] /\ start'[d] = start[d]
  /\ d \in subs' <=> d \in subs
  /\ d \in accepted' <=> d \in accepted
  /\ d \in broken' <=> d \in broken
  /\ published' = published

\* The steps of one connection.
Moves(c) ==
  \/ \E request \in Requests : Connect(c, request)
  \/ \E t \in Tickets : Redeem(c, t)
  \/ Leave(c) \/ ReaderStops(c) \/ Reconnect(c) \/ RedeemError(c) \/ Accept(c) \/ Walks(c)

\* A step of one connection leaves the others as they are.
LEMMA OthersStay ==
  ASSUME TypeOK, NEW c \in Conns, NEW d \in Conns, d # c, Moves(c)
  PROVE  Stays(d)
<1> USE DEF Goto, redis, handler, history, Stays, TypeOK
<1>1. CASE (\E request \in Requests : Connect(c, request)) \/ (\E t \in Tickets : Redeem(c, t))
           \/ Leave(c) \/ ReaderStops(c) \/ Accept(c)
  BY <1>1 DEF Connect, Redeem, Leave, ReaderStops, Accept
<1>2. CASE RejectRequest(c) \/ RejectTicket(c) \/ RejectMismatch(c) \/ SubscribeRefused(c)
           \/ SnapshotError(c) \/ ForwardError(c)
  BY <1>2 DEF RejectRequest, RejectTicket, RejectMismatch, SubscribeRefused, SnapshotError,
              ForwardError, CloseWith
<1>3. CASE OpenSession(c) \/ Snapshot(c) \/ SendSnapshot(c) \/ GreetError(c) \/ Subscribe(c)
  BY <1>3 DEF OpenSession, Snapshot, SendSnapshot, GreetError, Subscribe
<1>4. CASE SubscribeError(c) \/ GetError(c) \/ CleanupError(c) \/ Reconnect(c) \/ RedeemError(c)
  BY <1>4 DEF SubscribeError, GetError, CleanupError, Reconnect, RedeemError, CloseWith,
              BrokerFailed, Unsubscribed
<1>5. CASE Loop(c) \/ GetMessage(c) \/ GetNothing(c) \/ Forward(c)
  BY <1>5 DEF Loop, GetMessage, GetNothing, Forward
<1>6. CASE CancelReader(c) \/ Unsubscribe(c) \/ Aclose(c)
  BY <1>6 DEF CancelReader, Unsubscribe, Aclose, Unsubscribed
<1> QED BY <1>1, <1>2, <1>3, <1>4, <1>5, <1>6 DEF Moves, Walks

\* What is not concerned by a step stays true of a connection.
LEMMA StaysKept ==
  ASSUME TypeOK, NEW d \in Conns, Stays(d)
  PROVE  (ScopeOf(d) => ScopeOf(d)') /\ (OrderOf(d) => OrderOf(d)')
<1>1. Channel(d)' = Channel(d) /\ SnapshotScope(d)' = SnapshotScope(d)
  BY DEF Stays, Channel, SnapshotScope
<1>2. ScopeOf(d) => ScopeOf(d)'
  BY <1>1 DEF ScopeOf, Stays
<1>3. SentNumber(d)' = SentNumber(d) /\ Taken(d)' = Taken(d) /\ Count(d)' = Count(d)
  BY DEF Stays, SentNumber, Taken, Count
<1>4. OrderOf(d) => OrderOf(d)'
  BY <1>1, <1>3 DEF OrderOf, Stays
<1> QED BY <1>2, <1>4

\* The awaits at which a handler may be subscribed.
Open == (Late \ {"send", "subscribe"}) \cup {"done"}

\* A connection that is sent nothing and whose inbox is kept or dropped.
LEMMA ScopeKept ==
  ASSUME NEW c \in Conns, ScopeOf(c), asked'[c] = asked[c], frames'[c] = frames[c],
         message'[c] = message[c], inbox'[c] \in {inbox[c], <<>>},
         c \in subs' => c \in subs \/ pc'[c] \in Open,
         c \in accepted => c \in accepted',
         pc'[c] = "forward" => pc[c] = "forward",
         pc[c] \in Late \cup {"done"} => pc'[c] \in Late \cup {"done"},
         pc[c] \in Open => pc'[c] \in Open
  PROVE  ScopeOf(c)'
<1>1. Channel(c)' = Channel(c) /\ SnapshotScope(c)' = SnapshotScope(c)
  BY DEF Channel, SnapshotScope
<1>2. \A i \in DOMAIN inbox'[c] : inbox'[c][i][1] = Channel(c)
  <2>1. \A i \in DOMAIN <<>> : FALSE
    OBVIOUS
  <2> QED BY <2>1 DEF ScopeOf
<1> QED BY <1>1, <1>2 DEF ScopeOf, Open, Late

\* The connection that moves is only sent and pushed what is of its own channel.
LEMMA MoverScope ==
  ASSUME TypeOK, AdmissionInv, NEW c \in Conns, ScopeOf(c), Moves(c)
  PROVE  ScopeOf(c)'
<1> USE DEF Goto, redis, handler, history
<1>0. /\ AdmissionOf(c) /\ inbox[c] \in Seq(Event) /\ frames[c] \in Seq(Frame)
      /\ pc[c] \in States
  BY DEF AdmissionInv, TypeOK
<1>1. ASSUME NEW request \in Requests, Connect(c, request) PROVE ScopeOf(c)'
  <2>1. /\ pc[c] = "new" /\ pc'[c] = "handshake" /\ c \notin subs' /\ frames'[c] = <<>>
        /\ inbox'[c] = <<>>
    BY <1>1 DEF Connect, TypeOK, ScopeOf, Late, Past
  <2>2. DOMAIN <<>> = {}
    OBVIOUS
  <2> QED BY <2>1, <2>2 DEF ScopeOf, Late, Past
<1>2. CASE (\E t \in Tickets : Redeem(c, t)) \/ Leave(c) \/ ReaderStops(c) \/ RedeemError(c)
           \/ Accept(c) \/ RejectRequest(c) \/ RejectTicket(c) \/ RejectMismatch(c)
  <2>1. /\ UNCHANGED <<asked, frames, message, inbox, subs>> /\ accepted \subseteq accepted'
        /\ \/ pc' = pc
           \/ \E to \in {"redeemed", "send", "done"} :
                pc' = [pc EXCEPT ![c] = to] /\ pc[c] \in {"handshake", "redeemed", "accept"}
    BY <1>2 DEF Redeem, Leave, ReaderStops, RedeemError, Accept, RejectRequest, RejectTicket,
                RejectMismatch, CloseWith
  <2> QED BY <1>0, <2>1, ScopeKept DEF TypeOK, Open, Late, Past
<1>3. CASE SubscribeRefused(c) \/ SnapshotError(c) \/ ForwardError(c) \/ OpenSession(c)
           \/ Snapshot(c) \/ GreetError(c) \/ Loop(c) \/ GetNothing(c) \/ CancelReader(c)
           \/ Aclose(c)
  <2>1. UNCHANGED <<asked, frames, message, inbox, subs, accepted>>
    BY <1>3 DEF SubscribeRefused, SnapshotError, ForwardError, OpenSession, Snapshot, GreetError,
                Loop, GetNothing, CancelReader, Aclose, CloseWith
  <2>2. \/ pc[c] \in {"redeemed", "snapshot"} /\ pc'[c] \in {"snapshot", "accept", "done"}
        \/ pc'[c] = "done"
        \/ pc[c] \in Open /\ pc'[c] \in {"loop", "get", "cleanup", "unsubscribe"}
    BY <1>3 DEF SubscribeRefused, SnapshotError, ForwardError, OpenSession, Snapshot, GreetError,
                Loop, GetNothing, CancelReader, Aclose, CloseWith, TypeOK, States, Open, Late, Past
  <2> QED BY <1>0, <2>1, <2>2, ScopeKept DEF Open, Late, Past, States
<1>4. CASE SubscribeError(c) \/ GetError(c) \/ CleanupError(c) \/ Reconnect(c) \/ Unsubscribe(c)
           \/ Subscribe(c)
  <2>1. /\ UNCHANGED <<asked, frames, message, accepted>> /\ inbox'[c] \in {inbox[c], <<>>}
        /\ c \in subs' => c \in subs \/ pc'[c] \in Open
        /\ pc'[c] = pc[c] \/ pc'[c] # "forward"
        /\ pc[c] \in Late /\ pc'[c] \in Late \cup {"done"}
        /\ pc[c] \in Open => pc'[c] \in Open
    BY <1>4 DEF SubscribeError, GetError, CleanupError, Reconnect, Unsubscribe, Subscribe,
                CloseWith, BrokerFailed, Unsubscribed, TypeOK, Open, Late, Past, States
  <2> QED BY <2>1, ScopeKept
<1>5. CASE SendSnapshot(c)
  <2>1. /\ UNCHANGED <<asked, message, inbox, subs, accepted>>
        /\ pc[c] = "send" /\ pc'[c] = "subscribe" /\ frames'[c] = <<<<SnapshotScope(c), 0>>>>
    BY <1>5 DEF SendSnapshot, SnapshotScope, TypeOK
  <2>2. Channel(c)' = Channel(c) /\ SnapshotScope(c)' = SnapshotScope(c)
    BY <2>1 DEF Channel, SnapshotScope
  <2>3. c \in accepted /\ inbox[c] = <<>> /\ c \notin subs
    BY <1>0, <2>1 DEF AdmissionOf, ScopeOf, Late, Past, States
  <2>4. \A i \in DOMAIN frames'[c] : frames'[c][i] = <<SnapshotScope(c), 0>>
    BY <2>1
  <2>5. DOMAIN <<>> = {}
    OBVIOUS
  <2> QED BY <2>1, <2>2, <2>3, <2>4, <2>5 DEF ScopeOf, Late, Past, States
<1>6. CASE GetMessage(c)
  <2>1. /\ UNCHANGED <<asked, frames, subs, accepted>> /\ pc[c] = "get" /\ pc'[c] = "forward"
        /\ inbox[c] # <<>> /\ message'[c] = Head(inbox[c]) /\ inbox'[c] = Tail(inbox[c])
    BY <1>6 DEF GetMessage, TypeOK
  <2>2. Channel(c)' = Channel(c) /\ SnapshotScope(c)' = SnapshotScope(c)
    BY <2>1 DEF Channel, SnapshotScope
  <2>3. /\ 1 \in DOMAIN inbox[c] /\ Head(inbox[c]) = inbox[c][1] /\ inbox[c][1] \in Event
        /\ \A i \in DOMAIN Tail(inbox[c]) :
             i + 1 \in DOMAIN inbox[c] /\ Tail(inbox[c])[i] = inbox[c][i + 1]
    BY <1>0, <2>1
  <2> QED BY <2>1, <2>2, <2>3 DEF ScopeOf, Late, Past, States
<1>7. CASE Forward(c)
  <2>1. /\ UNCHANGED <<asked, subs, inbox, accepted>> /\ pc[c] = "forward" /\ pc'[c] = "loop"
        /\ frames'[c] = Append(frames[c], message[c])
    BY <1>7 DEF Forward, TypeOK
  <2>2. Channel(c)' = Channel(c) /\ SnapshotScope(c)' = SnapshotScope(c)
    BY <2>1 DEF Channel, SnapshotScope
  <2>3. c \in accepted /\ message[c][1] = Channel(c)
    BY <1>0, <2>1 DEF AdmissionOf, ScopeOf, Late, Past, States
  <2>4. \A i \in DOMAIN frames'[c] :
          (i \in DOMAIN frames[c] /\ frames'[c][i] = frames[c][i]) \/ frames'[c][i] = message[c]
    BY <1>0, <2>1
  <2>5. \A i \in DOMAIN frames'[c] :
          frames'[c][i] = <<SnapshotScope(c), 0>> \/ frames'[c][i][1] = Channel(c)
    BY <2>3, <2>4 DEF ScopeOf
  <2> QED BY <2>1, <2>2, <2>3, <2>5 DEF ScopeOf, Late, Past, States
<1> QED BY <1>1, <1>2, <1>3, <1>4, <1>5, <1>6, <1>7 DEF Moves, Walks

\* Steps that concern no connection.
LEMMA TicketSteps ==
  ASSUME NEW t \in Tickets, Expire(t) \/ (\E name \in Names : CreateTicket(t, name)),
         NEW d \in Conns
  PROVE  Stays(d)
BY DEF Expire, CreateTicket, Stays, handler, history

\* A publication appends one event to the inbox of the channel's subscribers.
LEMMA PublishFacts ==
  ASSUME TypeOK, NEW ch \in Channels, Publish(ch), NEW d \in Conns
  PROVE  /\ UNCHANGED <<pc, asked, frames, message, start, subs, accepted, broken>>
         /\ IF d \in subs /\ Channel(d) = ch
            THEN /\ inbox'[d] = Append(inbox[d], <<ch, published[ch] + 1>>)
                 /\ published'[Channel(d)] = published[Channel(d)] + 1
            ELSE inbox'[d] = inbox[d]
         /\ Channel(d) # ch => published'[Channel(d)] = published[Channel(d)]
BY ChannelType DEF Publish, handler, history, TypeOK

\* A crash ends every handler that runs.
LEMMA CrashFacts ==
  ASSUME TypeOK, Crash, NEW d \in Conns
  PROVE  /\ UNCHANGED <<asked, frames, message, start, published, accepted, broken>>
         /\ inbox'[d] = <<>> /\ d \notin subs'
         /\ \/ pc[d] = "new" /\ pc'[d] = "new"
            \/ pc[d] # "new" /\ pc'[d] = "done"
BY DEF Crash, Running, TypeOK, handler, history

\* All the steps there are, by what they concern.
LEMMA StepsByConn ==
  ASSUME [Next]_vars
  PROVE  \/ \E t \in Tickets : Expire(t) \/ (\E name \in Names : CreateTicket(t, name))
         \/ \E ch \in Channels : Publish(ch)
         \/ \E c \in Conns : Moves(c)
         \/ Crash
         \/ UNCHANGED vars
BY DEF Next, Progress, Failure, Moves, Walks

\* ScopeInv is kept by every step.
LEMMA ScopeStep ==
  ASSUME TypeOK, AdmissionInv, ScopeInv, [Next]_vars
  PROVE  ScopeInv'
<1>1. SUFFICES ASSUME NEW d \in Conns PROVE ScopeOf(d)'
  BY DEF ScopeInv
<1>2. ScopeOf(d) /\ inbox[d] \in Seq(Event)
  BY DEF ScopeInv, TypeOK
<1>3. ASSUME NEW t \in Tickets, Expire(t) \/ (\E name \in Names : CreateTicket(t, name))
      PROVE  ScopeOf(d)'
  BY <1>2, <1>3, TicketSteps, StaysKept
<1>4. ASSUME NEW ch \in Channels, Publish(ch) PROVE ScopeOf(d)'
  <2>1. UNCHANGED <<pc, asked, frames, message, subs, accepted>>
    BY <1>4, PublishFacts
  <2>2. Channel(d)' = Channel(d) /\ SnapshotScope(d)' = SnapshotScope(d)
    BY <2>1 DEF Channel, SnapshotScope
  <2>3. CASE d \in subs /\ Channel(d) = ch
    <3> DEFINE e == <<ch, published[ch] + 1>>
    <3>1. inbox'[d] = Append(inbox[d], e) /\ e[1] = ch
      BY <1>4, <2>3, PublishFacts
    <3> HIDE DEF e
    <3>2. \A i \in DOMAIN inbox'[d] :
            (i \in DOMAIN inbox[d] /\ inbox'[d][i] = inbox[d][i]) \/ inbox'[d][i] = e
      BY <1>2, <3>1
    <3>3. \A i \in DOMAIN inbox'[d] : inbox'[d][i][1] = Channel(d)
      BY <1>2, <2>3, <3>1, <3>2 DEF ScopeOf
    <3> QED BY <1>2, <2>1, <2>2, <2>3, <3>3 DEF ScopeOf
  <2>4. CASE ~(d \in subs /\ Channel(d) = ch)
    <3>1. inbox'[d] = inbox[d]
      BY <1>4, <2>4, PublishFacts
    <3> QED BY <1>2, <2>1, <2>2, <3>1 DEF ScopeOf
  <2> QED BY <2>3, <2>4
<1>5. ASSUME NEW c \in Conns, Moves(c) PROVE ScopeOf(d)'
  <2>1. CASE d = c
    BY <1>2, <1>5, <2>1, MoverScope
  <2>2. CASE d # c
    BY <1>2, <1>5, <2>2, OthersStay, StaysKept
  <2> QED BY <2>1, <2>2
<1>6. CASE Crash
  BY <1>2, <1>6, CrashFacts, ScopeKept DEF Open, Late, Past
<1>7. CASE UNCHANGED vars
  <2>1. Stays(d)
    BY <1>7 DEF vars, redis, handler, history, Stays
  <2> QED BY <1>2, <2>1, StaysKept
<1> QED BY <1>3, <1>4, <1>5, <1>6, <1>7, StepsByConn

\* A handler that is not streaming has only the frames that were sent to look back on.
LEMMA OrderKept ==
  ASSUME NEW c \in Conns, OrderOf(c), frames'[c] = frames[c], start'[c] = start[c],
         broken \subseteq broken',
         pc'[c] \notin Streaming \cup {"send", "subscribe"}
  PROVE  OrderOf(c)'
BY DEF OrderOf

\* The connection that moves is sent the events one by one.
LEMMA MoverOrder ==
  ASSUME TypeOK, ScopeInv, NEW c \in Conns, OrderOf(c), Moves(c)
  PROVE  OrderOf(c)'
<1> USE DEF Goto, redis, handler, history
<1>0. /\ ScopeOf(c) /\ inbox[c] \in Seq(Event) /\ frames[c] \in Seq(Frame)
      /\ pc[c] \in States /\ start[c] \in Nat /\ published[Channel(c)] \in Nat
      /\ Channel(c) \in Channels
  BY ChannelType DEF ScopeInv, TypeOK
<1>1. CASE (\E request \in Requests : Connect(c, request)) \/ (\E t \in Tickets : Redeem(c, t))
           \/ RedeemError(c) \/ RejectRequest(c) \/ RejectTicket(c) \/ RejectMismatch(c)
           \/ SubscribeRefused(c) \/ SnapshotError(c) \/ ForwardError(c) \/ OpenSession(c)
           \/ Snapshot(c) \/ GreetError(c)
  <2>1. UNCHANGED <<frames, start>> /\ broken \subseteq broken'
    BY <1>1 DEF Connect, Redeem, RedeemError, RejectRequest, RejectTicket, RejectMismatch,
                SubscribeRefused, SnapshotError, ForwardError, OpenSession, Snapshot, GreetError,
                BrokerFailed
  <2>2. pc'[c] \in {"handshake", "redeemed", "done", "cleanup", "snapshot", "accept"}
    BY <1>1 DEF Connect, Redeem, RedeemError, RejectRequest, RejectTicket, RejectMismatch,
                SubscribeRefused, SnapshotError, ForwardError, OpenSession, Snapshot, GreetError,
                CloseWith, TypeOK
  <2> QED BY <2>1, <2>2, OrderKept DEF Streaming
<1>2. CASE SubscribeError(c) \/ GetError(c) \/ CleanupError(c) \/ CancelReader(c)
           \/ Unsubscribe(c) \/ Aclose(c)
  <2>1. UNCHANGED <<frames, start>> /\ broken \subseteq broken'
    BY <1>2 DEF SubscribeError, GetError, CleanupError, CancelReader, Unsubscribe, Aclose,
                BrokerFailed
  <2>2. pc'[c] \in {"done", "cleanup", "unsubscribe", "aclose"}
    BY <1>2 DEF SubscribeError, GetError, CleanupError, CancelReader, Unsubscribe, Aclose,
                CloseWith, TypeOK
  <2> QED BY <2>1, <2>2, OrderKept DEF Streaming
<1>3. CASE Leave(c) \/ ReaderStops(c)
  <2>1. Stays(c)
    BY <1>3 DEF Leave, ReaderStops, Stays
  <2> QED BY <2>1, StaysKept
<1>4. CASE Accept(c)
  <2>1. pc[c] = "accept" /\ pc'[c] = "send" /\ UNCHANGED <<frames, start, broken>>
    BY <1>4 DEF Accept, TypeOK
  <2>2. frames[c] = <<>>
    BY <1>0, <2>1 DEF ScopeOf, Late, Past
  <2> QED BY <2>1, <2>2 DEF OrderOf, Streaming
<1>5. CASE SendSnapshot(c)
  <2>1. /\ pc'[c] = "subscribe" /\ UNCHANGED <<start, broken>>
        /\ frames'[c] = <<<<SnapshotScope(c), 0>>>>
    BY <1>5 DEF SendSnapshot, SnapshotScope, TypeOK
  <2>2. /\ Len(frames'[c]) = 1
        /\ \A i \in DOMAIN frames'[c] : i = 1 /\ frames'[c][i][2] = 0
    BY <2>1
  <2> QED BY <2>1, <2>2 DEF OrderOf, Streaming
<1>6. CASE Subscribe(c)
  <2>1. /\ pc[c] = "subscribe" /\ pc'[c] = "loop" /\ c \in subs'
        /\ UNCHANGED <<frames, asked, inbox, published, broken>>
        /\ start'[c] = published[Channel(c)]
    BY <1>6 DEF Subscribe, TypeOK
  <2>2. Len(frames[c]) = 1 /\ DOMAIN frames[c] = {1} /\ frames[c][1][2] = 0 /\ inbox[c] = <<>>
    BY <1>0, <2>1 DEF OrderOf, ScopeOf, Late, Past, States
  <2>3. Channel(c)' = Channel(c)
    BY <2>1 DEF Channel
  <2>4. SentNumber(c)' = 0 /\ Taken(c)' = 0 /\ Count(c)' = 0
    BY <2>1, <2>2 DEF SentNumber, Taken, Count
  <2>5. DOMAIN inbox'[c] = {} /\ Len(inbox'[c]) = 0 /\ frames'[c] # <<>>
    BY <2>1, <2>2
  <2> QED BY <1>0, <2>1, <2>2, <2>3, <2>4, <2>5 DEF OrderOf, Streaming
<1>7. CASE Loop(c) \/ GetNothing(c)
  <2>1. CASE pc'[c] = "cleanup"
    BY <1>7, <2>1, OrderKept DEF Loop, GetNothing, Streaming
  <2>2. CASE pc'[c] # "cleanup"
    <3>1. /\ pc[c] \in {"loop", "get"} /\ pc'[c] \in {"loop", "get"}
          /\ UNCHANGED <<frames, asked, inbox, published, broken, start, message, subs>>
      BY <1>7, <2>2 DEF Loop, GetNothing, TypeOK
    <3>2. /\ Channel(c)' = Channel(c) /\ SentNumber(c)' = SentNumber(c)
          /\ Taken(c)' = Taken(c) /\ Count(c)' = Count(c)
      BY <3>1 DEF Channel, SentNumber, Taken, Count
    <3> QED BY <3>1, <3>2 DEF OrderOf, Streaming
  <2> QED BY <2>1, <2>2
<1>8. CASE GetMessage(c)
  <2>1. /\ pc[c] = "get" /\ pc'[c] = "forward" /\ inbox[c] # <<>>
        /\ message'[c] = Head(inbox[c]) /\ inbox'[c] = Tail(inbox[c])
        /\ UNCHANGED <<frames, asked, published, broken, start, subs>>
    BY <1>8 DEF GetMessage, TypeOK
  <2>2. /\ 1 \in DOMAIN inbox[c] /\ Head(inbox[c]) = inbox[c][1]
        /\ Len(Tail(inbox[c])) = Len(inbox[c]) - 1
        /\ \A i \in DOMAIN Tail(inbox[c]) :
             /\ i \in Nat \ {0} /\ i + 1 \in DOMAIN inbox[c]
             /\ Tail(inbox[c])[i] = inbox[c][i + 1]
        /\ Len(inbox[c]) \in Nat /\ Len(frames[c]) \in Nat
        /\ \A i \in DOMAIN inbox[c] : inbox[c][i][2] \in Nat
    <3>1. \A i \in DOMAIN inbox[c] : inbox[c][i] \in Event
      BY <1>0
    <3>2. \A e \in Event : e[2] \in Nat
      BY StreamAssumption DEF Event
    <3> QED BY <1>0, <2>1, <3>1, <3>2
  <2>3. /\ Channel(c)' = Channel(c) /\ SentNumber(c)' = SentNumber(c)
        /\ Taken(c)' = inbox[c][1][2] /\ Taken(c) = SentNumber(c)
        /\ Count(c)' = Count(c) + 1 /\ Count(c) \in Nat
    BY <1>0, <2>1, <2>2 DEF Channel, SentNumber, Taken, Count, OrderOf, Streaming
  <2> DEFINE q == inbox[c]
             r == Tail(inbox[c])
             p == published[Channel(c)]
  <2>4. /\ c \in subs /\ frames[c] # <<>>
        /\ \A i \in DOMAIN q :
             /\ SentNumber(c) < q[i][2] /\ q[i][2] <= p
             /\ \A j \in DOMAIN q : i < j => q[i][2] < q[j][2]
             /\ c \notin broken => q[i][2] = start[c] + Count(c) + i
        /\ c \notin broken => p = start[c] + Count(c) + Len(q)
    BY <2>1, <2>3 DEF OrderOf, Streaming
  <2>5. \A i \in DOMAIN r :
          /\ q[1][2] < r[i][2] /\ r[i][2] <= p
          /\ \A j \in DOMAIN r : i < j => r[i][2] < r[j][2]
          /\ c \notin broken => r[i][2] = start[c] + (Count(c) + 1) + i
    <3>1. ASSUME NEW i \in DOMAIN r
          PROVE  /\ i + 1 \in DOMAIN q /\ r[i] = q[i + 1] /\ i \in Nat \ {0}
      BY <2>2
    <3>2. ASSUME NEW i \in DOMAIN r, NEW j \in DOMAIN r, i < j PROVE r[i][2] < r[j][2]
      <4>1. i + 1 < j + 1
        BY <3>1, <3>2
      <4> QED BY <2>4, <3>1, <3>2, <4>1
    <3>3. ASSUME NEW i \in DOMAIN r, c \notin broken
          PROVE  r[i][2] = start[c] + (Count(c) + 1) + i
      <4>1. q[i + 1][2] = start[c] + Count(c) + (i + 1)
        BY <2>4, <3>1, <3>3
      <4>2. \A a, b, k \in Nat : a + b + (k + 1) = a + (b + 1) + k
        OBVIOUS
      <4>3. start[c] + Count(c) + (i + 1) = start[c] + (Count(c) + 1) + i
        <5>1. start[c] \in Nat /\ Count(c) \in Nat /\ i \in Nat
          BY <1>0, <2>3, <3>1
        <5> QED BY <4>2, <5>1
      <4> QED BY <3>1, <4>1, <4>3
    <3>4. ASSUME NEW i \in DOMAIN r PROVE q[1][2] < r[i][2] /\ r[i][2] <= p
      BY <2>2, <2>4, <3>1
    <3> QED BY <3>2, <3>3, <3>4
  <2>6. /\ SentNumber(c) < q[1][2] /\ q[1][2] <= p
        /\ c \notin broken => /\ q[1][2] = start[c] + (Count(c) + 1)
                              /\ p = start[c] + (Count(c) + 1) + Len(r)
    <3>1. start[c] \in Nat /\ Count(c) \in Nat /\ Len(q) \in Nat /\ Len(r) = Len(q) - 1
          /\ 1 \in DOMAIN q
      BY <1>0, <2>2, <2>3
    <3> HIDE DEF q, r, p
    <3>2. c \notin broken => q[1][2] = start[c] + Count(c) + 1 /\ p = start[c] + Count(c) + Len(q)
      BY <2>4, <3>1
    <3>3. \A a, b, n \in Nat : a + b + 1 = a + (b + 1) /\ a + b + n = a + (b + 1) + (n - 1)
      OBVIOUS
    <3>4. /\ start[c] + Count(c) + 1 = start[c] + (Count(c) + 1)
          /\ start[c] + Count(c) + Len(q) = start[c] + (Count(c) + 1) + Len(r)
      BY <3>1, <3>3
    <3> QED BY <2>4, <3>1, <3>2, <3>4
  <2> QED BY <2>1, <2>2, <2>3, <2>4, <2>5, <2>6 DEF OrderOf, Streaming
<1>9. CASE Forward(c)
  <2>1. /\ pc[c] = "forward" /\ pc'[c] = "loop" /\ frames'[c] = Append(frames[c], message[c])
        /\ UNCHANGED <<inbox, asked, published, broken, start, subs>>
    BY <1>9 DEF Forward, TypeOK
  <2>2. message[c][2] \in Nat
    BY <1>0, <2>1, StreamAssumption DEF ScopeOf, Event
  <2>3. /\ Len(frames[c]) \in Nat \ {0} /\ Len(frames'[c]) = Len(frames[c]) + 1
        /\ frames'[c][Len(frames'[c])] = message[c] /\ frames'[c] # <<>>
        /\ \A i \in DOMAIN frames'[c] :
             /\ i \in Nat \ {0}
             /\ i > 1 => i - 1 \in DOMAIN frames[c] /\ frames'[c][i - 1] = frames[c][i - 1]
             /\ \/ i \in DOMAIN frames[c] /\ frames'[c][i] = frames[c][i]
                \/ i = Len(frames[c]) + 1 /\ frames'[c][i] = message[c]
    BY <1>0, <2>1 DEF OrderOf, Streaming
  <2>4. /\ Channel(c)' = Channel(c) /\ SentNumber(c)' = message[c][2]
        /\ Taken(c)' = message[c][2] /\ Taken(c) = message[c][2]
        /\ Count(c)' = Count(c) /\ Count(c) = Len(frames[c])
    BY <2>1, <2>3 DEF Channel, SentNumber, Taken, Count
  <2>5. ASSUME NEW i \in DOMAIN frames'[c]
        PROVE  /\ i = 1 => frames'[c][i][2] = 0
               /\ i > 1 => /\ frames'[c][i - 1][2] < frames'[c][i][2]
                           /\ c \notin broken => frames'[c][i][2] = start[c] + i - 1
    <3>1. CASE i \in DOMAIN frames[c] /\ frames'[c][i] = frames[c][i]
      BY <2>3, <3>1 DEF OrderOf
    <3>2. CASE i = Len(frames[c]) + 1 /\ frames'[c][i] = message[c]
      <4>1. SentNumber(c) < message[c][2] /\ (c \notin broken => message[c][2] = start[c] + Count(c))
        BY <2>1 DEF OrderOf, Streaming
      <4>2. i > 1 /\ i - 1 = Len(frames[c]) /\ frames'[c][i - 1] = frames[c][Len(frames[c])]
        BY <2>3, <3>2
      <4>3. start[c] + Count(c) = start[c] + i - 1
        BY <1>0, <2>3, <2>4, <3>2
      <4> QED BY <3>2, <4>1, <4>2, <4>3 DEF SentNumber
    <3> QED BY <2>3, <3>1, <3>2
  <2> QED BY <2>1, <2>3, <2>4, <2>5 DEF OrderOf, Streaming
<1>10. CASE Reconnect(c)
  <2>1. /\ pc[c] = "get" /\ inbox'[c] = <<>> /\ c \in broken'
        /\ UNCHANGED <<pc, frames, asked, published, start, subs, message>>
    BY <1>10 DEF Reconnect, BrokerFailed, TypeOK
  <2>2. /\ Channel(c)' = Channel(c) /\ SentNumber(c)' = SentNumber(c)
        /\ Taken(c)' = Taken(c) /\ Count(c)' = Count(c)
    BY <2>1 DEF Channel, SentNumber, Taken, Count
  <2>3. DOMAIN <<>> = {}
    OBVIOUS
  <2> QED BY <2>1, <2>2, <2>3 DEF OrderOf, Streaming
<1> QED BY <1>1, <1>2, <1>3, <1>4, <1>5, <1>6, <1>7, <1>8, <1>9, <1>10 DEF Moves, Walks

\* A publication goes to the end of the inbox and carries the next number.
LEMMA PublishOrder ==
  ASSUME TypeOK, NEW ch \in Channels, Publish(ch), NEW d \in Conns, OrderOf(d)
  PROVE  OrderOf(d)'
<1>0. /\ inbox[d] \in Seq(Event) /\ frames[d] \in Seq(Frame) /\ start[d] \in Nat
      /\ published[Channel(d)] \in Nat
  BY ChannelType DEF TypeOK
<1>1. UNCHANGED <<pc, asked, frames, message, start, subs, broken>>
  BY PublishFacts
<1>2. /\ Channel(d)' = Channel(d) /\ SentNumber(d)' = SentNumber(d)
      /\ Taken(d)' = Taken(d) /\ Count(d)' = Count(d)
  BY <1>1 DEF Channel, SentNumber, Taken, Count
<1>3. CASE pc[d] \notin Streaming
  BY <1>1, <1>3 DEF OrderOf
<1>4. CASE pc[d] \in Streaming /\ Channel(d) # ch
  <2>1. inbox'[d] = inbox[d] /\ published'[Channel(d)] = published[Channel(d)]
    BY <1>4, PublishFacts
  <2> QED BY <1>1, <1>2, <1>4, <2>1 DEF OrderOf
<1>5. CASE pc[d] \in Streaming /\ Channel(d) = ch
  <2> DEFINE q == inbox[d]
             p == published[ch]
             e == <<ch, p + 1>>
  <2>1. d \in subs
    BY <1>5 DEF OrderOf
  <2>2. inbox'[d] = Append(q, e) /\ published'[Channel(d)] = p + 1 /\ e[2] = p + 1 /\ p \in Nat
    BY <1>0, <1>5, <2>1, PublishFacts
  <2>3. /\ Len(frames[d]) \in Nat \ {0} /\ Count(d) \in Nat
    <3>1. frames[d] # <<>>
      BY <1>5 DEF OrderOf
    <3>2. Len(frames[d]) \in Nat \ {0}
      BY <1>0, <3>1
    <3>3. \E k \in {0, 1} : Count(d) = Len(frames[d]) - 1 + k
      BY DEF Count
    <3>4. \A n \in Nat \ {0} : n - 1 + 0 \in Nat /\ n - 1 + 1 \in Nat
      OBVIOUS
    <3> QED BY <3>2, <3>3, <3>4
  <2>4. /\ Taken(d) <= p
        /\ \A i \in DOMAIN q :
             /\ Taken(d) < q[i][2] /\ q[i][2] <= p /\ q[i][2] \in Nat
             /\ \A j \in DOMAIN q : i < j => q[i][2] < q[j][2]
             /\ d \notin broken => q[i][2] = start[d] + Count(d) + i
        /\ d \notin broken => p = start[d] + Count(d) + Len(q)
    <3>1. \A i \in DOMAIN q : q[i] \in Event
      BY <1>0
    <3>2. \A x \in Event : x[2] \in Nat
      BY StreamAssumption DEF Event
    <3> QED BY <1>5, <3>1, <3>2 DEF OrderOf
  <2>5. Taken(d) \in Nat
    <3>1. SentNumber(d) \in Nat
      <4>1. frames[d][Len(frames[d])] \in Frame
        BY <1>0, <2>3
      <4>2. \A x \in Frame : x[2] \in Nat
        BY StreamAssumption DEF Frame, Event
      <4> QED BY <4>1, <4>2 DEF SentNumber
    <3>2. message[d][2] \in Nat
      <4>1. message[d] \in Event \cup {NoEvent}
        BY DEF TypeOK
      <4> QED BY <4>1, StreamAssumption DEF Event, NoEvent
    <3> QED BY <3>1, <3>2 DEF Taken
  <2>6. /\ Len(q) \in Nat /\ Len(Append(q, e)) = Len(q) + 1
        /\ \A i \in DOMAIN Append(q, e) :
             \/ i \in DOMAIN q /\ i <= Len(q) /\ i \in Nat /\ Append(q, e)[i] = q[i]
             \/ i = Len(q) + 1 /\ Append(q, e)[i] = e
    BY <1>0
  <2> HIDE DEF q, e
  <2>7. ASSUME NEW i \in DOMAIN Append(q, e)
        PROVE  /\ Taken(d) < Append(q, e)[i][2] /\ Append(q, e)[i][2] <= p + 1
               /\ d \notin broken => Append(q, e)[i][2] = start[d] + Count(d) + i
    <3>1. CASE i \in DOMAIN q /\ Append(q, e)[i] = q[i]
      BY <2>2, <2>4, <3>1
    <3>2. CASE i = Len(q) + 1 /\ Append(q, e)[i] = e
      <4>1. \A a, b, n \in Nat : a + b + n + 1 = a + b + (n + 1)
        OBVIOUS
      <4>2. start[d] + Count(d) + Len(q) + 1 = start[d] + Count(d) + (Len(q) + 1)
        BY <1>0, <2>3, <2>6, <4>1
      <4> QED BY <2>2, <2>4, <2>5, <3>2, <4>2
    <3> QED BY <2>6, <3>1, <3>2
  <2>8. ASSUME NEW i \in DOMAIN Append(q, e), NEW j \in DOMAIN Append(q, e), i < j
        PROVE  Append(q, e)[i][2] < Append(q, e)[j][2]
    <3>1. CASE j \in DOMAIN q /\ j <= Len(q) /\ Append(q, e)[j] = q[j]
      <4>1. i \in DOMAIN q /\ Append(q, e)[i] = q[i]
        BY <2>6, <2>8, <3>1
      <4> QED BY <2>4, <2>8, <3>1, <4>1
    <3>2. CASE j = Len(q) + 1 /\ Append(q, e)[j] = e
      <4>1. i \in DOMAIN q /\ Append(q, e)[i] = q[i]
        BY <2>6, <2>8, <3>2
      <4> QED BY <2>2, <2>4, <3>2, <4>1
    <3> QED BY <2>6, <3>1, <3>2
  <2>9. /\ Taken(d) <= p + 1
        /\ d \notin broken => p + 1 = start[d] + Count(d) + Len(Append(q, e))
    <3>1. \A a, b, n \in Nat : a + b + n + 1 = a + b + (n + 1)
      OBVIOUS
    <3>2. start[d] + Count(d) + Len(q) + 1 = start[d] + Count(d) + (Len(q) + 1)
      BY <1>0, <2>3, <2>6, <3>1
    <3> QED BY <2>2, <2>4, <2>5, <2>6, <3>2
  <2>10. /\ pc[d] = "forward" => SentNumber(d) < message[d][2]
         /\ d \notin broken /\ pc[d] = "forward" => message[d][2] = start[d] + Count(d)
         /\ frames[d] # <<>>
    BY <1>5 DEF OrderOf
  <2> HIDE DEF p
  <2> QED BY <1>1, <1>2, <1>5, <2>1, <2>2, <2>7, <2>8, <2>9, <2>10 DEF OrderOf, Streaming
<1> QED BY <1>3, <1>4, <1>5

\* OrderInv is kept by every step.
LEMMA OrderStep ==
  ASSUME TypeOK, ScopeInv, OrderInv, [Next]_vars
  PROVE  OrderInv'
<1>1. SUFFICES ASSUME NEW d \in Conns PROVE OrderOf(d)'
  BY DEF OrderInv
<1>2. OrderOf(d)
  BY DEF OrderInv
<1>3. ASSUME NEW t \in Tickets, Expire(t) \/ (\E name \in Names : CreateTicket(t, name))
      PROVE  OrderOf(d)'
  BY <1>2, <1>3, TicketSteps, StaysKept
<1>4. ASSUME NEW ch \in Channels, Publish(ch) PROVE OrderOf(d)'
  BY <1>2, <1>4, PublishOrder
<1>5. ASSUME NEW c \in Conns, Moves(c) PROVE OrderOf(d)'
  <2>1. CASE d = c
    BY <1>2, <1>5, <2>1, MoverOrder
  <2>2. CASE d # c
    BY <1>2, <1>5, <2>2, OthersStay, StaysKept
  <2> QED BY <2>1, <2>2
<1>6. CASE Crash
  BY <1>2, <1>6, CrashFacts, OrderKept DEF Streaming
<1>7. CASE UNCHANGED vars
  <2>1. Stays(d)
    BY <1>7 DEF vars, redis, handler, history, Stays
  <2> QED BY <1>2, <2>1, StaysKept
<1> QED BY <1>3, <1>4, <1>5, <1>6, <1>7, StepsByConn

----------------------------------------------------------------------------
(* The inductive invariant, and what follows from it. *)

\* The invariant holds initially.
LEMMA Initially == Init => DInv
<1> SUFFICES ASSUME Init PROVE DInv
  OBVIOUS
<1>1. <<>> \in Seq(Event) /\ <<>> \in Seq(Frame) /\ DOMAIN <<>> = {}
  OBVIOUS
<1>2. NoRequest \in Request
  BY DEF NoRequest, Request
<1>3. 0 \in 0..MaxEvents
  BY StreamAssumption
<1>4. TypeOK
  BY <1>1, <1>2, <1>3 DEF Init, TypeOK, States
<1>5. TicketInv
  BY DEF Init, TicketInv
<1>6. AdmissionInv
  BY DEF Init, AdmissionInv, AdmissionOf, Late, Past
<1>7. ScopeInv
  BY <1>1 DEF Init, ScopeInv, ScopeOf
<1>8. OrderInv
  BY <1>1 DEF Init, OrderInv, OrderOf, Streaming
<1>9. HoldsInv
  BY DEF Init, HoldsInv, HoldsOf, Streaming
<1> QED BY <1>4, <1>5, <1>6, <1>7, <1>8, <1>9 DEF DInv

\* The invariant is kept by every step.
LEMMA Inductive == DInv /\ [Next]_vars => DInv'
BY TypeStep, TicketStep, AdmissionStep, HoldsStep, ScopeStep, OrderStep DEF DInv

\* The strengthened invariant holds in every reachable state.
THEOREM Invariance == Spec => []DInv
BY Initially, Inductive, PTL DEF Spec

\* Type correctness: nothing but a resource is ever stored under a ticket's key, and a
\* client is sent nothing but snapshots and events.
THEOREM TypeCorrect == Spec => []TypeOK
<1>1. DInv => TypeOK
  BY DEF DInv
<1> QED BY <1>1, Invariance, PTL

\* A ticket opens at most one connection, with any number of clients that race for it.
THEOREM TicketsAreSingleUse == Spec => []SingleUse
<1>1. DInv => SingleUse
  BY DEF DInv, AdmissionInv, AdmissionOf, SingleUse, TypeOK
<1> QED BY <1>1, Invariance, PTL

\* The three places that normalise a branch agree: an admitted connection listens to the
\* channel its ticket was minted for, and its snapshot is of the same resource.
LEMMA AdmittedChannel ==
  ASSUME DInv, NEW c \in Conns, pc[c] \in Past \ {"redeemed"} \/ c \in accepted
  PROVE  /\ Channel(c) = issued[asked[c].ticket]
         /\ SnapshotScope(c) \in {Blank, issued[asked[c].ticket]}
<1> USE DEF DInv
<1>1. /\ asked[c].ticket \in Tickets /\ redeemer[asked[c].ticket] = c
      /\ payload[c] = issued[asked[c].ticket] /\ Matches(c)
  BY DEF AdmissionInv, AdmissionOf
<1>2. issued[asked[c].ticket] \in Names
  BY <1>1, StreamAssumption DEF TicketInv, TypeOK
<1>3. Target(asked[c].branch) \in Names \cup {Blank}
  BY ChannelType
<1> QED BY <1>1, <1>2, <1>3, StreamAssumption
        DEF Matches, Expected, Channel, ChannelName, TargetBranch, SnapshotScope, Scope, Names

\* What an accepted connection is sent belongs to the resource of its ticket.
THEOREM OnlyTheAuthorized == Spec => []AcceptedIsAuthorized
<1>1. ASSUME DInv PROVE AcceptedIsAuthorized
  <2>1. ASSUME NEW c \in accepted
        PROVE  /\ asked[c].originAllowed
               /\ \A i \in DOMAIN frames[c] :
                    \/ frames[c][i][1] = issued[asked[c].ticket]
                    \/ frames[c][i] = <<Blank, 0>>
    <3>1. c \in Conns /\ asked[c].originAllowed
      BY <1>1 DEF DInv, TypeOK, AdmissionInv, AdmissionOf
    <3>2. \A i \in DOMAIN frames[c] :
            frames[c][i] = <<SnapshotScope(c), 0>> \/ frames[c][i][1] = Channel(c)
      BY <1>1, <3>1 DEF DInv, ScopeInv, ScopeOf
    <3> QED BY <1>1, <3>1, <3>2, AdmittedChannel
  <2> QED BY <2>1 DEF AcceptedIsAuthorized
<1> QED BY <1>1, Invariance, PTL

\* No session is held over accept(), and a handler that ended keeps a subscription or a
\* connection of the pool only when the broker failed under it.
THEOREM NothingIsKept == Spec => []NothingKept
<1>1. DInv => NothingKept
  BY DEF DInv, HoldsInv, HoldsOf, AdmissionInv, AdmissionOf, Streaming, Late, Past, NothingKept
<1> QED BY <1>1, Invariance, PTL

\* The client gets the events of its channel without a gap, in order and once, from the
\* subscription on, as long as the broker's connection holds, and in order after that.
THEOREM EventsForwardedInOrder == Spec => []ForwardedInOrder
<1>1. ASSUME DInv PROVE ForwardedInOrder
  BY <1>1 DEF DInv, OrderInv, OrderOf, ForwardedInOrder
<1> QED BY <1>1, Invariance, PTL

----------------------------------------------------------------------------
(* Where the events are that a streaming client has not got. *)

\* As long as its broker has not failed, whatever was published on the channel of a
\* streaming handler since it subscribed has been sent to the client, or is the event the
\* handler is about to send, or waits in its inbox.
EventsAreAccountedFor ==
  \A c \in Conns : \A n \in 1..MaxEvents :
    /\ pc[c] \in Streaming /\ c \notin broken
    /\ start[c] < n /\ n <= published[Channel(c)]
    => \/ \E i \in DOMAIN frames[c] : frames[c][i][2] = n
       \/ pc[c] = "forward" /\ message[c][2] = n
       \/ \E i \in DOMAIN inbox[c] : inbox[c][i][2] = n

\* The safety half of EventsReachClient: between get_message and send_text, and while the
\* loop looks at the reader, no event is lost (router.py 155-186).
THEOREM NoEventIsLost == Spec => []EventsAreAccountedFor
<1>1. ASSUME DInv PROVE EventsAreAccountedFor
  <2> SUFFICES ASSUME NEW c \in Conns, NEW n \in 1..MaxEvents,
                      pc[c] \in Streaming, c \notin broken,
                      start[c] < n, n <= published[Channel(c)]
               PROVE  \/ \E i \in DOMAIN frames[c] : frames[c][i][2] = n
                      \/ pc[c] = "forward" /\ message[c][2] = n
                      \/ \E i \in DOMAIN inbox[c] : inbox[c][i][2] = n
    BY DEF EventsAreAccountedFor
  <2> DEFINE k == n - start[c]  sent == Len(frames[c]) - 1
             hand == IF pc[c] = "forward" THEN 1 ELSE 0
  <2>1. /\ frames[c] \in Seq(Frame) /\ inbox[c] \in Seq(Event) /\ start[c] \in Nat /\ n \in Nat
        /\ published[Channel(c)] \in Nat
    BY <1>1, ChannelType, StreamAssumption DEF DInv, TypeOK
  <2>2. /\ DOMAIN frames[c] = 1..Len(frames[c]) /\ DOMAIN inbox[c] = 1..Len(inbox[c])
        /\ Len(frames[c]) \in Nat /\ Len(inbox[c]) \in Nat
    BY <2>1
  <2>3. /\ \A i \in DOMAIN frames[c] : i > 1 => frames[c][i][2] = start[c] + i - 1
        /\ \A i \in DOMAIN inbox[c] : inbox[c][i][2] = start[c] + Count(c) + i
        /\ pc[c] = "forward" => message[c][2] = start[c] + Count(c)
        /\ published[Channel(c)] = start[c] + Count(c) + Len(inbox[c])
        /\ frames[c] # <<>>
    BY <1>1 DEF DInv, OrderInv, OrderOf
  <2>4. /\ Count(c) = sent + hand /\ sent \in Nat /\ hand \in {0, 1} /\ k \in Nat \ {0}
        /\ n = start[c] + k /\ Len(frames[c]) = sent + 1 /\ (hand = 1 => pc[c] = "forward")
    <3>1. Len(frames[c]) # 0
      BY <2>1, <2>3
    <3> QED BY <2>1, <2>2, <3>1 DEF Count
  <2>8. Count(c) \in Nat /\ k <= Count(c) + Len(inbox[c])
    <3>1. published[Channel(c)] = start[c] + Count(c) + Len(inbox[c])
      BY <2>3
    <3>2. start[c] \in Nat /\ Len(inbox[c]) \in Nat /\ published[Channel(c)] \in Nat
      BY <2>1, <2>2
    <3>3. Count(c) \in Nat /\ k \in Nat /\ n = start[c] + k
      <4> HIDE DEF k, sent, hand
      <4> QED BY <2>4
    <3>4. n <= published[Channel(c)]
      OBVIOUS
    <3> HIDE DEF k
    <3> QED BY <3>1, <3>2, <3>3, <3>4
  <2> HIDE DEF k, sent, hand
  <2>5. CASE k <= sent
    <3>1. k + 1 \in DOMAIN frames[c] /\ k + 1 > 1
      BY <2>2, <2>4, <2>5
    <3>2. start[c] + (k + 1) - 1 = n
      BY <2>1, <2>4
    <3>3. frames[c][k + 1][2] = n
      BY <2>3, <3>1, <3>2
    <3> QED BY <3>1, <3>3
  <2>6. CASE k > sent /\ k <= sent + hand
    <3>1. pc[c] = "forward" /\ k = Count(c)
      BY <2>4, <2>6
    <3>2. message[c][2] = start[c] + Count(c) /\ n = start[c] + k
      BY <2>3, <2>4, <3>1
    <3> QED BY <3>1, <3>2
  <2>7. CASE k > sent + hand
    <3> DEFINE i == k - Count(c)
    <3>1. i \in 1..Len(inbox[c]) /\ start[c] + Count(c) + i = n
      <4>1. Count(c) < k
        BY <2>4, <2>7
      <4>2. /\ Count(c) \in Nat /\ k \in Nat /\ Len(inbox[c]) \in Nat /\ start[c] \in Nat
            /\ k <= Count(c) + Len(inbox[c]) /\ n = start[c] + k
        BY <2>1, <2>2, <2>4, <2>8
      <4> QED BY <4>1, <4>2
    <3> HIDE DEF i
    <3>2. i \in DOMAIN inbox[c] /\ inbox[c][i][2] = n
      BY <2>2, <2>3, <3>1
    <3> QED BY <3>2
  <2>9. k \in Nat /\ sent \in Nat /\ sent + hand \in Nat
    BY <2>4
  <2> QED BY <2>5, <2>6, <2>7, <2>9
<1> QED BY <1>1, Invariance, PTL

----------------------------------------------------------------------------
(* How a handler comes to its end. *)

\* The awaits still before a handler, at most; all one while it streams and its reader has
\* not noticed that the client left.
Remaining ==
  [new |-> 14, handshake |-> 13, redeemed |-> 12, snapshot |-> 11, accept |-> 10, send |-> 9,
   subscribe |-> 8, get |-> 6, forward |-> 5, loop |-> 4,
   cleanup |-> 3, unsubscribe |-> 2, aclose |-> 1, done |-> 0]

Left(c) == IF pc[c] \in Streaming /\ reader[c] # "done" THEN 7 ELSE Remaining[pc[c]]

\* No step takes a handler further from its end; whatever it does brings it nearer, but
\* for the rounds of the loop before the reader has stopped, and then the reader does.
WindsDown ==
  [][\A c \in Conns :
       /\ Left(c)' <= Left(c)
       /\ Progress(c) => Left(c)' < Left(c) \/ (pc[c] \in Streaming /\ reader[c] = "running")
       /\ ReaderStops(c) /\ pc[c] \in Streaming => Left(c)' < Left(c)]_vars

\* A step of the handler itself.
LEMMA OwnStep ==
  ASSUME DInv, NEW c \in Conns, Progress(c)
  PROVE  Left(c)' < Left(c) \/ (pc[c] \in Streaming /\ reader[c] = "running" /\ Left(c)' <= 7)
<1> USE DEF Goto, handler, Left, Remaining, Streaming
<1>0. /\ reader[c] \in {"none", "running", "done"}
      /\ pc[c] \in Streaming => reader[c] # "none"
      /\ reader[c] = "running" => pc[c] \in Streaming \cup {"cleanup"}
      /\ \A to : [pc EXCEPT ![c] = to][c] = to
      /\ \A r : [reader EXCEPT ![c] = r][c] = r
  BY DEF DInv, TypeOK, HoldsInv, HoldsOf
<1>1. CASE RejectRequest(c) \/ RejectTicket(c) \/ RejectMismatch(c) \/ SubscribeRefused(c)
  BY <1>0, <1>1 DEF RejectRequest, RejectTicket, RejectMismatch, SubscribeRefused, CloseWith
<1>2. CASE (\E t \in Tickets : Redeem(c, t)) \/ OpenSession(c) \/ Snapshot(c) \/ Accept(c)
           \/ SendSnapshot(c) \/ Subscribe(c)
  BY <1>0, <1>2 DEF Redeem, OpenSession, Snapshot, Accept, SendSnapshot, Subscribe
<1>3. CASE Loop(c) \/ GetMessage(c) \/ GetNothing(c) \/ Forward(c)
  <2>1. /\ reader'[c] = reader[c]
        /\ \/ pc[c] = "loop" /\ pc'[c] = (IF reader[c] = "done" THEN "cleanup" ELSE "get")
           \/ pc[c] = "get" /\ pc'[c] \in {"forward", "loop"}
           \/ pc[c] = "forward" /\ pc'[c] = "loop"
    BY <1>0, <1>3 DEF Loop, GetMessage, GetNothing, Forward
  <2>2. CASE reader[c] = "done"
    BY <2>1, <2>2
  <2>3. CASE reader[c] = "running"
    BY <2>1, <2>3
  <2> QED BY <1>0, <2>1, <2>2, <2>3
<1>4. CASE CancelReader(c) \/ Unsubscribe(c) \/ Aclose(c)
  BY <1>0, <1>4 DEF CancelReader, Unsubscribe, Aclose
<1> QED BY <1>1, <1>2, <1>3, <1>4 DEF Progress

\* What else may happen to it: the calls it awaits fail, or its connection begins or ends.
LEMMA OtherStep ==
  ASSUME DInv, NEW c \in Conns,
         \/ \E request \in Requests : Connect(c, request)
         \/ Leave(c) \/ ReaderStops(c) \/ Failure(c)
  PROVE  /\ Left(c)' <= Left(c)
         /\ ReaderStops(c) /\ pc[c] \in Streaming => Left(c)' < Left(c)
<1> USE DEF Goto, handler, Left, Remaining, Streaming
<1>0. /\ pc[c] \in States
      /\ reader[c] \in {"none", "running", "done"}
      /\ pc[c] \in Streaming => reader[c] # "none"
      /\ reader[c] = "running" => pc[c] \in Streaming \cup {"cleanup"}
      /\ \A to : [pc EXCEPT ![c] = to][c] = to
      /\ \A r : [reader EXCEPT ![c] = r][c] = r
  BY DEF DInv, TypeOK, HoldsInv, HoldsOf
<1>1. CASE (\E request \in Requests : Connect(c, request)) \/ Leave(c)
  BY <1>0, <1>1 DEF Connect, Leave, ReaderStops, States
<1>2. CASE ReaderStops(c)
  BY <1>0, <1>2 DEF ReaderStops, States
<1>3. CASE GreetError(c) \/ ForwardError(c)
  BY <1>0, <1>3 DEF GreetError, ForwardError, CloseWith, ReaderStops
<1>4. CASE RedeemError(c) \/ SubscribeError(c) \/ GetError(c) \/ SnapshotError(c)
  BY <1>0, <1>4 DEF RedeemError, SubscribeError, GetError, SnapshotError, CloseWith, ReaderStops
<1>5. CASE Reconnect(c) \/ CleanupError(c)
  <2>1. /\ reader'[c] = reader[c] /\ ~ReaderStops(c)
        /\ pc'[c] = pc[c] \/ (pc[c] \in {"unsubscribe", "aclose"} /\ pc'[c] = "done")
    BY <1>0, <1>5 DEF Reconnect, CleanupError, ReaderStops
  <2>2. pc[c] \notin Streaming \/ reader[c] = "done" => Remaining[pc[c]] \in Nat
    BY <1>0 DEF States
  <2> QED BY <2>1, <2>2
<1> QED BY <1>1, <1>2, <1>3, <1>4, <1>5 DEF Failure

\* Another handler's step leaves the handler and its reader where they are.
LEMMA ElsewhereStep ==
  ASSUME DInv, NEW c \in Conns, NEW d \in Conns, d # c, Moves(d)
  PROVE  pc'[c] = pc[c] /\ reader'[c] = reader[c]
<1> USE DEF Goto, handler
<1>0. /\ \A to : [pc EXCEPT ![d] = to][c] = pc[c]
      /\ \A r : [reader EXCEPT ![d] = r][c] = reader[c]
  BY DEF DInv, TypeOK
<1>1. CASE (\E request \in Requests : Connect(d, request)) \/ (\E t \in Tickets : Redeem(d, t))
           \/ Leave(d) \/ ReaderStops(d) \/ Accept(d)
  BY <1>0, <1>1 DEF Connect, Redeem, Leave, ReaderStops, Accept
<1>2. CASE RejectRequest(d) \/ RejectTicket(d) \/ RejectMismatch(d) \/ SubscribeRefused(d)
           \/ SnapshotError(d) \/ ForwardError(d)
  BY <1>0, <1>2 DEF RejectRequest, RejectTicket, RejectMismatch, SubscribeRefused,
                    SnapshotError, ForwardError, CloseWith
<1>3. CASE OpenSession(d) \/ Snapshot(d) \/ SendSnapshot(d) \/ GreetError(d) \/ Subscribe(d)
  BY <1>0, <1>3 DEF OpenSession, Snapshot, SendSnapshot, GreetError, Subscribe
<1>4. CASE SubscribeError(d) \/ GetError(d) \/ CleanupError(d) \/ Reconnect(d) \/ RedeemError(d)
  BY <1>0, <1>4 DEF SubscribeError, GetError, CleanupError, Reconnect, RedeemError, CloseWith
<1>5. CASE Loop(d) \/ GetMessage(d) \/ GetNothing(d) \/ Forward(d)
  BY <1>0, <1>5 DEF Loop, GetMessage, GetNothing, Forward
<1>6. CASE CancelReader(d) \/ Unsubscribe(d) \/ Aclose(d)
  BY <1>0, <1>6 DEF CancelReader, Unsubscribe, Aclose
<1> QED BY <1>1, <1>2, <1>3, <1>4, <1>5, <1>6 DEF Moves, Walks

\* The safety half of HandlerEnds: a handler whose client left has at most thirteen steps to
\* its end, besides the rounds of the loop until its reader has stopped, whatever is
\* published meanwhile (router.py 139-199).
THEOREM HandlersWindDown == Spec => WindsDown
<1> DEFINE Down(c) ==
      /\ Left(c)' <= Left(c)
      /\ Progress(c) => Left(c)' < Left(c) \/ (pc[c] \in Streaming /\ reader[c] = "running")
      /\ ReaderStops(c) /\ pc[c] \in Streaming => Left(c)' < Left(c)
<1>1. ASSUME DInv, [Next]_vars, NEW c \in Conns PROVE Down(c)
  <2>1. /\ Left(c) \in Nat
        /\ pc[c] \in Streaming /\ reader[c] = "running" => Left(c) = 7
    BY <1>1 DEF DInv, TypeOK, States, Left, Remaining
  <2>2. CASE Progress(c)
    <3>1. Left(c)' < Left(c) \/ (pc[c] \in Streaming /\ reader[c] = "running" /\ Left(c)' <= 7)
      BY <1>1, <2>2, OwnStep
    <3>2. Left(c)' \in Nat
      BY <1>1, Inductive DEF DInv, TypeOK, States, Left, Remaining
    <3>3. Left(c)' <= Left(c)
      BY <2>1, <3>1, <3>2
    <3>4. ReaderStops(c) /\ pc[c] \in Streaming => Left(c)' < Left(c)
      BY <1>1, OtherStep
    <3> QED BY <3>1, <3>3, <3>4
  <2>3. CASE \/ \E request \in Requests : Connect(c, request)
             \/ Leave(c) \/ ReaderStops(c) \/ Failure(c)
    BY <1>1, <2>3, OtherStep, OwnStep
  <2>4. CASE pc'[c] = pc[c] /\ reader'[c] = reader[c]
    <3>1. Left(c)' = Left(c)
      BY <2>4 DEF Left, Streaming
    <3>2. ~(ReaderStops(c) /\ pc[c] \in Streaming)
      BY <1>1, <2>4 DEF ReaderStops, DInv, TypeOK
    <3> QED BY <1>1, <2>1, <3>1, <3>2, OwnStep
  <2>5. CASE Crash
    <3>1. pc'[c] \in {"new", "done"} /\ (pc[c] = "new" <=> pc'[c] = "new")
      BY <1>1, <2>5 DEF Crash, Running
    <3>2. Left(c)' <= Left(c)
      <4>1. Left(c) \in Nat /\ (pc[c] = "new" => Left(c) = 14)
        BY <2>1 DEF Left, Remaining, Streaming
      <4>2. Left(c)' = IF pc'[c] = "new" THEN 14 ELSE 0
        BY <3>1 DEF Left, Remaining, Streaming
      <4> QED BY <3>1, <4>1, <4>2
    <3>3. pc[c] \in Streaming => Left(c)' < Left(c)
      BY <1>1, <2>5, <3>1 DEF Crash, Running, Left, Remaining, Streaming
    <3> QED BY <1>1, <2>1, <3>2, <3>3, OwnStep
  <2>6. CASE \/ \E t \in Tickets : Expire(t) \/ (\E name \in Names : CreateTicket(t, name))
             \/ \E ch \in Channels : Publish(ch)
             \/ UNCHANGED vars
    <3>1. pc' = pc /\ reader' = reader
      BY <2>6 DEF Expire, CreateTicket, Publish, vars, handler
    <3> QED BY <3>1, <2>4
  <2>7. ASSUME NEW d \in Conns, d # c,
               \/ \E request \in Requests : Connect(d, request)
               \/ Leave(d) \/ ReaderStops(d) \/ Progress(d) \/ Failure(d)
        PROVE  Down(c)
    <3>1. Moves(d)
      BY <2>7 DEF Moves, Walks, Progress, Failure
    <3> QED BY <1>1, <2>4, <2>7, <3>1, ElsewhereStep
  <2> QED BY <1>1, <2>2, <2>3, <2>5, <2>6, <2>7 DEF Next
<1>2. DInv /\ [Next]_vars => [\A c \in Conns : Down(c)]_vars
  BY <1>1
<1> QED BY <1>2, Invariance, PTL DEF Spec, WindsDown

----------------------------------------------------------------------------
(* DashboardStream implements TicketAuthority. *)

\* Every step of the handshake is a step of the authority or a stutter.
LEMMA StepImplements ==
  ASSUME DInv, [Next]_vars
  PROVE  [Authority!AuthorityNext]_(Authority!authorityVars)
<1> USE DEF Goto, redis, handler, history, DInv
<1> DEFINE valid == {t \in Tickets : keys[t] # None}
           admitted == {<<c, Channel(c)>> : c \in accepted}
<1>0. ASSUME UNCHANGED <<keys, issued, redeemer, accepted>>,
             \A c \in accepted : asked'[c] = asked[c]
      PROVE  UNCHANGED <<issued, valid, redeemer, admitted>>
  <2>1. \A c \in accepted : Channel(c)' = Channel(c)
    BY <1>0 DEF Channel
  <2> QED BY <1>0, <2>1
<1>1. ASSUME NEW t \in Tickets, Expire(t) PROVE Authority!AuthorityNext
  <2>1. /\ UNCHANGED <<issued, redeemer, accepted, asked>> /\ keys[t] # None
        /\ keys' = [keys EXCEPT ![t] = None]
    BY <1>1 DEF Expire
  <2>2. valid' = valid \ {t} /\ t \in valid
    BY <2>1 DEF TypeOK
  <2>3. admitted' = admitted
    BY <2>1 DEF Channel
  <2> QED BY <2>1, <2>2, <2>3 DEF Authority!AuthorityNext, Authority!Lapse
<1>2. ASSUME NEW t \in Tickets, NEW name \in Names, CreateTicket(t, name)
      PROVE  Authority!AuthorityNext
  <2>1. /\ UNCHANGED <<redeemer, accepted, asked>> /\ issued[t] = None
        /\ keys' = [keys EXCEPT ![t] = name] /\ issued' = [issued EXCEPT ![t] = name]
    BY <1>2 DEF CreateTicket
  <2>2. valid' = valid \cup {t}
    BY <2>1, StreamAssumption DEF TypeOK
  <2>3. admitted' = admitted
    BY <2>1 DEF Channel
  <2> QED BY <2>1, <2>2, <2>3 DEF Authority!AuthorityNext, Authority!Issue
<1>3. ASSUME NEW c \in Conns, NEW request \in Requests, Connect(c, request)
      PROVE  UNCHANGED <<issued, valid, redeemer, admitted>>
  <2>1. /\ pc[c] = "new" /\ UNCHANGED <<keys, issued, redeemer, accepted>>
        /\ \A d \in Conns \ {c} : asked'[d] = asked[d]
    BY <1>3 DEF Connect, TypeOK
  <2>2. c \notin accepted
    BY <2>1 DEF AdmissionInv, AdmissionOf, Late, Past
  <2> QED BY <1>0, <2>1, <2>2 DEF TypeOK
<1>4. ASSUME NEW c \in Conns, NEW t \in Tickets, Redeem(c, t) PROVE Authority!AuthorityNext
  <2>1. /\ UNCHANGED <<issued, accepted, asked>> /\ keys[t] # None
        /\ keys' = [keys EXCEPT ![t] = None] /\ redeemer' = [redeemer EXCEPT ![t] = c]
        /\ pc[c] = "handshake"
    BY <1>4 DEF Redeem
  <2>2. valid' = valid \ {t} /\ t \in valid
    BY <2>1 DEF TypeOK
  <2>3. admitted' = admitted
    BY <2>1 DEF Channel
  <2>4. \A u \in Tickets : redeemer[u] # c
    BY <2>1, StreamAssumption DEF TicketInv
  <2> QED BY <2>1, <2>2, <2>3, <2>4 DEF Authority!AuthorityNext, Authority!Claim
<1>5. ASSUME NEW c \in Conns, RedeemError(c)
      PROVE  Authority!AuthorityNext \/ UNCHANGED <<issued, valid, redeemer, admitted>>
  <2> DEFINE t == asked[c].ticket
  <2>1. /\ UNCHANGED <<issued, redeemer, accepted, asked>> /\ t \in Tickets
        /\ keys' = keys \/ keys' = [keys EXCEPT ![t] = None]
    BY <1>5 DEF RedeemError, CloseWith, TypeOK, Request
  <2>2. admitted' = admitted
    BY <2>1 DEF Channel
  <2>3. CASE valid' = valid
    BY <2>1, <2>2, <2>3
  <2>4. CASE valid' # valid
    <3>1. valid' = valid \ {t} /\ t \in valid
      BY <2>1, <2>4 DEF TypeOK
    <3> QED BY <2>1, <2>2, <3>1 DEF Authority!AuthorityNext, Authority!Lapse
  <2> QED BY <2>3, <2>4
<1>6. ASSUME NEW c \in Conns, Accept(c) PROVE Authority!AuthorityNext
  <2> DEFINE t == asked[c].ticket
  <2>1. /\ UNCHANGED <<keys, issued, redeemer, asked>> /\ pc[c] = "accept"
        /\ accepted' = accepted \cup {c}
    BY <1>6 DEF Accept
  <2>2. t \in Tickets /\ redeemer[t] = c /\ c \notin accepted
    BY <2>1 DEF AdmissionInv, AdmissionOf, Late, Past, States
  <2>3. Channel(c) = issued[t]
    BY <2>1, AdmittedChannel DEF Past, States
  <2>4. \A d \in accepted' : Channel(d)' = Channel(d)
    BY <2>1 DEF Channel
  <2>5. admitted' = admitted \cup {<<c, issued[t]>>}
    BY <2>1, <2>3, <2>4
  <2>6. \A p \in admitted : p[1] # c
    BY <2>2
  <2> QED BY <2>1, <2>2, <2>5, <2>6 DEF Authority!AuthorityNext, Authority!Admit
<1>7. ASSUME NEW c \in Conns, Walks(c) PROVE UNCHANGED <<issued, valid, redeemer, admitted>>
  <2>1. UNCHANGED <<keys, issued, redeemer, accepted, asked>>
    BY <1>7, WalkFacts
  <2> QED BY <1>0, <2>1
<1>8. CASE Rests
  <2>1. UNCHANGED <<keys, issued, redeemer, accepted, asked>>
    BY <1>8, RestFacts
  <2> QED BY <1>0, <2>1 DEF Authority!authorityVars
<1>9. CASE Crash
  <2>1. UNCHANGED <<keys, issued, redeemer, accepted, asked>>
    BY <1>9 DEF Crash
  <2> QED BY <1>0, <2>1 DEF Authority!authorityVars
<1> QED
  BY <1>1, <1>2, <1>3, <1>4, <1>5, <1>6, <1>7, <1>8, <1>9, StreamSteps
     DEF Authority!authorityVars

\* Whatever races with an expiry, another client, a broker failure or a restart, the
\* handshake keeps the promise of TicketAuthority.
THEOREM Implementation == Spec => ImplementsAuthority
<1>1. Init => Authority!AuthorityInit
  BY DEF Init, Authority!AuthorityInit
<1>2. DInv /\ [Next]_vars => [Authority!AuthorityNext]_(Authority!authorityVars)
  BY StepImplements
<1> QED BY <1>1, <1>2, Invariance, PTL DEF Spec, ImplementsAuthority, Authority!AuthoritySpec
=================================================================================
