------------------------ MODULE ConnectionManager_proofs ------------------------
(***************************************************************************)
(* Theorems about module ConnectionManager, for every set of sockets,      *)
(* branches and overlapping broadcasts.                                    *)
(***************************************************************************)
EXTENDS ConnectionManager, TLAPS

----------------------------------------------------------------------------
(* The inductive invariant. *)

\* A registered socket is one whose handler is serving it.
ServingInv == connections \subseteq {w \in Sockets : handler[w] = "serving"}

\* A broadcast only ever deals with sockets registered for its branch or for all, which
\* are past their registration; what it found dead has left.
TargetOf(t) ==
  /\ \A w \in pending[t] \cup dead[t] \cup audience[t] :
       /\ handler[w] \in {"serving", "ended"}
       /\ topic[t] = None \/ of[w] \in {None, topic[t]}
  /\ dead[t] \subseteq gone
  /\ \A w \in Sockets : t \in received[w] =>
       /\ handler[w] \in {"serving", "ended"}
       /\ topic[t] = None \/ of[w] \in {None, topic[t]}
  /\ at[t] = "idle" => \A w \in Sockets : t \notin received[w]

\* Who a broadcast was for got it, is waiting for it, or is waiting for removal.
ReachOf(t) ==
  /\ at[t] = "sending" =>
       \A w \in audience[t] : t \in received[w] \/ w \in pending[t] \/ w \in dead[t]
  /\ at[t] = "sweeping" =>
       /\ pending[t] \subseteq dead[t]
       /\ \A w \in audience[t] : t \in received[w] \/ w \in dead[t]
       /\ \A w \in dead[t] : w \in pending[t] \/ w \notin connections
  /\ running = t => at[t] = "sweeping"
  /\ at[t] = "idle" => pending[t] = {} /\ dead[t] = {} /\ audience[t] = {}

BroadcastInv == \A t \in Broadcasts : TargetOf(t) /\ ReachOf(t)

MInv == TypeOK /\ ServingInv /\ Filed /\ BroadcastInv /\ Delivered

----------------------------------------------------------------------------
(* The dict. *)

\* Registration adds one socket to one set.
LEMMA WithFacts ==
  ASSUME NEW w, NEW b, filed' = With(w, b)
  PROVE  /\ DOMAIN filed' = DOMAIN filed \cup {b}
         /\ \A k : Get(k)' = IF k = b THEN Get(k) \cup {w} ELSE Get(k)
         /\ \A k \in DOMAIN filed' : filed'[k] = IF k = b THEN Get(k) \cup {w} ELSE filed[k]
BY DEF With, Get

\* Removal takes it from the sets searched and drops the sets that become empty.
LEMMA WithoutFacts ==
  ASSUME NEW w, NEW bs, bs \subseteq DOMAIN filed, filed' = Without(w, bs),
         \A k \in DOMAIN filed : filed[k] # {}
  PROVE  /\ DOMAIN filed' \subseteq DOMAIN filed
         /\ \A k : Get(k)' = IF k \in bs THEN Get(k) \ {w} ELSE Get(k)
         /\ \A k \in DOMAIN filed' : filed'[k] # {} /\ filed'[k] \subseteq filed[k]
         /\ filed' = [k \in DOMAIN filed' |-> filed'[k]]
<1> DEFINE left == [k \in DOMAIN filed |-> IF k \in bs THEN filed[k] \ {w} ELSE filed[k]]
           kept == {b \in DOMAIN filed : b \in bs => left[b] # {}}
<1>1. filed' = [k \in kept |-> left[k]]
  BY DEF Without
<1>2. DOMAIN filed' = kept /\ \A k \in kept : filed'[k] = left[k]
  BY <1>1
<1>3. \A k \in DOMAIN filed : left[k] = IF k \in bs THEN filed[k] \ {w} ELSE filed[k]
  OBVIOUS
<1>4. \A k : Get(k)' = IF k \in kept THEN left[k] ELSE {}
  BY <1>2 DEF Get
<1>5. \A k : Get(k) = IF k \in DOMAIN filed THEN filed[k] ELSE {}
  BY DEF Get
<1>6. \A k : Get(k)' = IF k \in bs THEN Get(k) \ {w} ELSE Get(k)
  BY <1>3, <1>4, <1>5
<1> QED BY <1>1, <1>2, <1>3, <1>6

\* A removal that names the socket's branch, no branch, or a branch the socket was a
\* target of, takes it out of the registry and disturbs nobody else.
LEMMA DisconnectFacts ==
  ASSUME TypeOK, ServingInv, Filed, NEW w \in Sockets, NEW b \in Branches \cup {None},
         b = None \/ of[w] \in {None, b}, Disconnect(w, b), UNCHANGED of
  PROVE  /\ connections' = connections \ {w}
         /\ DOMAIN filed' \subseteq Branches /\ filed' \in [DOMAIN filed' -> SUBSET Sockets]
         /\ Filed'
<1> DEFINE bs == IF b \in DOMAIN filed THEN {b} ELSE DOMAIN filed
<1>1. connections' = connections \ {w} /\ filed' = Without(w, bs) /\ bs \subseteq DOMAIN filed
  BY DEF Disconnect
<1>2. /\ DOMAIN filed' \subseteq DOMAIN filed
      /\ \A k : Get(k)' = IF k \in bs THEN Get(k) \ {w} ELSE Get(k)
      /\ \A k \in DOMAIN filed' : filed'[k] # {} /\ filed'[k] \subseteq filed[k]
      /\ filed' = [k \in DOMAIN filed' |-> filed'[k]]
  BY <1>1, WithoutFacts DEF Filed
<1>3. ASSUME NEW v \in Sockets, NEW k \in Branches
      PROVE  v \in Get(k)' <=> v \in connections' /\ of'[v] = k
  <2>1. v \in Get(k) <=> v \in connections /\ of[v] = k
    BY DEF Filed
  <2>2. k \notin bs => w \notin Get(k)
    <3>1. CASE k \notin DOMAIN filed
      BY <3>1 DEF Get
    <3>2. CASE k \in DOMAIN filed /\ k \notin bs
      <4>1. b \in DOMAIN filed /\ k # b /\ b # None
        BY <3>2, ManagerAssumption DEF TypeOK
      <4>2. of[w] # k
        BY <4>1, ManagerAssumption
      <4> QED BY <4>2 DEF Filed
    <3> QED BY <3>1, <3>2
  <2> QED BY <1>1, <1>2, <2>1, <2>2
<1>4. Filed'
  BY <1>2, <1>3 DEF Filed
<1>5. filed' \in [DOMAIN filed' -> SUBSET Sockets]
  <2>1. \A k \in DOMAIN filed' : filed'[k] \in SUBSET Sockets
    BY <1>2 DEF TypeOK
  <2> QED BY <1>2, <2>1
<1> QED BY <1>1, <1>2, <1>4, <1>5 DEF TypeOK

\* The targets of a broadcast are who is registered for its branch or for all.
LEMMA TargetsFacts ==
  ASSUME TypeOK, ServingInv, Filed, NEW b \in Branches \cup {None}
  PROVE  Targets(b) = {w \in connections : b = None \/ of[w] \in {None, b}}
<1>1. CASE b = None
  BY <1>1 DEF Targets
<1>2. CASE b # None
  <2>1. \A w \in Sockets : w \in Get(b) <=> w \in connections /\ of[w] = b
    BY <1>2 DEF Filed
  <2>2. Get(b) \subseteq Sockets
    BY DEF Get, TypeOK
  <2>3. ASSUME NEW w \in connections
        PROVE  w \in UNION {filed[k] : k \in DOMAIN filed} <=> of[w] # None
    <3>1. w \in Sockets /\ \A k \in Branches : w \in Get(k) <=> of[w] = k
      BY DEF Filed, TypeOK
    <3>2. \A k \in DOMAIN filed : k \in Branches /\ Get(k) = filed[k]
      BY DEF TypeOK, Get
    <3>3. CASE of[w] = None
      BY <3>1, <3>2, <3>3, ManagerAssumption
    <3>4. CASE of[w] # None
      <4>1. of[w] \in Branches /\ w \in Get(of[w])
        BY <3>1, <3>4 DEF TypeOK
      <4> QED BY <3>2, <3>4, <4>1 DEF Get
    <3> QED BY <3>3, <3>4
  <2>4. Targets(b) = Get(b) \cup {w \in connections : of[w] = None}
    BY <1>2, <2>3 DEF Targets
  <2> QED BY <1>2, <2>1, <2>2, <2>4 DEF TypeOK
<1> QED BY <1>1, <1>2

----------------------------------------------------------------------------
(* The steps of the sockets. *)

\* A socket that does not get another branch and is not registered while a broadcast
\* deals with it disturbs no broadcast.
LEMMA BroadcastsKept ==
  ASSUME TypeOK, BroadcastInv, Delivered, UNCHANGED <<broadcast, running, received, audience>>,
         gone \subseteq gone',
         \A w \in Sockets : handler[w] \in {"serving", "ended"} =>
           /\ handler'[w] \in {"serving", "ended"} /\ of'[w] = of[w]
           /\ w \in connections' => w \in connections
  PROVE  BroadcastInv' /\ Delivered'
<1>1. \A t \in Broadcasts :
        /\ pending[t] \subseteq Sockets /\ dead[t] \subseteq Sockets /\ audience[t] \subseteq Sockets
  BY DEF TypeOK
<1>2. ASSUME NEW t \in Broadcasts PROVE TargetOf(t)' /\ ReachOf(t)'
  <2>1. TargetOf(t)'
    BY <1>1 DEF BroadcastInv, TargetOf, broadcast
  <2>2. ReachOf(t)'
    BY <1>1 DEF BroadcastInv, TargetOf, ReachOf, broadcast
  <2> QED BY <2>1, <2>2
<1>3. Delivered'
  BY <1>1 DEF BroadcastInv, TargetOf, Delivered, broadcast
<1> QED BY <1>2, <1>3 DEF BroadcastInv

\* accept(), the registration, the departure and the end of a socket's handler.
LEMMA SocketKeeps ==
  ASSUME MInv, NEW w \in Sockets, SocketStep(w)
  PROVE  MInv'
<1> USE DEF MInv, clients, registry, broadcast
<1>1. ASSUME NEW b \in Branches \cup {None}, Accept(w, b) PROVE MInv'
  <2>1. /\ handler[w] = "new" /\ handler' = [handler EXCEPT ![w] = "accepted"]
        /\ of' = [of EXCEPT ![w] = b]
        /\ UNCHANGED <<connections, filed, gone, at, topic, pending, dead, running, received, audience>>
    BY <1>1 DEF Accept
  <2>2. TypeOK'
    BY <2>1 DEF TypeOK
  <2>3. ServingInv' /\ w \notin connections
    BY <2>1 DEF ServingInv, TypeOK
  <2>4. Filed'
    BY <2>1, <2>3 DEF Filed, Get, TypeOK
  <2>5. BroadcastInv' /\ Delivered'
    BY <2>1, BroadcastsKept DEF TypeOK
  <2> QED BY <2>2, <2>3, <2>4, <2>5
<1>2. CASE Register(w)
  <2>1. /\ handler[w] = "accepted" /\ handler' = [handler EXCEPT ![w] = "serving"]
        /\ connections' = connections \cup {w}
        /\ filed' = IF of[w] = None THEN filed ELSE With(w, of[w])
        /\ UNCHANGED <<of, gone, at, topic, pending, dead, running, received, audience>>
    BY <1>2 DEF Register
  <2>2. ServingInv' /\ w \notin connections
    BY <2>1 DEF ServingInv, TypeOK
  <2>3. \A k : Get(k)' = IF k = of[w] /\ of[w] # None THEN Get(k) \cup {w} ELSE Get(k)
    <3>1. CASE of[w] = None
      BY <2>1, <3>1 DEF Get
    <3>2. CASE of[w] # None
      <4>1. filed' = With(w, of[w])
        BY <2>1, <3>2
      <4>2. \A k : Get(k)' = IF k = of[w] THEN Get(k) \cup {w} ELSE Get(k)
        BY <4>1, WithFacts
      <4> QED BY <3>2, <4>2
    <3> QED BY <3>1, <3>2
  <2>4. /\ DOMAIN filed' \subseteq Branches /\ filed' \in [DOMAIN filed' -> SUBSET Sockets]
        /\ \A k \in DOMAIN filed' : filed'[k] # {}
    <3>1. CASE of[w] = None
      BY <2>1, <3>1 DEF TypeOK, Filed
    <3>2. CASE of[w] # None
      <4>1. filed' = [k \in DOMAIN filed \cup {of[w]} |->
                        Get(k) \cup (IF k = of[w] THEN {w} ELSE {})]
        BY <2>1, <3>2 DEF With
      <4>2. \A k : Get(k) \subseteq Sockets /\ (k \in DOMAIN filed => Get(k) = filed[k])
        BY DEF TypeOK, Get
      <4>3. of[w] \in Branches
        BY <3>2 DEF TypeOK
      <4> QED BY <4>1, <4>2, <4>3 DEF TypeOK, Filed
    <3> QED BY <3>1, <3>2
  <2>5. Filed'
    BY <2>1, <2>2, <2>3, <2>4, ManagerAssumption DEF Filed
  <2>6. TypeOK'
    BY <2>1, <2>4 DEF TypeOK
  <2>7. BroadcastInv' /\ Delivered'
    BY <2>1, BroadcastsKept DEF TypeOK
  <2> QED BY <2>2, <2>5, <2>6, <2>7
<1>3. CASE Leave(w)
  <2>1. /\ gone' = gone \cup {w}
        /\ UNCHANGED <<connections, filed, handler, of, at, topic, pending, dead, running, received, audience>>
    BY <1>3 DEF Leave
  <2>2. TypeOK' /\ ServingInv' /\ Filed'
    BY <2>1 DEF TypeOK, ServingInv, Filed, Get
  <2>3. BroadcastInv' /\ Delivered'
    BY <2>1, BroadcastsKept DEF TypeOK
  <2> QED BY <2>2, <2>3
<1>4. CASE EndHandler(w)
  <2>1. /\ handler[w] = "serving" /\ handler' = [handler EXCEPT ![w] = "ended"]
        /\ gone' = gone \cup {w}
        /\ UNCHANGED <<of, at, topic, pending, dead, running, received, audience>>
    BY <1>4 DEF EndHandler
  <2>2. PICK b \in {None, of[w]} : Disconnect(w, b)
    BY <1>4 DEF EndHandler
  <2>3. /\ connections' = connections \ {w} /\ Filed'
        /\ DOMAIN filed' \subseteq Branches /\ filed' \in [DOMAIN filed' -> SUBSET Sockets]
    BY <2>1, <2>2, DisconnectFacts DEF TypeOK
  <2>4. TypeOK' /\ ServingInv'
    BY <2>1, <2>3 DEF TypeOK, ServingInv
  <2>5. BroadcastInv' /\ Delivered'
    BY <2>1, <2>3, BroadcastsKept DEF TypeOK
  <2> QED BY <2>3, <2>4, <2>5
<1>5. CASE PersonalMessageFails(w)
  <2>1. UNCHANGED <<handler, of, gone, at, topic, pending, dead, running, received, audience>>
    BY <1>5 DEF PersonalMessageFails
  <2>2. /\ connections' = connections \ {w} /\ Filed'
        /\ DOMAIN filed' \subseteq Branches /\ filed' \in [DOMAIN filed' -> SUBSET Sockets]
    BY <1>5, <2>1, DisconnectFacts DEF PersonalMessageFails
  <2>3. TypeOK' /\ ServingInv'
    BY <2>1, <2>2 DEF TypeOK, ServingInv
  <2>4. BroadcastInv' /\ Delivered'
    BY <2>1, <2>2, BroadcastsKept DEF TypeOK
  <2> QED BY <2>2, <2>3, <2>4
<1> QED BY <1>1, <1>2, <1>3, <1>4, <1>5 DEF SocketStep

----------------------------------------------------------------------------
(* The steps of the broadcasts. *)

\* A step of one broadcast that sends to sockets only among its own targets leaves what
\* is known of the others.
LEMMA OthersKept ==
  ASSUME TypeOK, BroadcastInv, Delivered, NEW t \in Broadcasts, NEW u \in Broadcasts, u # t,
         at'[u] = at[u], topic'[u] = topic[u], pending'[u] = pending[u], dead'[u] = dead[u],
         audience'[u] = audience[u], UNCHANGED <<handler, of, gone>>,
         \A w \in Sockets : u \in received'[w] <=> u \in received[w],
         running' = u => running = u,
         connections' \subseteq connections
  PROVE  /\ TargetOf(u)' /\ ReachOf(u)'
         /\ at'[u] = "done" => \A w \in audience'[u] :
              u \in received'[w] \/ (w \in gone' /\ w \notin connections')
<1>1. pending[u] \subseteq Sockets /\ dead[u] \subseteq Sockets /\ audience[u] \subseteq Sockets
  BY DEF TypeOK
<1>2. TargetOf(u) /\ ReachOf(u)
  BY DEF BroadcastInv
<1> QED BY <1>1, <1>2 DEF TargetOf, ReachOf, Delivered

\* The mover's part and the others' make the whole.
LEMMA AllKept ==
  ASSUME NEW t \in Broadcasts, TargetOf(t)', ReachOf(t)',
         at'[t] = "done" => \A w \in audience'[t] :
           t \in received'[w] \/ (w \in gone' /\ w \notin connections'),
         \A u \in Broadcasts \ {t} :
           /\ TargetOf(u)' /\ ReachOf(u)'
           /\ at'[u] = "done" => \A w \in audience'[u] :
                u \in received'[w] \/ (w \in gone' /\ w \notin connections')
  PROVE  BroadcastInv' /\ Delivered'
BY DEF BroadcastInv, Delivered

\* The start of a broadcast, its sends, the end of gather(), its sweep, its cancellation.
LEMMA BroadcastKeeps ==
  ASSUME MInv, NEW t \in Broadcasts, BroadcastStep(t)
  PROVE  MInv'
<1> USE DEF MInv, clients, registry
<1>0. /\ TargetOf(t) /\ ReachOf(t)
      /\ pending[t] \subseteq Sockets /\ dead[t] \subseteq Sockets /\ audience[t] \subseteq Sockets
  BY DEF BroadcastInv, TypeOK
<1>1. ASSUME NEW b \in Branches \cup {None}, Begin(t, b) PROVE MInv'
  <2>1. /\ at[t] = "idle" /\ running = None
        /\ topic' = [topic EXCEPT ![t] = b]
        /\ pending' = [pending EXCEPT ![t] = IF connections = {} THEN {} ELSE Targets(b)]
        /\ at' = [at EXCEPT ![t] = IF pending'[t] = {} THEN "done" ELSE "sending"]
        /\ audience' = [audience EXCEPT ![t] =
                          {w \in connections : b = None \/ of[w] \in {None, b}}]
        /\ UNCHANGED <<connections, filed, handler, of, gone, dead, running, received>>
    BY <1>1 DEF Begin
  <2>2. Targets(b) = {w \in connections : b = None \/ of[w] \in {None, b}}
    BY TargetsFacts
  <2>3. pending'[t] = audience'[t] /\ audience'[t] \subseteq connections
    BY <2>1, <2>2 DEF TypeOK
  <2>4. TypeOK' /\ ServingInv' /\ Filed'
    BY <2>1, <2>2 DEF TypeOK, ServingInv, Filed, Get
  <2>5. TargetOf(t)'
    BY <1>0, <2>1, <2>2, <2>3 DEF TargetOf, ReachOf, ServingInv, TypeOK
  <2>6. ReachOf(t)' /\ (at'[t] = "done" => audience'[t] = {})
    BY <1>0, <2>1, <2>3, ManagerAssumption DEF ReachOf, TypeOK
  <2>7. \A u \in Broadcasts \ {t} :
          /\ TargetOf(u)' /\ ReachOf(u)'
          /\ at'[u] = "done" => \A w \in audience'[u] :
               u \in received'[w] \/ (w \in gone' /\ w \notin connections')
    BY <2>1, OthersKept DEF TypeOK
  <2> QED BY <2>4, <2>5, <2>6, <2>7, AllKept
<1>2. ASSUME NEW w \in Sockets, Send(t, w) PROVE MInv'
  <2>1. /\ at[t] = "sending" /\ w \in pending[t] /\ running = None
        /\ pending' = [pending EXCEPT ![t] = pending[t] \ {w}]
        /\ received' = [received EXCEPT ![w] = received[w] \cup {t}]
        /\ UNCHANGED <<connections, filed, handler, of, gone, at, topic, dead, running, audience>>
    BY <1>2 DEF Send
  <2>2. TypeOK' /\ ServingInv' /\ Filed'
    BY <2>1 DEF TypeOK, ServingInv, Filed, Get
  <2>3. TargetOf(t)' /\ ReachOf(t)'
    BY <1>0, <2>1, ManagerAssumption DEF TargetOf, ReachOf, TypeOK
  <2>4. \A u \in Broadcasts \ {t} :
          /\ TargetOf(u)' /\ ReachOf(u)'
          /\ at'[u] = "done" => \A v \in audience'[u] :
               u \in received'[v] \/ (v \in gone' /\ v \notin connections')
    BY <2>1, OthersKept DEF TypeOK
  <2> QED BY <2>1, <2>2, <2>3, <2>4, AllKept
<1>3. ASSUME NEW w \in Sockets, SendError(t, w) PROVE MInv'
  <2>1. /\ at[t] = "sending" /\ w \in pending[t] /\ w \in gone /\ running = None
        /\ pending' = [pending EXCEPT ![t] = pending[t] \ {w}]
        /\ dead' = [dead EXCEPT ![t] = dead[t] \cup {w}]
        /\ UNCHANGED <<connections, filed, handler, of, gone, at, topic, running, received, audience>>
    BY <1>3 DEF SendError
  <2>2. TypeOK' /\ ServingInv' /\ Filed'
    BY <2>1 DEF TypeOK, ServingInv, Filed, Get
  <2>3. TargetOf(t)' /\ ReachOf(t)'
    BY <1>0, <2>1, ManagerAssumption DEF TargetOf, ReachOf, TypeOK
  <2>4. \A u \in Broadcasts \ {t} :
          /\ TargetOf(u)' /\ ReachOf(u)'
          /\ at'[u] = "done" => \A v \in audience'[u] :
               u \in received'[v] \/ (v \in gone' /\ v \notin connections')
    BY <2>1, OthersKept DEF TypeOK
  <2> QED BY <2>1, <2>2, <2>3, <2>4, AllKept
<1>4. CASE Gathered(t)
  <2>1. /\ at[t] = "sending" /\ pending[t] = {} /\ running = None
        /\ pending' = [pending EXCEPT ![t] = dead[t]]
        /\ IF dead[t] = {} THEN at' = [at EXCEPT ![t] = "done"] /\ UNCHANGED running
           ELSE at' = [at EXCEPT ![t] = "sweeping"] /\ running' = t
        /\ UNCHANGED <<connections, filed, handler, of, gone, topic, dead, received, audience>>
    BY <1>4 DEF Gathered
  <2>2. TypeOK' /\ ServingInv' /\ Filed'
    BY <2>1 DEF TypeOK, ServingInv, Filed, Get
  <2>3. TargetOf(t)' /\ ReachOf(t)'
    BY <1>0, <2>1, ManagerAssumption DEF TargetOf, ReachOf, TypeOK
  <2>4. at'[t] = "done" => \A w \in audience'[t] : t \in received'[w]
    BY <1>0, <2>1 DEF ReachOf, TypeOK
  <2>5. \A u \in Broadcasts \ {t} :
          /\ TargetOf(u)' /\ ReachOf(u)'
          /\ at'[u] = "done" => \A v \in audience'[u] :
               u \in received'[v] \/ (v \in gone' /\ v \notin connections')
    BY <2>1, OthersKept DEF TypeOK
  <2> QED BY <2>2, <2>3, <2>4, <2>5, AllKept
<1>5. ASSUME NEW w \in Sockets, Sweep(t, w) PROVE MInv'
  <2>1. /\ running = t /\ w \in pending[t] /\ at[t] = "sweeping"
        /\ pending' = [pending EXCEPT ![t] = pending[t] \ {w}]
        /\ Disconnect(w, topic[t])
        /\ IF pending'[t] # {} THEN UNCHANGED <<at, running>>
           ELSE at' = [at EXCEPT ![t] = "done"] /\ running' = None
        /\ UNCHANGED <<handler, of, gone, topic, dead, received, audience>>
    BY <1>0, <1>5 DEF Sweep, ReachOf
  <2>2. topic[t] \in Branches \cup {None} /\ (topic[t] = None \/ of[w] \in {None, topic[t]})
    BY <1>0, <2>1 DEF TargetOf, TypeOK
  <2>3. /\ connections' = connections \ {w} /\ Filed'
        /\ DOMAIN filed' \subseteq Branches /\ filed' \in [DOMAIN filed' -> SUBSET Sockets]
    BY <2>1, <2>2, DisconnectFacts
  <2>4. TypeOK' /\ ServingInv'
    BY <2>1, <2>3 DEF TypeOK, ServingInv
  <2>5. /\ \A v \in audience[t] : t \in received[v] \/ v \in dead[t]
        /\ \A v \in dead[t] : v \in pending'[t] \/ v \notin connections'
        /\ pending'[t] \subseteq dead[t] /\ dead[t] \subseteq gone
    BY <1>0, <2>1, <2>3 DEF ReachOf, TargetOf, TypeOK
  <2>6. TargetOf(t)'
    BY <1>0, <2>1 DEF TargetOf, TypeOK
  <2>7. /\ ReachOf(t)'
        /\ at'[t] = "done" => \A v \in audience'[t] :
             t \in received'[v] \/ (v \in gone' /\ v \notin connections')
    BY <1>0, <2>1, <2>5, ManagerAssumption DEF ReachOf, TypeOK
  <2>8. \A u \in Broadcasts \ {t} :
          /\ TargetOf(u)' /\ ReachOf(u)'
          /\ at'[u] = "done" => \A v \in audience'[u] :
               u \in received'[v] \/ (v \in gone' /\ v \notin connections')
    BY <2>1, <2>3, OthersKept, ManagerAssumption DEF TypeOK
  <2> QED BY <2>3, <2>4, <2>6, <2>7, <2>8, AllKept
<1>6. CASE Cancel(t)
  <2>1. /\ at[t] = "sending" /\ running = None
        /\ at' = [at EXCEPT ![t] = "cancelled"] /\ pending' = [pending EXCEPT ![t] = {}]
        /\ UNCHANGED <<connections, filed, handler, of, gone, topic, dead, running, received, audience>>
    BY <1>6 DEF Cancel
  <2>2. TypeOK' /\ ServingInv' /\ Filed'
    BY <2>1 DEF TypeOK, ServingInv, Filed, Get
  <2>3. TargetOf(t)' /\ ReachOf(t)' /\ at'[t] # "done"
    BY <1>0, <2>1, ManagerAssumption DEF TargetOf, ReachOf, TypeOK
  <2>4. \A u \in Broadcasts \ {t} :
          /\ TargetOf(u)' /\ ReachOf(u)'
          /\ at'[u] = "done" => \A v \in audience'[u] :
               u \in received'[v] \/ (v \in gone' /\ v \notin connections')
    BY <2>1, OthersKept DEF TypeOK
  <2> QED BY <2>2, <2>3, <2>4, AllKept
<1> QED BY <1>1, <1>2, <1>3, <1>4, <1>5, <1>6 DEF BroadcastStep

----------------------------------------------------------------------------
(* The theorems. *)

\* The invariant holds initially.
LEMMA Initially == Init => MInv
BY ManagerAssumption
   DEF Init, MInv, TypeOK, ServingInv, Filed, Get, BroadcastInv, TargetOf, ReachOf, Delivered

\* The invariant is kept by every step.
LEMMA Inductive == MInv /\ [Next]_vars => MInv'
<1> SUFFICES ASSUME MInv, [Next]_vars PROVE MInv'
  OBVIOUS
<1>1. CASE UNCHANGED vars
  BY <1>1 DEF vars, registry, clients, broadcast, MInv, TypeOK, ServingInv, Filed, Get, BroadcastInv,
              TargetOf, ReachOf, Delivered
<1> QED BY <1>1, SocketKeeps, BroadcastKeeps DEF Next

\* The strengthened invariant holds in every reachable state.
THEOREM Invariance == Spec => []MInv
BY Initially, Inductive, PTL DEF Spec

\* The set and the dict agree, with any number of broadcasts sweeping and sockets coming
\* and going.
THEOREM RegistryIsFiled == Spec => []Filed
<1>1. MInv => Filed
  BY DEF MInv
<1> QED BY <1>1, Invariance, PTL

\* No client ever gets what was broadcast for another branch.
THEOREM BranchesAreIsolated == Spec => []BranchIsolation
<1>1. ASSUME MInv PROVE BranchIsolation
  <2>1. \A w \in Sockets : received[w] \subseteq Broadcasts
    BY <1>1 DEF MInv, TypeOK
  <2> QED BY <1>1, <2>1 DEF MInv, BroadcastInv, TargetOf, BranchIsolation
<1> QED BY <1>1, Invariance, PTL

\* A broadcast that ends has reached everybody it was for, but for clients that left and
\* that it has swept.
THEOREM BroadcastsAreDelivered == Spec => []Delivered
<1>1. MInv => Delivered
  BY DEF MInv
<1> QED BY <1>1, Invariance, PTL
----------------------------------------------------------------------------
(* Who is taken out of the registry. *)

\* Nobody is left behind: a socket whose handler has ended is in neither the set nor the
\* dict, whoever took it out first and with whatever branch.
EndedAreOut ==
  \A w \in Sockets : handler[w] = "ended" =>
    w \notin connections /\ \A b \in DOMAIN filed : w \notin filed[b]

\* Taken out once, by its handler, by a failing message or by a sweep, a socket never comes
\* back: no broadcast that took its targets before enters it again.
OutForGood ==
  [][\A w \in Sockets : handler[w] \in {"serving", "ended"} /\ w \notin connections
       => w \notin connections']_vars

\* disconnect is called for a socket by its handler and by whatever fails to reach it; the
\* handler's call is never too early or too late for the registration (manager.py 53-76).
THEOREM NobodyIsLeftBehind == Spec => []EndedAreOut
<1>1. ASSUME MInv PROVE EndedAreOut
  <2> SUFFICES ASSUME NEW w \in Sockets, handler[w] = "ended", NEW b \in DOMAIN filed
               PROVE  w \notin connections /\ w \notin filed[b]
    BY <1>1 DEF EndedAreOut, MInv, ServingInv
  <2>1. w \notin connections
    BY <1>1 DEF MInv, ServingInv
  <2>2. b \in Branches /\ Get(b) = filed[b]
    BY <1>1 DEF MInv, TypeOK, Get
  <2> QED BY <1>1, <2>1, <2>2 DEF MInv, Filed
<1> QED BY <1>1, Invariance, PTL

\* Only connect registers, once for each handler (manager.py 39-45).
THEOREM RemovedForGood == Spec => OutForGood
<1>1. ASSUME [Next]_vars, NEW w \in Sockets, handler[w] \in {"serving", "ended"},
             w \notin connections
      PROVE  w \notin connections'
  <2>1. CASE \E v \in Sockets : SocketStep(v)
    BY <1>1, <2>1
    DEF SocketStep, Accept, Register, Leave, EndHandler, PersonalMessageFails, Disconnect,
        registry
  <2>2. CASE \E t \in Broadcasts : BroadcastStep(t)
    BY <1>1, <2>2
    DEF BroadcastStep, Begin, Send, SendError, Sweep, Gathered, Cancel, Disconnect, registry
  <2>3. CASE UNCHANGED vars
    BY <1>1, <2>3 DEF vars, registry
  <2> QED BY <1>1, <2>1, <2>2, <2>3 DEF Next
<1>2. [Next]_vars =>
        [\A w \in Sockets : handler[w] \in {"serving", "ended"} /\ w \notin connections
           => w \notin connections']_vars
  BY <1>1
<1> QED BY <1>2, PTL DEF Spec, OutForGood
=================================================================================
