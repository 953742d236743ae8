----------------------------- MODULE ConnectionManager -----------------------------
(***************************************************************************)
(* The in-process registry of WebSockets (app/websocket/manager.py): a set *)
(* of connections, a dict from branches to sets of connections, and        *)
(* broadcasts that send to the members they found and then remove those    *)
(* whose send failed.                                                      *)
(*                                                                         *)
(* Everything runs on one event loop.  The lock is never held across an    *)
(* await, so it is never contended; what runs between two awaits is        *)
(* atomic.  The sweep at the end of a broadcast is a loop without an       *)
(* await: while it runs nothing else does.                                 *)
(***************************************************************************)
EXTENDS Naturals, FiniteSets

CONSTANTS
  Sockets,     \* WebSockets
  Branches,    \* branch identifiers
  Broadcasts,  \* calls of broadcast, each with one message
  None         \* Python's None, or an empty string: no branch

ASSUME ManagerAssumption ==
  /\ None \notin Branches /\ None \notin Broadcasts
  /\ IsFiniteSet(Sockets)

VARIABLES
  connections,  \* _connections
  filed,        \* _branch_connections: a function whose domain are the dict's keys
  handler,      \* what the handler of a socket does
  of,           \* the branch a handler passes to connect
  gone,         \* sockets whose client left, or that were closed
  at,           \* the await each broadcast is at
  topic,        \* its branch_id
  pending,      \* its sends, then its removals, that are not done
  dead,         \* dead_connections
  running,      \* the broadcast whose sweep keeps the event loop, or None
  received,     \* history: the broadcasts a socket got
  audience      \* history: who was registered for it when a broadcast took its targets

registry  == <<connections, filed>>
clients   == <<handler, of, gone>>
broadcast == <<at, topic, pending, dead>>
vars == <<registry, clients, broadcast, running, received, audience>>

Init ==
  /\ connections = {} /\ filed = [b \in {} |-> {}]
  /\ handler = [w \in Sockets |-> "new"] /\ of = [w \in Sockets |-> None]
  /\ gone = {}
  /\ at = [t \in Broadcasts |-> "idle"] /\ topic = [t \in Broadcasts |-> None]
  /\ pending = [t \in Broadcasts |-> {}] /\ dead = [t \in Broadcasts |-> {}]
  /\ running = None
  /\ received = [w \in Sockets |-> {}]
  /\ audience = [t \in Broadcasts |-> {}]

----------------------------------------------------------------------------
(* The dict. *)

Get(b) == IF b \in DOMAIN filed THEN filed[b] ELSE {}

With(w, b) == [k \in DOMAIN filed \cup {b} |-> Get(k) \cup (IF k = b THEN {w} ELSE {})]

\* discard from the sets of the branches bs; a set that is empty then is deleted.
Without(w, bs) ==
  LET left == [k \in DOMAIN filed |-> IF k \in bs THEN filed[k] \ {w} ELSE filed[k]]
  IN  [k \in {b \in DOMAIN filed : b \in bs => left[b] # {}} |-> left[k]]

\* Mutant: only the set of the branch that was passed.
DisconnectNamed(w, b) ==
  /\ connections' = connections \ {w}
  /\ filed' = Without(w, {b})

\* disconnect(websocket, branch_id): a branch without a set is as no branch, then all
\* sets are searched.
Disconnect(w, b) ==
  /\ connections' = connections \ {w}
  /\ filed' = Without(w, IF b \in DOMAIN filed THEN {b} ELSE DOMAIN filed)

\* Mutant: the members of the branch only.
TargetsNamed(b) == IF b = None THEN connections ELSE Get(b)

\* Mutant: whoever is not in the branch's set is taken for a global subscriber.
TargetsLoose(b) == connections

\* A branch's members and the global subscribers, which are in no branch's set.
Targets(b) ==
  IF b = None THEN connections
  ELSE Get(b) \cup (connections \ UNION {filed[k] : k \in DOMAIN filed})

----------------------------------------------------------------------------
(* The sockets and their handlers. *)

\* websocket.accept() of connect(websocket, branch_id) succeeded.
Accept(w, b) ==
  /\ running = None /\ handler[w] = "new"
  /\ handler' = [handler EXCEPT ![w] = "accepted"]
  /\ of' = [of EXCEPT ![w] = b]
  /\ UNCHANGED <<registry, gone, broadcast, running, received, audience>>

\* Mutant: a branch's socket is entered in the dict alone.
RegisterBranchOnly(w) ==
  /\ running = None /\ handler[w] = "accepted"
  /\ handler' = [handler EXCEPT ![w] = "serving"]
  /\ connections' = IF of[w] = None THEN connections \cup {w} ELSE connections
  /\ filed' = IF of[w] = None THEN filed ELSE With(w, of[w])
  /\ UNCHANGED <<of, gone, broadcast, running, received, audience>>

\* The rest of connect; the client may have left since accept().
Register(w) ==
  /\ running = None /\ handler[w] = "accepted"
  /\ handler' = [handler EXCEPT ![w] = "serving"]
  /\ connections' = connections \cup {w}
  /\ filed' = IF of[w] = None THEN filed ELSE With(w, of[w])
  /\ UNCHANGED <<of, gone, broadcast, running, received, audience>>

Leave(w) ==
  /\ running = None /\ handler[w] # "new" /\ w \notin gone
  /\ gone' = gone \cup {w}
  /\ UNCHANGED <<registry, handler, of, broadcast, running, received, audience>>

\* The handler ends and calls disconnect, with its branch or without.
EndHandler(w) ==
  /\ running = None /\ handler[w] = "serving"
  /\ handler' = [handler EXCEPT ![w] = "ended"]
  /\ gone' = gone \cup {w}
  /\ \E b \in {None, of[w]} : Disconnect(w, b)
  /\ UNCHANGED <<of, broadcast, running, received, audience>>

\* send_personal_message fails and takes the socket out; when it succeeds nothing changes.
PersonalMessageFails(w) ==
  /\ running = None /\ handler[w] \in {"accepted", "serving"} /\ w \in gone
  /\ Disconnect(w, None)
  /\ UNCHANGED <<clients, broadcast, running, received, audience>>

----------------------------------------------------------------------------
(* broadcast(message, branch_id) *)

\* The two early returns end the call; otherwise all sends are started.
Begin(t, b) ==
  /\ running = None /\ at[t] = "idle"
  /\ topic' = [topic EXCEPT ![t] = b]
  /\ pending' = [pending EXCEPT ![t] = IF connections = {} THEN {} ELSE Targets(b)]
  /\ at' = [at EXCEPT ![t] = IF pending'[t] = {} THEN "done" ELSE "sending"]
  /\ audience' = [audience EXCEPT ![t] =
                    {w \in connections : b = None \/ of[w] \in {None, b}}]
  /\ UNCHANGED <<registry, clients, dead, running, received>>

Send(t, w) ==
  /\ running = None /\ at[t] = "sending" /\ w \in pending[t]
  /\ pending' = [pending EXCEPT ![t] = @ \ {w}]
  /\ received' = [received EXCEPT ![w] = @ \cup {t}]
  /\ UNCHANGED <<registry, clients, at, topic, dead, running, audience>>

\* Mutant: the first error ends all sends.
SendErrorRaises(t, w) ==
  /\ running = None /\ at[t] = "sending" /\ w \in pending[t] /\ w \in gone
  /\ pending' = [pending EXCEPT ![t] = {}]
  /\ dead' = [dead EXCEPT ![t] = @ \cup {w}]
  /\ UNCHANGED <<registry, clients, at, topic, running, received, audience>>

SendError(t, w) ==
  /\ running = None /\ at[t] = "sending" /\ w \in pending[t] /\ w \in gone
  /\ pending' = [pending EXCEPT ![t] = @ \ {w}]
  /\ dead' = [dead EXCEPT ![t] = @ \cup {w}]
  /\ UNCHANGED <<registry, clients, at, topic, running, received, audience>>

\* gather() is over: the sweep begins when there is somebody to remove.
Gathered(t) ==
  /\ running = None /\ at[t] = "sending" /\ pending[t] = {}
  /\ pending' = [pending EXCEPT ![t] = dead[t]]
  /\ IF dead[t] = {} THEN at' = [at EXCEPT ![t] = "done"] /\ UNCHANGED running
     ELSE at' = [at EXCEPT ![t] = "sweeping"] /\ running' = t
  /\ UNCHANGED <<registry, clients, topic, dead, received, audience>>

\* One round of the loop: disconnect(dead_ws, branch_id), whatever set dead_ws is in.
Sweep(t, w) ==
  /\ running = t /\ w \in pending[t]
  /\ pending' = [pending EXCEPT ![t] = @ \ {w}]
  /\ Disconnect(w, topic[t])
  /\ IF pending'[t] # {} THEN UNCHANGED <<at, running>>
     ELSE at' = [at EXCEPT ![t] = "done"] /\ running' = None
  /\ UNCHANGED <<clients, topic, dead, received, audience>>

\* The task that broadcasts is cancelled while it waits for the sends.
Cancel(t) ==
  /\ running = None /\ at[t] = "sending"
  /\ at' = [at EXCEPT ![t] = "cancelled"]
  /\ pending' = [pending EXCEPT ![t] = {}]
  /\ UNCHANGED <<registry, clients, topic, dead, running, received, audience>>

----------------------------------------------------------------------------

SocketStep(w) ==
  \/ \E b \in Branches \cup {None} : Accept(w, b)
  \/ Register(w) \/ Leave(w) \/ EndHandler(w) \/ PersonalMessageFails(w)

BroadcastStep(t) ==
  \/ \E b \in Branches \cup {None} : Begin(t, b)
  \/ \E w \in Sockets : Send(t, w) \/ SendError(t, w) \/ Sweep(t, w)
  \/ Gathered(t) \/ Cancel(t)

Next == (\E w \in Sockets : SocketStep(w)) \/ (\E t \in Broadcasts : BroadcastStep(t))

Spec == Init /\ [][Next]_vars

----------------------------------------------------------------------------

\* Type invariant.
TypeOK ==
  /\ connections \subseteq Sockets
  /\ DOMAIN filed \subseteq Branches /\ filed \in [DOMAIN filed -> SUBSET Sockets]
  /\ handler \in [Sockets -> {"new", "accepted", "serving", "ended"}]
  /\ of \in [Sockets -> Branches \cup {None}]
  /\ gone \subseteq Sockets
  /\ at \in [Broadcasts -> {"idle", "sending", "sweeping", "done", "cancelled"}]
  /\ topic \in [Broadcasts -> Branches \cup {None}]
  /\ pending \in [Broadcasts -> SUBSET Sockets] /\ dead \in [Broadcasts -> SUBSET Sockets]
  /\ running \in Broadcasts \cup {None}
  /\ received \in [Sockets -> SUBSET Broadcasts]
  /\ audience \in [Broadcasts -> SUBSET Sockets]

\* The set and the dict say the same, whoever removed sockets and with whatever branch:
\* a registered socket is in the set of its own branch and in no other, a socket that
\* was removed is in none, and no empty set is kept for a branch without clients.
Filed ==
  /\ \A b \in DOMAIN filed : filed[b] # {}
  /\ \A w \in Sockets : \A b \in Branches :
       w \in Get(b) <=> w \in connections /\ of[w] = b

\* A client of one branch never gets what is broadcast for another (manager.py 117-126),
\* also when it registers or leaves while broadcasts are under way.
BranchIsolation ==
  \A w \in Sockets : \A t \in received[w] : topic[t] = None \/ of[w] \in {None, topic[t]}

\* A broadcast that ends has reached everybody registered for it when it began, except
\* clients that left, and those it has taken out of the registry: broken sockets do not
\* interrupt the delivery to others (docstring, manager.py 105-106), and none of them
\* stays or comes back.
Delivered ==
  \A t \in Broadcasts : at[t] = "done" =>
    \A w \in audience[t] : t \in received[w] \/ (w \in gone /\ w \notin connections)
=====================================================================================
