-------------------------------- MODULE RedisClients --------------------------------
(***************************************************************************)
(* The Redis clients and connection pools of a process (app/core/redis.py).*)
(* Both are cached under the identity of the running event loop, id(loop), *)
(* which is an address: after a loop is collected another loop may get it. *)
(* close_redis() awaits between reading the caches and clearing them, and  *)
(* meanwhile its own loop and others go on asking for clients.             *)
(***************************************************************************)
EXTENDS Naturals, Sequences, FiniteSets

CONSTANTS
  Loops,      \* event loops, over the life of the process
  Addresses,  \* what id() may return
  Zero,       \* the key used without a running loop
  MaxPools,   \* bound: pools created
  MaxCloses   \* bound: calls of close_redis

ASSUME RedisAssumption ==
  /\ Zero \notin Addresses /\ Zero \notin Loops
  /\ MaxPools \in Nat /\ MaxCloses \in Nat

VARIABLES
  address,  \* where a running loop lives
  pools,    \* _pools_by_loop: the pool under each key
  clients,  \* _clients_by_loop: the pool of the client under each key
  bound,    \* history: the loop, or Zero, each pool was created under
  got,      \* history: the pools of the clients each loop was given while it runs
  spared,   \* history: the keys asked for between the two clears of close_redis
  closing,  \* the await close_redis is at
  todo,     \* the keys of its list that it has not come to
  closes    \* bound: how often close_redis was called

cache == <<pools, clients>>
vars  == <<address, cache, bound, got, spared, closing, todo, closes>>

Keys  == Addresses \cup {Zero}
Empty == [k \in {} |-> 0]

Init ==
  /\ address = [l \in {} |-> Zero]
  /\ pools = Empty /\ clients = Empty
  /\ bound = <<>>
  /\ got = [l \in Loops |-> {}]
  /\ spared = {} /\ closing = "no" /\ todo = {} /\ closes = 0

Running == DOMAIN address

\* asyncio.run or a TestClient starts a loop, at an address no running loop has.
StartLoop(l, a) ==
  /\ l \notin Running /\ got[l] = {}
  /\ \A m \in Running : address[m] # a
  /\ address' = [m \in Running \cup {l} |-> IF m = l THEN a ELSE address[m]]
  /\ UNCHANGED <<cache, bound, got, spared, closing, todo, closes>>

\* The loop ends and is collected.  Nobody takes its client out of the caches.
EndLoop(l) ==
  /\ l \in Running
  /\ address' = [m \in Running \ {l} |-> address[m]]
  /\ UNCHANGED <<cache, bound, got, spared, closing, todo, closes>>

\* Mutant: one client for the process.
KeyShared(who) == Zero

\* id(asyncio.get_running_loop()), or 0.
Key(who) == IF who = Zero THEN Zero ELSE address[who]

Put(dict, k, v) == [j \in DOMAIN dict \cup {k} |-> IF j = k THEN v ELSE dict[j]]

\* get_redis_client, called on a loop or without one; a missing pool is created first.
GetClient(who) ==
  LET k    == Key(who)
      pool == IF k \in DOMAIN pools THEN pools[k] ELSE Len(bound) + 1
      now  == IF k \in DOMAIN clients THEN clients[k] ELSE pool
  IN  /\ IF k \in DOMAIN clients \/ k \in DOMAIN pools THEN UNCHANGED <<pools, bound>>
         ELSE /\ Len(bound) < MaxPools
              /\ pools' = Put(pools, k, pool)
              /\ bound' = Append(bound, who)
      /\ clients' = Put(clients, k, now)
      /\ got' = IF who = Zero THEN got ELSE [got EXCEPT ![who] = @ \cup {now}]
      /\ spared' = IF closing # "pools" THEN spared ELSE spared \cup {k}
      /\ UNCHANGED <<address, closing, todo, closes>>

\* close_redis: for each client of the list made first, aclose().
BeginClose ==
  /\ closing = "no" /\ closes < MaxCloses
  /\ closing' = "clients" /\ todo' = DOMAIN clients
  /\ closes' = closes + 1
  /\ UNCHANGED <<address, cache, bound, got, spared>>

\* One await of either loop returns or raises, which is logged.
Closed(k) ==
  /\ closing # "no" /\ k \in todo
  /\ todo' = todo \ {k}
  /\ UNCHANGED <<address, cache, bound, got, spared, closing, closes>>

\* Mutant: the clients stay in their cache.
ClearClientsForgotten ==
  /\ closing = "clients" /\ todo = {}
  /\ closing' = "pools" /\ todo' = DOMAIN pools /\ spared' = {}
  /\ UNCHANGED <<address, cache, bound, got, closes>>

ClearClients ==
  /\ closing = "clients" /\ todo = {}
  /\ clients' = Empty
  /\ closing' = "pools" /\ todo' = DOMAIN pools /\ spared' = {}
  /\ UNCHANGED <<address, pools, bound, got, closes>>

ClearPools ==
  /\ closing = "pools" /\ todo = {}
  /\ pools' = Empty
  /\ closing' = "no"
  /\ UNCHANGED <<address, clients, bound, got, spared, todo, closes>>

Next ==
  \/ \E l \in Loops : EndLoop(l) \/ \E a \in Addresses : StartLoop(l, a)
  \/ \E who \in Running \cup {Zero} : GetClient(who)
  \/ BeginClose \/ ClearClients \/ ClearPools
  \/ \E k \in Keys : Closed(k)

Spec == Init /\ [][Next]_vars

----------------------------------------------------------------------------

\* Two loops that run at the same time never hold clients on the same connections,
\* however often the caches were closed and addresses given away in between.  ("Bound to
\* the current event loop", redis.py 39, is more than that: a loop that is given the
\* address of one that has ended finds the client of that one.)
NoSharing ==
  \A l, m \in Running : l # m => got[l] \cap got[m] = {}

\* The pool of a cached client is the cached pool of its loop, so that close_redis finds
\* and disconnects it.  Only a client made between the two clears of close_redis keeps a
\* pool that the cache has forgotten (redis.py 87-94).
PoolKnown ==
  \A k \in DOMAIN clients : k \in spared \/ (k \in DOMAIN pools /\ pools[k] = clients[k])
=====================================================================================
