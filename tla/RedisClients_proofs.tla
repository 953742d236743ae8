------------------------------ MODULE RedisClients_proofs ------------------------------
(***************************************************************************)
(* Theorems about module RedisClients, for every number of event loops,    *)
(* addresses, pools and calls of close_redis.                              *)
(***************************************************************************)
EXTENDS RedisClients, TLAPS

----------------------------------------------------------------------------
(* The inductive invariant. *)

TypeInv ==
  /\ DOMAIN address \subseteq Loops
  /\ \A l \in DOMAIN address : address[l] \in Addresses
  /\ got \in [Loops -> SUBSET Nat]
  /\ bound \in Seq(Loops \cup {Zero})

\* What is in use under a key: the cached pool, the pool of the cached client, and those
\* of the clients the loop at that address was given.
Uses(k, p) ==
  \/ k \in DOMAIN pools /\ pools[k] = p
  \/ k \in DOMAIN clients /\ clients[k] = p
  \/ \E l \in Running : address[l] = k /\ p \in got[l]

\* Pools are numbered in the order of their creation.
CreatedInv == \A k, p : Uses(k, p) => p \in 1..Len(bound)

\* No pool is in use under two keys, and no two running loops have one key.
ExclusiveInv ==
  /\ \A k, j, p : Uses(k, p) /\ Uses(j, p) => k = j
  /\ \A l, m \in Running : address[l] = address[m] => l = m

\* While close_redis is between its two clears, every client is one made since the first.
CloseInv == closing = "pools" => DOMAIN clients \subseteq spared

RInv == TypeInv /\ CreatedInv /\ ExclusiveInv /\ CloseInv /\ PoolKnown

----------------------------------------------------------------------------

LEMMA Initially == Init => RInv
BY DEF Init, RInv, TypeInv, CreatedInv, ExclusiveInv, CloseInv, PoolKnown, Uses, Running, Empty

\* A loop starts where no running loop lives, with nothing of its own.
LEMMA StartKeeps ==
  ASSUME RInv, NEW l \in Loops, NEW a \in Addresses, StartLoop(l, a)
  PROVE  RInv'
<1> USE DEF RInv
<1>1. /\ l \notin Running /\ got[l] = {} /\ \A m \in Running : address[m] # a
      /\ Running' = Running \cup {l}
      /\ \A m \in Running' : address'[m] = IF m = l THEN a ELSE address[m]
      /\ UNCHANGED <<pools, clients, bound, got, spared, closing>>
  BY DEF StartLoop, Running, cache
<1>2. TypeInv'
  BY <1>1 DEF TypeInv, Running
<1>3. \A k, p : Uses(k, p)' => Uses(k, p)
  BY <1>1 DEF Uses
<1>4. CreatedInv' /\ ExclusiveInv' /\ CloseInv' /\ PoolKnown'
  BY <1>1, <1>3 DEF CreatedInv, ExclusiveInv, CloseInv, PoolKnown
<1> QED BY <1>2, <1>4

\* What an ended loop used is still under its address, as far as it is cached.
LEMMA EndKeeps ==
  ASSUME RInv, NEW l \in Loops, EndLoop(l)
  PROVE  RInv'
<1> USE DEF RInv
<1>1. /\ Running' = Running \ {l} /\ \A m \in Running' : address'[m] = address[m]
      /\ UNCHANGED <<pools, clients, bound, got, spared, closing>>
  BY DEF EndLoop, Running, cache
<1>2. TypeInv'
  BY <1>1 DEF TypeInv, Running
<1>3. \A k, p : Uses(k, p)' => Uses(k, p)
  BY <1>1 DEF Uses
<1>4. CreatedInv' /\ ExclusiveInv' /\ CloseInv' /\ PoolKnown'
  BY <1>1, <1>3 DEF CreatedInv, ExclusiveInv, CloseInv, PoolKnown
<1> QED BY <1>2, <1>4

\* A client is what is cached under the key, or a new pool that nobody else uses.
LEMMA ClientKeeps ==
  ASSUME RInv, NEW who \in Running \cup {Zero}, GetClient(who)
  PROVE  RInv'
<1> USE DEF RInv
<1> DEFINE k0   == Key(who)
           pool == IF k0 \in DOMAIN pools THEN pools[k0] ELSE Len(bound) + 1
           now  == IF k0 \in DOMAIN clients THEN clients[k0] ELSE pool
           kept == k0 \in DOMAIN clients \/ k0 \in DOMAIN pools
<1>1. /\ UNCHANGED <<address, closing>> /\ Running' = Running
      /\ clients' = Put(clients, k0, now)
      /\ got' = IF who = Zero THEN got ELSE [got EXCEPT ![who] = @ \cup {now}]
      /\ spared' = IF closing # "pools" THEN spared ELSE spared \cup {k0}
      /\ kept => UNCHANGED <<pools, bound>>
      /\ ~kept => pools' = Put(pools, k0, pool) /\ bound' = Append(bound, who)
  BY DEF GetClient, Running
<1>2. /\ DOMAIN clients' = DOMAIN clients \cup {k0}
      /\ \A k \in DOMAIN clients' : clients'[k] = IF k = k0 THEN now ELSE clients[k]
      /\ kept \/ /\ DOMAIN pools' = DOMAIN pools \cup {k0}
                 /\ \A k \in DOMAIN pools' : pools'[k] = IF k = k0 THEN now ELSE pools[k]
  BY <1>1 DEF Put
<1>3. Len(bound) \in Nat /\ (kept => Len(bound') = Len(bound))
      /\ (~kept => Len(bound') = Len(bound) + 1 /\ now = Len(bound) + 1)
  BY <1>1 DEF TypeInv
<1>4. kept => Uses(k0, now)
  BY DEF Uses
<1>5. now \in Nat
  BY <1>3, <1>4 DEF CreatedInv
<1>6. TypeInv'
  <2>1. who \in Loops \cup {Zero}
    BY DEF TypeInv, Running
  <2>2. bound' \in Seq(Loops \cup {Zero})
    BY <1>1, <2>1 DEF TypeInv
  <2>3. got' \in [Loops -> SUBSET Nat]
    BY <1>1, <1>5 DEF TypeInv
  <2> QED BY <1>1, <2>2, <2>3 DEF TypeInv
<1>7. ASSUME NEW k, NEW p, Uses(k, p)' PROVE Uses(k, p) \/ (k = k0 /\ p = now)
  <2>1. CASE k \in DOMAIN pools' /\ pools'[k] = p
    BY <1>1, <1>2, <2>1 DEF Uses
  <2>2. CASE k \in DOMAIN clients' /\ clients'[k] = p
    BY <1>2, <2>2 DEF Uses
  <2>3. CASE \E l \in Running : address[l] = k /\ p \in got'[l]
    <3>1. PICK l \in Running : address[l] = k /\ p \in got'[l]
      BY <2>3
    <3>2. CASE p \in got[l]
      BY <3>1, <3>2 DEF Uses
    <3>3. CASE p \notin got[l]
      <4>1. who # Zero /\ l = who /\ p = now
        BY <1>1, <3>1, <3>3 DEF TypeInv, Running
      <4>2. k = k0
        BY <3>1, <4>1 DEF Key
      <4> QED BY <4>1, <4>2
    <3> QED BY <3>2, <3>3
  <2> QED BY <1>1, <1>7, <2>1, <2>2, <2>3 DEF Uses
<1>8. CreatedInv'
  <2>1. \A k, p : Uses(k, p) => p \in 1..Len(bound')
    BY <1>3 DEF CreatedInv
  <2>2. now \in 1..Len(bound')
    BY <1>3, <1>4, <2>1
  <2> QED BY <1>7, <2>1, <2>2 DEF CreatedInv
<1>9. ExclusiveInv'
  <2>1. \A k : Uses(k, now) => k = k0
    <3>1. CASE kept
      BY <1>4, <3>1 DEF ExclusiveInv
    <3>2. CASE ~kept
      BY <1>3, <3>2 DEF CreatedInv
    <3> QED BY <3>1, <3>2
  <2>2. \A k, j, p : Uses(k, p)' /\ Uses(j, p)' => k = j
    <3> SUFFICES ASSUME NEW k, NEW j, NEW p, Uses(k, p)', Uses(j, p)' PROVE k = j
      OBVIOUS
    <3>1. Uses(k, p) \/ (k = k0 /\ p = now)
      BY <1>7
    <3>2. Uses(j, p) \/ (j = k0 /\ p = now)
      BY <1>7
    <3> QED BY <2>1, <3>1, <3>2 DEF ExclusiveInv
  <2> QED BY <1>1, <2>2 DEF ExclusiveInv
<1>10. CloseInv'
  BY <1>1, <1>2 DEF CloseInv
<1>11. PoolKnown'
  BY <1>1, <1>2 DEF PoolKnown
<1> QED BY <1>6, <1>8, <1>9, <1>10, <1>11

\* The steps of close_redis only take pools and clients out of the caches.
LEMMA CloseKeeps ==
  ASSUME RInv, BeginClose \/ ClearClients \/ ClearPools \/ \E k \in Keys : Closed(k)
  PROVE  RInv'
<1> USE DEF RInv
<1>1. /\ UNCHANGED <<address, bound, got>> /\ Running' = Running
      /\ pools' \in {pools, Empty} /\ clients' \in {clients, Empty}
  BY DEF BeginClose, ClearClients, ClearPools, Closed, Running, cache
<1>2. TypeInv'
  BY <1>1 DEF TypeInv
<1>3. DOMAIN Empty = {}
  BY DEF Empty
<1>4. \A k, p : Uses(k, p)' => Uses(k, p)
  BY <1>1, <1>3 DEF Uses
<1>5. CreatedInv' /\ ExclusiveInv'
  BY <1>1, <1>4 DEF CreatedInv, ExclusiveInv
<1>6. CloseInv' /\ PoolKnown'
  BY <1>3 DEF BeginClose, ClearClients, ClearPools, Closed, cache, CloseInv, PoolKnown
<1> QED BY <1>2, <1>5, <1>6

LEMMA Inductive == RInv /\ [Next]_vars => RInv'
<1> SUFFICES ASSUME RInv, [Next]_vars PROVE RInv'
  OBVIOUS
<1>1. CASE \E l \in Loops : EndLoop(l) \/ \E a \in Addresses : StartLoop(l, a)
  BY <1>1, StartKeeps, EndKeeps
<1>2. CASE \E who \in Running \cup {Zero} : GetClient(who)
  BY <1>2, ClientKeeps
<1>3. CASE BeginClose \/ ClearClients \/ ClearPools \/ \E k \in Keys : Closed(k)
  BY <1>3, CloseKeeps
<1>4. CASE UNCHANGED vars
  BY <1>4 DEF vars, cache, RInv, TypeInv, CreatedInv, ExclusiveInv, CloseInv, PoolKnown, Uses,
              Running
<1> QED BY <1>1, <1>2, <1>3, <1>4 DEF Next

----------------------------------------------------------------------------

\* The invariant holds of every execution.
THEOREM Invariance == Spec => []RInv
BY Initially, Inductive, PTL DEF Spec

\* Loops that run at the same time never hold clients on the same connections.
THEOREM LoopsDoNotShare == Spec => []NoSharing
<1>1. ASSUME RInv PROVE NoSharing
  <2> SUFFICES ASSUME NEW l \in Running, NEW m \in Running, l # m,
                      NEW p, p \in got[l], p \in got[m]
               PROVE  FALSE
    BY DEF NoSharing
  <2>1. Uses(address[l], p) /\ Uses(address[m], p)
    BY DEF Uses
  <2> QED BY <1>1, <2>1 DEF RInv, ExclusiveInv
<1> QED BY <1>1, Invariance, PTL

\* close_redis finds the pool of every client but those made between its two clears.
THEOREM PoolsAreKnown == Spec => []PoolKnown
<1>1. RInv => PoolKnown
  BY DEF RInv
<1> QED BY <1>1, Invariance, PTL

----------------------------------------------------------------------------

\* When close_redis returns, no pool is cached any more, and no client but those that were
\* made between its two clears (redis.py 87-94).
ClosesThemAll ==
  [][closing = "pools" /\ closing' = "no" =>
       pools' = Empty /\ DOMAIN clients' \subseteq spared']_vars

\* Before the first close_redis a loop is given one client however often it asks ("bound to
\* the current event loop", redis.py 39), also at an address that others had before it.
OneClientPerLoop == closes = 0 => \A l \in Loops : \A p, q \in got[l] : p = q

\* Whatever is asked for while close_redis waits.
THEOREM CloseIsComplete == Spec => ClosesThemAll
<1>1. ASSUME RInv, [Next]_vars, closing = "pools", closing' = "no"
      PROVE  pools' = Empty /\ DOMAIN clients' \subseteq spared'
  <2>1. ClearPools
    BY <1>1
    DEF Next, vars, EndLoop, StartLoop, GetClient, BeginClose, ClearClients, Closed
  <2> QED BY <1>1, <2>1 DEF ClearPools, RInv, CloseInv
<1>2. RInv /\ [Next]_vars =>
        [closing = "pools" /\ closing' = "no" =>
           pools' = Empty /\ DOMAIN clients' \subseteq spared']_vars
  BY <1>1
<1> QED BY <1>2, Invariance, PTL DEF Spec, ClosesThemAll

\* Until the caches are cleared, the client a running loop was given is the cached one.
GivenInv ==
  /\ closes \in Nat
  /\ closes = 0 =>
       /\ closing = "no"
       /\ \A l \in Loops : \A p, q \in got[l] : p = q
       /\ \A l \in Running : \A p \in got[l] :
            address[l] \in DOMAIN clients /\ clients[address[l]] = p

\* get_redis_client answers from the cache of the loop's address (redis.py 42-51).
THEOREM OneClientEach == Spec => []OneClientPerLoop
<1>1. Init => GivenInv
  <2>1. Init => closes = 0 /\ Running = {} /\ got = [l \in Loops |-> {}] /\ closing = "no"
    BY DEF Init, Running
  <2> QED BY <2>1 DEF GivenInv
<1>2. ASSUME RInv, GivenInv, [Next]_vars PROVE GivenInv'
  <2>1. ASSUME NEW l \in Loops, NEW a \in Addresses, StartLoop(l, a) PROVE GivenInv'
    BY <2>1, <1>2 DEF StartLoop, GivenInv, Running, cache
  <2>2. ASSUME NEW l \in Loops, EndLoop(l) PROVE GivenInv'
    BY <2>2, <1>2 DEF EndLoop, GivenInv, Running, cache
  <2>3. ASSUME NEW who \in Running \cup {Zero}, GetClient(who), closes = 0 PROVE GivenInv'
    <3> DEFINE k    == Key(who)
               pool == IF k \in DOMAIN pools THEN pools[k] ELSE Len(bound) + 1
               now  == IF k \in DOMAIN clients THEN clients[k] ELSE pool
    <3>1. /\ clients' = Put(clients, k, now)
          /\ got' = IF who = Zero THEN got ELSE [got EXCEPT ![who] = @ \cup {now}]
          /\ UNCHANGED <<address, closing, closes>> /\ Running' = Running
      BY <2>3 DEF GetClient, Running
    <3>2. k \in DOMAIN clients => now = clients[k]
      OBVIOUS
    <3> HIDE DEF now, k
    <3>3. /\ DOMAIN clients' = DOMAIN clients \cup {k} /\ clients'[k] = now
          /\ \A j \in DOMAIN clients : clients'[j] = clients[j]
      BY <3>1, <3>2 DEF Put
    <3>4. who # Zero => who \in Running /\ k = address[who] /\ who \in Loops
      BY <1>2, <2>3 DEF k, Key, RInv, TypeInv, Running
    <3>5. \A l \in Loops : got'[l] \in {got[l], got[l] \cup {now}}
                           /\ (got'[l] # got[l] => l = who /\ who # Zero)
      BY <1>2, <3>1 DEF RInv, TypeInv
    <3>6. \A p \in got[who] : who # Zero => p = now
      BY <1>2, <2>3, <3>2, <3>4 DEF GivenInv
    <3>7. \A l \in Loops : \A p, q \in got'[l] : p = q
      BY <1>2, <2>3, <3>5, <3>6 DEF GivenInv
    <3>8. ASSUME NEW l \in Running, NEW p \in got'[l]
          PROVE  address[l] \in DOMAIN clients' /\ clients'[address[l]] = p
      <4>1. l \in Loops
        BY <1>2 DEF RInv, TypeInv, Running
      <4>2. CASE p \in got[l]
        BY <1>2, <2>3, <3>3, <4>2 DEF GivenInv
      <4>3. CASE p \notin got[l]
        BY <3>3, <3>4, <3>5, <3>8, <4>1, <4>3
      <4> QED BY <4>2, <4>3
    <3> QED BY <1>2, <2>3, <3>1, <3>7, <3>8 DEF GivenInv
  <2>4. ASSUME closes # 0 \/ BeginClose PROVE GivenInv'
    <3>1. closes' = closes + 1 \/ (closes' = closes /\ closes # 0)
      BY <1>2, <2>4
      DEF Next, vars, EndLoop, StartLoop, GetClient, BeginClose, ClearClients, ClearPools,
          Closed
    <3>2. closes' \in Nat /\ closes' # 0
      BY <1>2, <3>1 DEF GivenInv
    <3> QED BY <3>2 DEF GivenInv
  <2>5. CASE ClearClients \/ ClearPools \/ \E k \in Keys : Closed(k)
    BY <1>2, <2>5 DEF ClearClients, ClearPools, Closed, GivenInv
  <2>6. CASE UNCHANGED vars
    BY <1>2, <2>6 DEF vars, cache, GivenInv, Running
  <2> QED BY <1>2, <2>1, <2>2, <2>3, <2>4, <2>5, <2>6 DEF Next
<1>3. GivenInv => OneClientPerLoop
  BY DEF GivenInv, OneClientPerLoop
<1> QED BY <1>1, <1>2, <1>3, Invariance, PTL DEF Spec
========================================================================================
