------------------------------- MODULE MCRedisClients -------------------------------
(***************************************************************************)
(* Small instance of module RedisClients.                                  *)
(***************************************************************************)
EXTENDS RedisClients, TLC

Symmetric == Permutations(Loops) \cup Permutations(Addresses)
=====================================================================================
