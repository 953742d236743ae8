--------------------------- MODULE MCConnectionManager ---------------------------
(***************************************************************************)
(* Small instance of module ConnectionManager.                             *)
(***************************************************************************)
EXTENDS ConnectionManager, TLC

Symmetric == Permutations(Sockets) \cup Permutations(Branches) \cup Permutations(Broadcasts)
==================================================================================
