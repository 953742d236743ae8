------------------------------- MODULE MCPagination -------------------------------
(***************************************************************************)
(* Small instance of module Pagination.                                    *)
(***************************************************************************)
EXTENDS Pagination, TLC

Symmetric == Permutations(Uuids)
===================================================================================
