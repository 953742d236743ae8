---------------------------- MODULE MCDashboardStream ----------------------------
(***************************************************************************)
(* Small instances of module DashboardStream: handshakes for TLC.          *)
(***************************************************************************)
EXTENDS DashboardStreamInvariant, TLC

Ask(ok, t, b) == [originAllowed |-> ok, ticket |-> t, branch |-> b]

\* Every ticket for every kind of branch; no ticket, a foreign origin.
AnyBranch  == {Ask(TRUE, t, b) : t \in Tickets, b \in Names \cup {Blank, None}}
AnyRequest == AnyBranch \cup {Ask(TRUE, None, Global)} \cup {Ask(FALSE, t, Global) : t \in Tickets}

Symmetric == Permutations(Conns) \cup Permutations(Tickets)
==================================================================================
