----------------------------- MODULE TicketAuthority -----------------------------
(***************************************************************************)
(* What a streaming ticket promises: it is issued for one resource, opens  *)
(* at most one connection, only one that asked for that resource, and not  *)
(* after it lapsed.  Module DashboardStream is shown to implement this.    *)
(***************************************************************************)
CONSTANTS
  Tickets,   \* ticket strings
  Conns,     \* WebSocket connections
  Names,     \* the resources a ticket can be issued for
  Unissued,  \* a ticket that was not issued
  Nobody     \* a ticket no connection has redeemed

VARIABLES
  issued,    \* the resource a ticket was issued for
  valid,     \* the tickets that can be redeemed
  holder,    \* the connection that redeemed a ticket
  admitted   \* pairs of a connection and the resource it was let in for

authorityVars == <<issued, valid, holder, admitted>>

AuthorityInit ==
  /\ issued = [t \in Tickets |-> Unissued]
  /\ valid = {}
  /\ holder = [t \in Tickets |-> Nobody]
  /\ admitted = {}

Issue(t, r) ==
  /\ issued[t] = Unissued
  /\ issued' = [issued EXCEPT ![t] = r]
  /\ valid' = valid \cup {t}
  /\ UNCHANGED <<holder, admitted>>

\* The ticket expires, or is lost with a redemption whose answer did not arrive.
Lapse(t) ==
  /\ t \in valid /\ valid' = valid \ {t}
  /\ UNCHANGED <<issued, holder, admitted>>

Claim(t, c) ==
  /\ t \in valid /\ valid' = valid \ {t}
  /\ \A u \in Tickets : holder[u] # c
  /\ holder' = [holder EXCEPT ![t] = c]
  /\ UNCHANGED <<issued, admitted>>

Admit(t, c) ==
  /\ holder[t] = c
  /\ \A p \in admitted : p[1] # c
  /\ admitted' = admitted \cup {<<c, issued[t]>>}
  /\ UNCHANGED <<issued, valid, holder>>

AuthorityNext ==
  \E t \in Tickets :
    \/ \E r \in Names : Issue(t, r)
    \/ Lapse(t)
    \/ \E c \in Conns : Claim(t, c) \/ Admit(t, c)

AuthoritySpec == AuthorityInit /\ [][AuthorityNext]_authorityVars
==================================================================================
