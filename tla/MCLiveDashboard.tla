------------------------------ MODULE MCLiveDashboard ------------------------------
(***************************************************************************)
(* Small instances of module LiveDashboard.                                *)
(***************************************************************************)
EXTENDS LiveDashboard, TLC

\* A customer enters: every detection of these instances is stored.
Enter ==
  [c \in {"entry_time", "entry_count", "enter_emotion",
          "exit_time", "exit_count", "exit_emotion"} |->
     IF c = "entry_count" THEN "n1" ELSE Empty]
Entries == {Enter}

Ask(b) == [originAllowed |-> TRUE, ticket |-> CHOOSE t \in Tickets : TRUE, branch |-> b]
AskGlobal == {Ask(None)}
====================================================================================
