---------------------------- MODULE MCDashboardReport ----------------------------
(***************************************************************************)
(* Small instances of module DashboardReport: six instants a day, buckets  *)
(* of one, two and three of them, and the rows TLC puts in the table.      *)
(***************************************************************************)
EXTENDS DashboardReport, TLC

MCIntervals == [fine |-> 1, middle |-> 2, wide |-> 3]

Visit(from, to, mood, left, branch) ==
  [entry_time |-> from, exit_time |-> to, enter_emotion |-> mood, exit_emotion |-> left,
   branch_id |-> branch]

\* For date 2, which lasts from 12 to 17: two days before, the last instant of the day
\* before, the first instants of the day, its middle and its last one.
MCInstants == {5, 11, 12, 13, 15, 17}

\* A day's rows as the ingestion leaves them: entries, exits, rows without an entry time,
\* carried over from the day before, dated before their entry, moods in every spelling.
MCVisits ==
  {Visit(13, NULL, "Neutral", NULL, NULL), Visit(13, 15, "Neutral", "anger", NULL),
   Visit(11, NULL, "anger", NULL, NULL), Visit(11, 12, "anger", "natural", NULL),
   Visit(11, 5, "anger", "natural", NULL), Visit(11, 17, NULL, NULL, NULL),
   Visit(NULL, 15, NULL, "natural", NULL), Visit(NULL, NULL, NULL, NULL, NULL),
   Visit(15, 13, "natural", "happy", NULL), Visit(15, 15, NULL, NULL, NULL),
   Visit(12, 13, NULL, NULL, NULL), Visit(15, 17, NULL, NULL, NULL),
   Visit(5, 13, NULL, NULL, NULL), Visit(5, NULL, NULL, NULL, NULL),
   Visit(12, NULL, NULL, NULL, NULL), Visit(12, 17, NULL, NULL, NULL),
   Visit(17, NULL, NULL, NULL, NULL), Visit(13, 15, "Neutral", "anger", "b1")}

Day2 == [branch_id |-> None, date |-> 2, bucket |-> None]
OfBranch == [branch_id |-> "b1", date |-> None, bucket |-> "fine"]
MCRequests == {Day2, OfBranch}

Symmetric == Permutations(Uuids)
===================================================================================
