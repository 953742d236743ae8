------------------------------- MODULE Analytics -------------------------------
(***************************************************************************)
(* What app/analytics/service.py computes from the entries table.  Each    *)
(* operator is one SQL statement over one state of the table; the six      *)
(* statements of a dashboard, and what is committed between them, are in   *)
(* module DashboardReport.                                                 *)
(*                                                                         *)
(* Instants are integers; a day has Day of them, and a bucket lasts some   *)
(* of them.  A table is a function from uuids to rows or NoRow.            *)
(***************************************************************************)
EXTENDS Integers, Sequences, FiniteSets, SequencesExt

CONSTANTS
  Instants,      \* the instants of entries and exits
  Day,           \* instants in a day
  Emotions,      \* emotion labels, as the ML service spells them
  NaturalWords,  \* those that lower() makes 'natural' or 'neutral'
  AngryWords,    \* those that lower() makes 'angry' or 'anger'
  Branches,      \* branch identifiers
  Intervals,     \* the bucket names that are understood, with their length
  Hour,          \* the length of one hour
  NULL,          \* SQL NULL
  None,          \* Python's None: no branch filter
  NoRow          \* a uuid that is not in the table

ASSUME AnalyticsAssumption ==
  /\ Instants \subseteq Nat /\ Day \in Nat \ {0} /\ Hour \in 1..Day
  /\ NaturalWords \cup AngryWords \subseteq Emotions /\ NaturalWords \cap AngryWords = {}
  /\ \A b \in DOMAIN Intervals : Intervals[b] \in 1..Day
  /\ NULL \notin Instants /\ NULL \notin Emotions /\ NULL \notin Branches
  /\ None \notin Branches

Row == [entry_time : Instants \cup {NULL}, exit_time : Instants \cup {NULL},
        enter_emotion : Emotions \cup {NULL}, exit_emotion : Emotions \cup {NULL},
        branch_id : Branches \cup {NULL}]

\* datetime.combine(target_date, time.min) and time.max, both included in BETWEENs.
StartOf(date) == date * Day
EndOf(date)   == date * Day + Day - 1
InDay(t, date) == t # NULL /\ StartOf(date) <= t /\ t <= EndOf(date)

\* The rows a query looks at: every statement adds the branch condition unless it is None.
Selected(table, branch) ==
  {u \in DOMAIN table : table[u] # NoRow /\ branch \in {None, table[u].branch_id}}

----------------------------------------------------------------------------
(* The three counts. *)

Inside(table, branch) ==
  {u \in Selected(table, branch) : table[u].entry_time # NULL /\ table[u].exit_time = NULL}

Entered(table, branch, date) ==
  {u \in Selected(table, branch) : InDay(table[u].entry_time, date)}

\* Mutant: only who also entered on the day.
ExitedSameDay(table, branch, date) ==
  {u \in Entered(table, branch, date) : InDay(table[u].exit_time, date)}

\* Whether the row has an entry time is not asked.
Exited(table, branch, date) ==
  {u \in Selected(table, branch) : InDay(table[u].exit_time, date)}

----------------------------------------------------------------------------
(* Emotion transitions and the longest stay. *)

Moods == {"natural", "angry"}
Words(mood) == IF mood = "natural" THEN NaturalWords ELSE AngryWords

\* count(*) FILTER (...) for the four pairs of moods, in one statement.
EmotionTransitions(table, branch, date) ==
  [p \in Moods \X Moods |->
     Cardinality({u \in Selected(table, branch) :
       /\ table[u].exit_time # NULL /\ InDay(table[u].entry_time, date)
       /\ table[u].enter_emotion \in Words(p[1]) /\ table[u].exit_emotion \in Words(p[2])})]

Completed(table, branch, date) ==
  {u \in Selected(table, branch) :
     /\ table[u].exit_time # NULL /\ InDay(table[u].entry_time, date)
     /\ table[u].exit_time >= table[u].entry_time}

Duration(row) == row.exit_time - row.entry_time

\* ORDER BY duration DESC LIMIT 1: the rows that may come first; none for None.
LongestStay(table, branch, date) ==
  {u \in Completed(table, branch, date) :
     \A v \in Completed(table, branch, date) : Duration(table[v]) <= Duration(table[u])}

----------------------------------------------------------------------------
(* The occupancy timeline. *)

\* _parse_bucket_interval: what is not understood is one hour.
ParseBucketInterval(bucket) ==
  IF bucket \in DOMAIN Intervals THEN Intervals[bucket] ELSE Hour

\* generate_series(first, last, step)
GenerateSeries(first, last, step) == [k \in 1..((last - first) \div step + 1) |-> first + (k - 1) * step]

\* The starts of the buckets: the series ends one interval before the end of the day.
Slots(date, width) == GenerateSeries(StartOf(date), EndOf(date) - width, width)

\* Mutant: who is there when the slot starts.
PresentAtStart(row, date, slot, width) ==
  /\ row.entry_time # NULL /\ row.entry_time <= slot
  /\ row.exit_time = NULL \/ row.exit_time >= slot
  /\ row.entry_time >= StartOf(date) - Day

\* The ON clause of the join; a comparison with NULL is not true.
Present(row, date, slot, width) ==
  /\ row.entry_time # NULL /\ row.entry_time < slot + width
  /\ row.exit_time = NULL \/ row.exit_time >= slot
  /\ row.entry_time >= StartOf(date) - Day

Bucket(table, branch, date, slot, width) ==
  [start |-> slot, end |-> slot + width,
   occupancy |-> Cardinality({u \in Selected(table, branch) : Present(table[u], date, slot, width)})]

\* get_occupancy_timeline: the buckets in order.
Timeline(table, branch, date, bucket) ==
  LET width == ParseBucketInterval(bucket)
      slots == Slots(date, width)
  IN  [i \in DOMAIN slots |-> Bucket(table, branch, date, slots[i], width)]

NoPeak == [start |-> NULL, end |-> NULL, occupancy |-> 0]

\* Mutant: a later bucket with the same occupancy replaces the peak.
PeakLast(timeline) ==
  FoldLeft(LAMBDA peak, b : IF b.occupancy >= peak.occupancy /\ b.occupancy > 0 THEN b ELSE peak,
           NoPeak, timeline)

\* The loop over the buckets keeps the first one that exceeds all before it.
PeakPeriod(timeline) ==
  FoldLeft(LAMBDA peak, b : IF b.occupancy > peak.occupancy THEN b ELSE peak, NoPeak, timeline)

\* get_highest_occupancy_period: HAVING > 0 ORDER BY occupancy DESC, slot_start LIMIT 1.
HighestOccupancyPeriod(table, branch, date, bucket) ==
  LET timeline == Timeline(table, branch, date, bucket)
      busy == {timeline[i] : i \in {j \in DOMAIN timeline : timeline[j].occupancy > 0}}
  IN  IF busy = {} THEN NoPeak
      ELSE CHOOSE b \in busy : \A c \in busy :
             \/ b.occupancy > c.occupancy
             \/ b.occupancy = c.occupancy /\ b.start <= c.start
=============================================================================
