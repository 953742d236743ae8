----------------------------- MODULE DashboardReport -----------------------------
(***************************************************************************)
(* AnalyticsService.get_dashboard_metrics: six SELECTs on one session, in  *)
(* a READ COMMITTED transaction, each of which sees what was committed     *)
(* before it.  The ingestion commits in between, so the numbers of one     *)
(* dashboard are of up to six different states of the entries table.       *)
(***************************************************************************)
EXTENDS Analytics

CONSTANTS
  Uuids,    \* the customers whose rows may appear
  Written,  \* the rows the ingestion may leave in the table
  Dates,    \* the dates that parse
  Today,    \* the date of datetime.now(timezone.utc)
  Asked     \* the requests of clients: a subset of Request

\* A date that is missing or does not parse is None, a bucket may be any text.
Request == [branch_id : Branches \cup {None}, date : Dates \cup {None},
            bucket : DOMAIN Intervals \cup {None}]

ASSUME ReportAssumption ==
  /\ IsFiniteSet(Uuids)
  /\ Written \subseteq Row /\ Asked \subseteq Request
  /\ Dates \subseteq Nat /\ Today \in Dates
  /\ None \notin Dates /\ None \notin DOMAIN Intervals
  /\ NoRow \notin Row

VARIABLES
  entries,  \* the entries table, committed
  query,    \* the arguments of the metrics call, with the target date it settled on
  at,       \* the statement that runs next
  report,   \* the numbers got so far
  known,    \* history: customers with an entry time when the call began
  moved     \* history: customers one of whose times was changed since then

vars == <<entries, query, at, report, known, moved>>

\* Mutants: the entries, or the exits, are counted before the people inside.
StatementsEntriesFirst == <<"entries", "people", "exits", "emotions", "longest", "peak">>
StatementsExitsFirst   == <<"exits", "people", "entries", "emotions", "longest", "peak">>

\* The SELECTs in the order they are awaited.
Statements == <<"people", "entries", "exits", "emotions", "longest", "peak">>

After(column) ==
  IF column = Last(Statements) THEN "done"
  ELSE Statements[1 + CHOOSE i \in DOMAIN Statements : Statements[i] = column]

NoReport == [people |-> NULL, entries |-> NULL, exits |-> NULL,
             emotions |-> NULL, longest |-> NULL, peak |-> NULL]

NoQuery == [branch_id |-> None, date |-> Today, bucket |-> None]

Init ==
  /\ entries = [u \in Uuids |-> NoRow]
  /\ query = NoQuery
  /\ at = "idle"
  /\ report = NoReport
  /\ known = {} /\ moved = {}

WithEntry(table, branch) == {u \in Selected(table, branch) : table[u].entry_time # NULL}

\* A row keeps its branch, and a column that has a value keeps one: the action property
\* RecordsArePermanent of module Ingestion.
MayBecome(old, new) ==
  old # NoRow => /\ new.branch_id = old.branch_id
                 /\ \A c \in DOMAIN old : old[c] # NULL => new[c] # NULL

Retimed(old, new) ==
  old # NoRow /\ \E c \in {"entry_time", "exit_time"} : old[c] \notin {NULL, new[c]}

\* A commit of the ingestion: a new row, or new values in an old one.
Write(u) ==
  \E row \in Written \ {entries[u]} :
    /\ MayBecome(entries[u], row)
    /\ entries' = [entries EXCEPT ![u] = row]
    /\ moved' = IF at # "idle" /\ Retimed(entries[u], row) THEN moved \cup {u} ELSE moved
    /\ UNCHANGED <<query, at, report, known>>

\* The target date is settled once and passed on to every statement.
Ask(request) ==
  /\ at = "idle"
  /\ at' = Head(Statements)
  /\ query' = [request EXCEPT !.date = IF @ = None THEN Today ELSE @]
  /\ report' = NoReport
  /\ known' = WithEntry(entries, request.branch_id)
  /\ moved' = {}
  /\ UNCHANGED entries

Statement(column, value) ==
  /\ at = column /\ at' = After(column)
  /\ report' = [report EXCEPT ![column] = value]
  /\ UNCHANGED <<entries, query, known, moved>>

CountPeople  == Statement("people", Cardinality(Inside(entries, query.branch_id)))
CountEntries == Statement("entries", Cardinality(Entered(entries, query.branch_id, query.date)))
CountExits   == Statement("exits", Cardinality(Exited(entries, query.branch_id, query.date)))

CountEmotions ==
  Statement("emotions", EmotionTransitions(entries, query.branch_id, query.date))

FindLongest ==
  LET stays == LongestStay(entries, query.branch_id, query.date)
  IN  IF stays = {} THEN Statement("longest", None)
      ELSE \E u \in stays : Statement("longest", Duration(entries[u]))

FindPeak ==
  Statement("peak", HighestOccupancyPeriod(entries, query.branch_id, query.date, query.bucket))

\* DashboardMetrics is returned and the session closed.
Return ==
  /\ at = "done" /\ at' = "idle"
  /\ query' = NoQuery /\ report' = NoReport /\ known' = {} /\ moved' = {}
  /\ UNCHANGED entries

Report == CountPeople \/ CountEntries \/ CountExits \/ CountEmotions \/ FindLongest
          \/ FindPeak \/ Return

Next == (\E u \in Uuids : Write(u)) \/ (\E request \in Asked : Ask(request)) \/ Report

Spec == Init /\ [][Next]_vars

----------------------------------------------------------------------------
(* What the numbers of one dashboard say about each other. *)

EntryNotOn(date) ==
  {u \in WithEntry(entries, query.branch_id) : ~InDay(entries[u].entry_time, date)}

\* Everybody shown inside is among today's entries, or came in on another day: the
\* entries are counted after the people, so commits in between can only add to them
\* (service.py 55-57), unless an entry is given another time meanwhile.
PeopleWereCounted ==
  at = "done" => report.people <= report.entries + Cardinality(EntryNotOn(query.date))
                                  + Cardinality(moved)

\* Nobody known when the call began falls between the two numbers: a customer who leaves
\* while they are computed is counted inside or as an exit, or as both, since the exits
\* are counted after the people (service.py 107-135).
NobodyMissed ==
  at = "done" =>
    LET stayed == known \cap Inside(entries, query.branch_id)
        left   == known \cap Exited(entries, query.branch_id, query.date)
    IN  Cardinality((stayed \cup left) \ moved) <= report.people + report.exits

----------------------------------------------------------------------------
(* What the statements say about one state of the table.  Every table is there *)
(* between two calls, and is looked at then.                                   *)

Charts == {q \in [branch : Branches \cup {None}, date : Dates, bucket : DOMAIN Intervals] :
             at = "idle"}

SlotsOf(q) == Slots(q.date, ParseBucketInterval(q.bucket))
TimelineOf(q) == Timeline(entries, q.branch, q.date, q.bucket)
PeakOf(q) == HighestOccupancyPeriod(entries, q.branch, q.date, q.bucket).occupancy

\* The peak of the dashboard, which SQL picks, is the peak period of the timeline, which
\* a Python loop picks, ties included (service.py 397-403 and 452-454).
PeakAgrees ==
  \A q \in Charts :
    HighestOccupancyPeriod(entries, q.branch, q.date, q.bucket) = PeakPeriod(TimelineOf(q))

\* Stock and flow agree when the table is in order (each row has an entry time, not after
\* its exit time, and nothing is dated later than the day): those inside are those that
\* were inside when the day began, plus the entries, minus the exits.
StockAndFlow ==
  \A q \in Charts :
    LET rows == Selected(entries, q.branch)
        InOrder(row) == /\ row.entry_time # NULL /\ row.entry_time <= EndOf(q.date)
                        /\ row.exit_time # NULL => row.exit_time \in row.entry_time..EndOf(q.date)
        opening == {u \in rows : /\ entries[u].entry_time < StartOf(q.date)
                                 /\ entries[u].exit_time # NULL
                                    => entries[u].exit_time >= StartOf(q.date)}
    IN  (\A u \in rows : InOrder(entries[u])) =>
          Cardinality(Inside(entries, q.branch)) =
            Cardinality(opening) + Cardinality(Entered(entries, q.branch, q.date))
              - Cardinality(Exited(entries, q.branch, q.date))

\* A visit of the day is in one of the buckets, unless it begins in the last one: the
\* series stops one interval before the end of the day (service.py 355), so that
\* "across the entire day" (333) holds but for the last bucket, whatever its width.
OnlyLastBucketMissed ==
  \A q \in Charts :
    \A u \in Entered(entries, q.branch, q.date) :
      entries[u].exit_time # NULL /\ entries[u].exit_time >= entries[u].entry_time =>
        \/ entries[u].entry_time > EndOf(q.date) - ParseBucketInterval(q.bucket)
        \/ \E i \in DOMAIN SlotsOf(q) :
             Present(entries[u], q.date, SlotsOf(q)[i], ParseBucketInterval(q.bucket))
===================================================================================
