-------------------------------- MODULE Pagination --------------------------------
(***************************************************************************)
(* The lists of the REST interface, GET /api/v1/entries (list_entries) and *)
(* GET /api/v1/waiting-times (list_waiting_times), and a client that reads *)
(* one page after the other.                                               *)
(*                                                                         *)
(* A request runs two statements on one READ COMMITTED session, a COUNT    *)
(* and a SELECT with OFFSET and LIMIT; the ingestion commits between the   *)
(* two and between the pages.  Entries are ordered by entry_time, latest   *)
(* first and NULLs last, waiting times by nothing: rows that the ORDER BY  *)
(* does not separate come in any order, a new one for every statement.     *)
(***************************************************************************)
EXTENDS Integers, Sequences, FiniteSets, SequencesExt

CONSTANTS
  Uuids,    \* the rows that may appear
  Times,    \* entry times
  Lists,    \* what clients ask for: a subset of {"all", "inside", "exited", "waiting"}
  Limits,   \* the page sizes clients ask for
  Pages,    \* bound: the last page a client asks for
  NULL,     \* SQL NULL
  NoRow     \* a uuid that is not in the table

\* exited is whether exit_time is set.  A row of waiting_times has neither column here.
Row == [entry_time : Times \cup {NULL}, exited : BOOLEAN]

ASSUME PaginationAssumption ==
  /\ Times \subseteq Nat /\ NULL \notin Times
  /\ Lists \subseteq {"all", "inside", "exited", "waiting"}
  /\ Limits \subseteq 1..100 /\ Pages \in Nat \ {0}
  /\ IsFiniteSet(Uuids) /\ NoRow \notin Row

VARIABLES
  table,     \* the rows, committed
  list,      \* the list the client reads
  limit,     \* its page size
  page,      \* the page asked for
  at,        \* the statement of the request that runs next
  total,     \* what COUNT returned
  data,      \* the rows of the page
  seen,      \* history: the rows of the pages read so far
  due,       \* history: the rows on the list when the first page was asked for
  disturbed  \* history: rows that left the list or were given another time since then

vars == <<table, list, limit, page, at, total, data, seen, due, disturbed>>

Init ==
  /\ table \in [Uuids -> Row \cup {NoRow}]
  /\ list \in Lists /\ limit \in Limits
  /\ page = 0 /\ at = "client"
  /\ total = 0 /\ data = <<>>
  /\ seen = {} /\ due = {} /\ disturbed = {}

----------------------------------------------------------------------------
(* The statements. *)

\* The WHERE clause for a status, or none.
Matches(row) ==
  /\ row # NoRow
  /\ CASE list = "inside" -> row.entry_time # NULL /\ ~row.exited
       [] list = "exited" -> row.exited
       [] OTHER -> TRUE

Matching == {u \in Uuids : Matches(table[u])}

\* Mutant: no order at all.
BeforeNowhere(u, v) == FALSE

\* ORDER BY entry_time DESC NULLS LAST, for the list of entries only.
Before(u, v) ==
  /\ list # "waiting" /\ table[u].entry_time # NULL
  /\ table[v].entry_time = NULL \/ table[u].entry_time > table[v].entry_time

\* Mutant: the first page is page 0.
OffsetFromZero == page * limit

Offset == (page - 1) * limit

\* The results of the SELECT without OFFSET and LIMIT.
Orders ==
  {order \in SetToSeqs(Matching) :
     \A i, j \in DOMAIN order : Before(order[i], order[j]) => i < j}

Least(m, n) == IF m < n THEN m ELSE n

----------------------------------------------------------------------------
(* The client, and the request handler. *)

\* The client asks for page after page until one is not full.
Request ==
  /\ at = "client" /\ page < Pages
  /\ page > 0 => Len(data) = limit
  /\ page' = page + 1
  /\ at' = "count"
  /\ due' = IF page = 0 THEN Matching ELSE due
  /\ UNCHANGED <<table, list, limit, total, data, seen, disturbed>>

Count ==
  /\ at = "count" /\ at' = "select"
  /\ total' = Cardinality(Matching)
  /\ UNCHANGED <<table, list, limit, page, data, seen, due, disturbed>>

Answer(rows) ==
  /\ at = "select" /\ at' = "client"
  /\ data' = rows
  /\ seen' = seen \cup Range(rows)
  /\ UNCHANGED <<table, list, limit, page, total, due, disturbed>>

\* OFFSET past the last row gives none, LIMIT at most what is left.
Select ==
  \E order \in Orders :
    Answer(IF Offset >= Len(order) THEN <<>>
           ELSE SubSeq(order, Offset + 1, Least(Offset + limit, Len(order))))

----------------------------------------------------------------------------
(* The ingestion commits. *)

Change(u, row) ==
  /\ table' = [table EXCEPT ![u] = row]
  /\ disturbed' = IF /\ page > 0 /\ Matches(table[u])
                     /\ ~Matches(row) \/ row.entry_time # table[u].entry_time
                  THEN disturbed \cup {u} ELSE disturbed
  /\ UNCHANGED <<list, limit, page, at, total, data, seen, due>>

Insert(u) == table[u] = NoRow /\ \E row \in Row : Change(u, row)

\* An update of an entry: times are set or replaced, never taken away.
Exit(u)   == /\ list # "waiting" /\ table[u] # NoRow /\ ~table[u].exited
             /\ Change(u, [table[u] EXCEPT !.exited = TRUE])
Retime(u) == /\ list # "waiting" /\ table[u] # NoRow
             /\ \E t \in Times \ {table[u].entry_time} : Change(u, [table[u] EXCEPT !.entry_time = t])

Next == \/ Request \/ Count \/ Select
        \/ \E u \in Uuids : Insert(u) \/ Exit(u) \/ Retime(u)

Spec == Init /\ [][Next]_vars

----------------------------------------------------------------------------

\* A page holds at least what the total of the same answer promises, and more only up to
\* the limit: the rows are read after they are counted and, except by leaving the store,
\* no row leaves a list (entries.py 90-108, waiting_times.py 56-72).
PagesAreFull ==
  at = "client" /\ page > 0 /\ list # "inside" =>
    Len(data) >= Least(limit, total - (page - 1) * limit)

\* Rows the ORDER BY does not separate.
Tied(u, v) == u # v /\ (list = "waiting" \/ table[u].entry_time = table[v].entry_time)

\* A client that reads pages until one is not full has seen every row that was on the
\* list when it began, although rows are added meanwhile: a new row only moves others
\* to later pages.  A row is missed only if it shares its place in the order with
\* another, or rows left the list or were given another entry time.
NothingSkipped ==
  at = "client" /\ page > 0 /\ Len(data) < limit /\ disturbed = {} =>
    \A u \in due \ seen : \E v \in Matching : Tied(u, v)
===================================================================================
