------------------------- MODULE DashboardReport_proofs -------------------------
(***************************************************************************)
(* Theorems about module DashboardReport, for every set of customers,      *)
(* rows, dates, branches and buckets: what the numbers of one dashboard,   *)
(* computed by six statements with commits in between, say about each      *)
(* other, and what the statements say about one state of the table.        *)
(***************************************************************************)
EXTENDS DashboardReport, FiniteSetTheorems, WellFoundedInduction, TLAPS

----------------------------------------------------------------------------
(* The table and the call. *)

Query == [branch_id : Branches \cup {None}, date : Dates, bucket : DOMAIN Intervals \cup {None}]

\* The rows are rows, and the arguments of a call those of a request.
TypeInv ==
  /\ entries \in [Uuids -> Row \cup {NoRow}]
  /\ query \in Query
  /\ at \in {"idle", "people", "entries", "exits", "emotions", "longest", "peak", "done"}
  /\ known \subseteq Uuids /\ moved \subseteq Uuids
  /\ DOMAIN report = {"people", "entries", "exits", "emotions", "longest", "peak"}
  /\ at \notin {"idle", "people"} => report.people \in Nat
  /\ at \notin {"idle", "people", "entries"} => report.entries \in Nat
  /\ at \notin {"idle", "people", "entries", "exits"} => report.exits \in Nat

\* Who was known when the call began still has a row of the branch with an entry time.
KnownInv == at # "idle" => known \subseteq WithEntry(entries, query.branch_id)

\* What bounds the numbers got so far: sets that commits can only enlarge, for the people
\* against the entries, and only diminish, for the known customers.
CountsInv ==
  LET had   == WithEntry(entries, query.branch_id)
      other == EntryNotOn(query.date) \cup moved
      inside == (known \cap Inside(entries, query.branch_id)) \ moved
      seen   == (known \cap (Inside(entries, query.branch_id)
                             \cup Exited(entries, query.branch_id, query.date))) \ moved
  IN  /\ at = "entries" => report.people <= Cardinality(had)
      /\ at \in {"exits", "emotions", "longest", "peak", "done"} =>
           report.people <= report.entries + Cardinality(other)
      /\ at \in {"entries", "exits"} => Cardinality(inside) <= report.people
      /\ at \in {"emotions", "longest", "peak", "done"} =>
           Cardinality(seen) <= report.people + report.exits

RInv == TypeInv /\ KnownInv /\ CountsInv

----------------------------------------------------------------------------
(* Sets of customers. *)

\* A set of customers is finite, and a smaller one has no more of them.
LEMMA CountFacts ==
  ASSUME NEW S, S \subseteq Uuids, NEW T, T \subseteq S
  PROVE  /\ Cardinality(S) \in Nat /\ Cardinality(T) \in Nat
         /\ Cardinality(T) <= Cardinality(S)
<1>1. IsFiniteSet(Uuids)
  BY ReportAssumption
<1>2. IsFiniteSet(S) /\ IsFiniteSet(T)
  BY <1>1, FS_Subset
<1>3. Cardinality(T) <= Cardinality(S)
  BY <1>2, FS_Subset
<1> QED BY <1>2, <1>3, FS_CardinalityType

\* A union has at most the members of both, and of two disjoint sets exactly these.
LEMMA UnionFacts ==
  ASSUME NEW S, S \subseteq Uuids, NEW T, T \subseteq Uuids
  PROVE  /\ Cardinality(S) \in Nat /\ Cardinality(T) \in Nat /\ Cardinality(S \cup T) \in Nat
         /\ Cardinality(S \cup T) <= Cardinality(S) + Cardinality(T)
         /\ S \cap T = {} => Cardinality(S \cup T) = Cardinality(S) + Cardinality(T)
<1>1. IsFiniteSet(S) /\ IsFiniteSet(T)
  BY ReportAssumption, FS_Subset
<1>2. Cardinality(S \cup T) = Cardinality(S) + Cardinality(T) - Cardinality(S \cap T)
  BY <1>1, FS_Union
<1>3. /\ Cardinality(S) \in Nat /\ Cardinality(T) \in Nat /\ Cardinality(S \cap T) \in Nat
      /\ Cardinality(S \cup T) \in Nat
  BY CountFacts
<1>4. S \cap T = {} => Cardinality(S \cap T) = 0
  BY FS_EmptySet
<1> QED BY <1>2, <1>3, <1>4

\* The customers a statement counts are customers of the table.
LEMMA SelectedFacts ==
  ASSUME TypeInv, NEW b, NEW date
  PROVE  /\ Selected(entries, b) \subseteq Uuids
         /\ \A u \in Selected(entries, b) : entries[u] \in Row
         /\ WithEntry(entries, b) \subseteq Uuids
         /\ Inside(entries, b) \subseteq WithEntry(entries, b)
         /\ Entered(entries, b, date) \subseteq WithEntry(entries, b)
         /\ Exited(entries, b, date) \subseteq Uuids
<1>1. Selected(entries, b) \subseteq Uuids /\ \A u \in Selected(entries, b) : entries[u] \in Row
  BY DEF Selected, TypeInv
<1> QED BY <1>1 DEF WithEntry, Inside, Entered, Exited, InDay

----------------------------------------------------------------------------
(* A commit of the ingestion. *)

\* What one commit, or none, may do to the table in the middle of a call.
Commit ==
  /\ UNCHANGED <<query, at, report, known>>
  /\ \E u \in Uuids : \E row \in Row :
       /\ MayBecome(entries[u], row)
       /\ entries' = [entries EXCEPT ![u] = row]
       /\ moved' = IF at # "idle" /\ Retimed(entries[u], row) THEN moved \cup {u} ELSE moved

\* Who has an entry time keeps one, and whoever's times are not touched keeps both.
LEMMA CommitFacts ==
  ASSUME TypeInv, at # "idle", Commit, NEW b
  PROVE  /\ moved \subseteq moved' /\ moved' \subseteq Uuids
         /\ WithEntry(entries, b) \subseteq WithEntry(entries', b)
         /\ \A u \in WithEntry(entries, b) \ moved' :
              /\ entries'[u].entry_time = entries[u].entry_time
              /\ entries[u].exit_time # NULL => entries'[u].exit_time = entries[u].exit_time
<1>1. PICK u \in Uuids : \E row \in Row :
               /\ MayBecome(entries[u], row)
               /\ entries' = [entries EXCEPT ![u] = row]
               /\ moved' = IF at # "idle" /\ Retimed(entries[u], row) THEN moved \cup {u} ELSE moved
  BY DEF Commit
<1>2. PICK row \in Row :
               /\ MayBecome(entries[u], row)
               /\ entries' = [entries EXCEPT ![u] = row]
               /\ moved' = IF Retimed(entries[u], row) THEN moved \cup {u} ELSE moved
  BY <1>1
<1>3. /\ DOMAIN entries = Uuids /\ DOMAIN entries' = Uuids
      /\ \A v \in Uuids \ {u} : entries'[v] = entries[v]
      /\ entries'[u] = row /\ row # NoRow
      /\ \A v \in Uuids : entries[v] \in Row \/ entries[v] = NoRow
  BY <1>2, ReportAssumption DEF TypeInv
<1>4. moved \subseteq moved' /\ moved' \subseteq Uuids
  BY <1>2 DEF TypeInv
<1>5. entries[u] # NoRow =>
        /\ row.branch_id = entries[u].branch_id
        /\ entries[u].entry_time # NULL => row.entry_time # NULL
        /\ entries[u].exit_time # NULL => row.exit_time # NULL
        /\ u \notin moved' => /\ entries[u].entry_time \in {NULL, row.entry_time}
                              /\ entries[u].exit_time \in {NULL, row.exit_time}
  <2> SUFFICES ASSUME entries[u] # NoRow
               PROVE  /\ row.branch_id = entries[u].branch_id
                      /\ entries[u].entry_time # NULL => row.entry_time # NULL
                      /\ entries[u].exit_time # NULL => row.exit_time # NULL
                      /\ u \notin moved' => /\ entries[u].entry_time \in {NULL, row.entry_time}
                                            /\ entries[u].exit_time \in {NULL, row.exit_time}
    OBVIOUS
  <2>1. entries[u] \in Row
    BY <1>3
  <2>2. "entry_time" \in DOMAIN entries[u] /\ "exit_time" \in DOMAIN entries[u]
    BY <2>1 DEF Row
  <2>3. /\ row.branch_id = entries[u].branch_id
        /\ \A c \in DOMAIN entries[u] : entries[u][c] # NULL => row[c] # NULL
    BY <1>2 DEF MayBecome
  <2>4. u \notin moved' => ~Retimed(entries[u], row)
    BY <1>2
  <2> QED BY <2>2, <2>3, <2>4 DEF Retimed
<1>6. ASSUME NEW v \in WithEntry(entries, b)
      PROVE  /\ v \in WithEntry(entries', b)
             /\ v \notin moved' =>
                  /\ entries'[v].entry_time = entries[v].entry_time
                  /\ entries[v].exit_time # NULL => entries'[v].exit_time = entries[v].exit_time
  <2>1. v \in Uuids /\ entries[v] # NoRow /\ entries[v].entry_time # NULL
        /\ b \in {None, entries[v].branch_id}
    BY <1>3 DEF WithEntry, Selected
  <2>2. CASE v = u
    BY <1>3, <1>5, <2>1, <2>2 DEF WithEntry, Selected
  <2>3. CASE v # u
    <3>1. entries'[v] = entries[v] /\ v \in DOMAIN entries'
      BY <1>3, <2>1, <2>3
    <3> QED BY <2>1, <3>1 DEF WithEntry, Selected
  <2> QED BY <2>2, <2>3
<1> QED BY <1>4, <1>6

\* The three sets the counts are compared with change in one direction only.
LEMMA SetsMove ==
  ASSUME TypeInv, KnownInv, at # "idle", Commit
  PROVE  /\ WithEntry(entries, query.branch_id) \subseteq WithEntry(entries, query.branch_id)'
         /\ EntryNotOn(query.date) \cup moved \subseteq (EntryNotOn(query.date) \cup moved)'
         /\ ((known \cap Inside(entries, query.branch_id)) \ moved)'
              \subseteq (known \cap Inside(entries, query.branch_id)) \ moved
         /\ ((known \cap (Inside(entries, query.branch_id)
                          \cup Exited(entries, query.branch_id, query.date))) \ moved)'
              \subseteq (known \cap (Inside(entries, query.branch_id)
                                     \cup Exited(entries, query.branch_id, query.date))) \ moved
<1> DEFINE b == query.branch_id
           date == query.date
<1>1. query' = query /\ known' = known
  BY DEF Commit
<1>2. known \subseteq WithEntry(entries, b)
  BY DEF KnownInv
<1>3. /\ moved \subseteq moved'
      /\ WithEntry(entries, b) \subseteq WithEntry(entries', b)
      /\ \A u \in WithEntry(entries, b) \ moved' :
           /\ entries'[u].entry_time = entries[u].entry_time
           /\ entries[u].exit_time # NULL => entries'[u].exit_time = entries[u].exit_time
  BY CommitFacts
<1>4. \A u \in WithEntry(entries, b) :
        /\ u \in Selected(entries, b) /\ entries[u].entry_time # NULL
        /\ u \in Selected(entries', b) /\ entries'[u].entry_time # NULL
  BY <1>3 DEF WithEntry
<1>5. EntryNotOn(query.date) \cup moved \subseteq (EntryNotOn(query.date) \cup moved)'
  BY <1>1, <1>3 DEF EntryNotOn
<1>6. ASSUME NEW u \in known, u \notin moved'
      PROVE  /\ u \in Inside(entries', b) => u \in Inside(entries, b)
             /\ u \in Exited(entries', b, date) =>
                  u \in Inside(entries, b) \cup Exited(entries, b, date)
  <2>1. u \in WithEntry(entries, b) \ moved'
    BY <1>2, <1>6
  <2>2. /\ u \in Selected(entries, b) /\ entries[u].entry_time # NULL
        /\ entries[u].exit_time # NULL => entries'[u].exit_time = entries[u].exit_time
    BY <1>3, <1>4, <2>1
  <2> QED BY <2>2 DEF Inside, Exited
<1> QED BY <1>1, <1>3, <1>5, <1>6

----------------------------------------------------------------------------
(* The invariant. *)

LEMMA Initially == Init => RInv
<1> SUFFICES ASSUME Init PROVE RInv
  OBVIOUS
<1>1. query \in Query
  BY ReportAssumption DEF Init, NoQuery, Query
<1>2. TypeInv
  BY <1>1 DEF Init, TypeInv, NoReport
<1> QED BY <1>2 DEF Init, RInv, KnownInv, CountsInv

\* Every step is a commit, a statement, or the beginning or the end of a call.
LEMMA Steps ==
  ASSUME TypeInv, [Next]_vars
  PROVE  \/ Commit \/ UNCHANGED vars
         \/ \E request \in Asked : Ask(request)
         \/ Report
<1>1. ASSUME NEW u \in Uuids, Write(u) PROVE Commit
  BY <1>1, ReportAssumption DEF Write, Commit
<1> QED BY <1>1 DEF Next

\* The statements run in their order.
LEMMA AfterFacts ==
  /\ After("people") = "entries" /\ After("entries") = "exits" /\ After("exits") = "emotions"
  /\ After("emotions") = "longest" /\ After("longest") = "peak" /\ After("peak") = "done"
<1>1. /\ Len(Statements) = 6 /\ DOMAIN Statements = 1..6
      /\ Statements[1] = "people" /\ Statements[2] = "entries" /\ Statements[3] = "exits"
      /\ Statements[4] = "emotions" /\ Statements[5] = "longest" /\ Statements[6] = "peak"
  BY DEF Statements
<1>2. Last(Statements) = "peak"
  BY <1>1 DEF Last
<1>3. ASSUME NEW n \in 1..6
      PROVE  (CHOOSE i \in DOMAIN Statements : Statements[i] = Statements[n]) = n
  <2>1. \A i \in 1..6 : Statements[i] = Statements[n] <=> i = n
    BY <1>1
  <2> QED BY <1>1, <2>1
<1>4. \A n \in 1..5 : After(Statements[n]) = Statements[n + 1]
  BY <1>1, <1>2, <1>3 DEF After
<1> QED BY <1>1, <1>2, <1>4 DEF After

LEMMA TypeStep == TypeInv /\ [Next]_vars => TypeInv'
<1> SUFFICES ASSUME TypeInv, [Next]_vars PROVE TypeInv'
  OBVIOUS
<1>1. CASE Commit
  BY <1>1 DEF Commit, TypeInv
<1>2. CASE UNCHANGED vars
  BY <1>2 DEF vars, TypeInv
<1>3. ASSUME NEW request \in Asked, Ask(request) PROVE TypeInv'
  <2>1. request \in Request
    BY ReportAssumption
  <2>2. query' \in Query
    BY <1>3, <2>1, ReportAssumption DEF Ask, Request, Query
  <2>3. WithEntry(entries, request.branch_id) \subseteq Uuids
    BY SelectedFacts
  <2>4. Head(Statements) = "people"
    BY DEF Statements
  <2> QED BY <1>3, <2>2, <2>3, <2>4 DEF Ask, TypeInv, NoReport
<1>4. CASE Report
  <2>1. CASE CountPeople
    <3>1. Cardinality(Inside(entries, query.branch_id)) \in Nat
      BY SelectedFacts, CountFacts
    <3> QED BY <2>1, <3>1, AfterFacts DEF CountPeople, Statement, TypeInv
  <2>2. CASE CountEntries
    <3>1. Cardinality(Entered(entries, query.branch_id, query.date)) \in Nat
      BY SelectedFacts, CountFacts
    <3> QED BY <2>2, <3>1, AfterFacts DEF CountEntries, Statement, TypeInv
  <2>3. CASE CountExits
    <3>1. Cardinality(Exited(entries, query.branch_id, query.date)) \in Nat
      BY SelectedFacts, CountFacts
    <3> QED BY <2>3, <3>1, AfterFacts DEF CountExits, Statement, TypeInv
  <2>4. ASSUME NEW column \in {"emotions", "longest", "peak"}, NEW value, Statement(column, value)
        PROVE  TypeInv'
    BY <2>4, AfterFacts DEF Statement, TypeInv
  <2>5. CASE CountEmotions \/ FindLongest \/ FindPeak
    BY <2>4, <2>5 DEF CountEmotions, FindLongest, FindPeak
  <2>6. CASE Return
    <3>1. NoQuery \in Query
      BY ReportAssumption DEF NoQuery, Query
    <3> QED BY <2>6, <3>1 DEF Return, TypeInv, NoReport
  <2> QED BY <1>4, <2>1, <2>2, <2>3, <2>5, <2>6 DEF Report
<1> QED BY <1>1, <1>2, <1>3, <1>4, Steps


LEMMA KnownStep == TypeInv /\ KnownInv /\ [Next]_vars => KnownInv'
<1> SUFFICES ASSUME TypeInv, KnownInv, [Next]_vars PROVE KnownInv'
  OBVIOUS
<1>1. CASE Commit
  <2>1. CASE at # "idle"
    BY <1>1, <2>1, SetsMove DEF Commit, KnownInv
  <2> QED BY <1>1, <2>1 DEF Commit, KnownInv
<1>2. CASE UNCHANGED vars
  BY <1>2 DEF vars, KnownInv, WithEntry
<1>3. ASSUME NEW request \in Asked, Ask(request) PROVE KnownInv'
  <2>1. query'.branch_id = request.branch_id
    BY <1>3, ReportAssumption DEF Ask, Request
  <2> QED BY <1>3, <2>1 DEF Ask, KnownInv
<1>4. ASSUME NEW column, NEW value, Statement(column, value), column # "idle" PROVE KnownInv'
  BY <1>4 DEF Statement, KnownInv, WithEntry
<1>5. CASE Report /\ ~Return
  BY <1>4, <1>5 DEF Report, CountPeople, CountEntries, CountExits, CountEmotions, FindLongest,
     FindPeak
<1>6. CASE Return
  BY <1>6 DEF Return, KnownInv
<1> QED BY <1>1, <1>2, <1>3, <1>5, <1>6, Steps

LEMMA CountsStep == RInv /\ [Next]_vars => CountsInv'
<1> SUFFICES ASSUME TypeInv, KnownInv, CountsInv, [Next]_vars PROVE CountsInv'
  BY DEF RInv
<1> DEFINE had    == WithEntry(entries, query.branch_id)
           other  == EntryNotOn(query.date) \cup moved
           here   == Inside(entries, query.branch_id)
           gone   == Exited(entries, query.branch_id, query.date)
           inside == (known \cap here) \ moved
           seen   == (known \cap (here \cup gone)) \ moved
<1>1. TypeInv'
  BY TypeStep
<1>2. had \subseteq Uuids /\ other \subseteq Uuids /\ inside \subseteq Uuids /\ seen \subseteq Uuids
      /\ had' \subseteq Uuids /\ other' \subseteq Uuids
  <2>1. moved \subseteq Uuids /\ moved' \subseteq Uuids /\ known \subseteq Uuids
        /\ DOMAIN entries = Uuids /\ DOMAIN entries' = Uuids
    BY <1>1 DEF TypeInv
  <2> QED BY <2>1 DEF EntryNotOn, WithEntry, Selected
<1>3. CASE Commit
  <2>1. CASE at = "idle"
    BY <1>3, <2>1 DEF Commit, CountsInv
  <2>2. CASE at # "idle"
    <3>1. had \subseteq had' /\ other \subseteq other' /\ inside' \subseteq inside
          /\ seen' \subseteq seen
      BY <1>3, <2>2, SetsMove
    <3>2. /\ Cardinality(had) <= Cardinality(had') /\ Cardinality(other) <= Cardinality(other')
          /\ Cardinality(inside') <= Cardinality(inside)
          /\ Cardinality(seen') <= Cardinality(seen)
      BY <1>2, <3>1, CountFacts
    <3>3. /\ Cardinality(had) \in Nat /\ Cardinality(had') \in Nat
          /\ Cardinality(other) \in Nat /\ Cardinality(other') \in Nat
          /\ Cardinality(inside) \in Nat /\ Cardinality(inside') \in Nat
          /\ Cardinality(seen) \in Nat /\ Cardinality(seen') \in Nat
      BY <1>2, <3>1, CountFacts
    <3>4. at' = at /\ report' = report
      BY <1>3 DEF Commit
    <3> QED BY <3>2, <3>3, <3>4 DEF CountsInv, TypeInv
  <2> QED BY <2>1, <2>2
<1>4. CASE UNCHANGED vars
  BY <1>4 DEF vars, CountsInv, WithEntry, EntryNotOn
<1>5. CASE (\E request \in Asked : Ask(request)) \/ Return
  BY <1>5 DEF Ask, Return, CountsInv, Statements
<1>6. CASE CountPeople
  <2>1. /\ at' = "entries" /\ report'.people = Cardinality(here)
        /\ UNCHANGED <<entries, query, known, moved>>
    BY <1>6, AfterFacts DEF CountPeople, Statement, TypeInv
  <2>2. here \subseteq had /\ inside \subseteq here /\ here \subseteq Uuids
    BY SelectedFacts
  <2>3. Cardinality(here) <= Cardinality(had) /\ Cardinality(inside) <= Cardinality(here)
    BY <1>2, <2>2, CountFacts
  <2> QED BY <2>1, <2>3 DEF CountsInv
<1>7. CASE CountEntries
  <2> DEFINE entered == Entered(entries, query.branch_id, query.date)
  <2>1. /\ at = "entries" /\ at' = "exits" /\ report'.people = report.people
        /\ report'.entries = Cardinality(entered)
        /\ UNCHANGED <<entries, query, known, moved>>
    BY <1>7, AfterFacts DEF CountEntries, Statement, TypeInv
  <2>2. had \subseteq entered \cup other /\ entered \subseteq Uuids
    BY <1>2, SelectedFacts DEF EntryNotOn, WithEntry, Entered
  <2>3. /\ Cardinality(had) <= Cardinality(entered \cup other)
        /\ Cardinality(entered \cup other) <= Cardinality(entered) + Cardinality(other)
        /\ Cardinality(had) \in Nat /\ Cardinality(entered \cup other) \in Nat
        /\ Cardinality(entered) \in Nat /\ Cardinality(other) \in Nat
    BY <1>2, <2>2, CountFacts, UnionFacts
  <2>4. /\ report.people \in Nat /\ report.people <= Cardinality(had)
        /\ Cardinality(inside) <= report.people
    BY <2>1 DEF CountsInv, TypeInv
  <2>5. report'.people <= report'.entries + Cardinality(other)
    BY <2>1, <2>3, <2>4
  <2> QED BY <2>1, <2>4, <2>5 DEF CountsInv, EntryNotOn, WithEntry
<1>8. CASE CountExits
  <2>1. /\ at = "exits" /\ at' = "emotions" /\ report'.people = report.people
        /\ report'.entries = report.entries /\ report'.exits = Cardinality(gone)
        /\ UNCHANGED <<entries, query, known, moved>>
    BY <1>8, AfterFacts DEF CountExits, Statement, TypeInv
  <2>2. seen \subseteq inside \cup gone /\ gone \subseteq Uuids
    BY SelectedFacts
  <2>3. /\ Cardinality(seen) <= Cardinality(inside \cup gone)
        /\ Cardinality(inside \cup gone) <= Cardinality(inside) + Cardinality(gone)
        /\ Cardinality(seen) \in Nat /\ Cardinality(inside \cup gone) \in Nat
        /\ Cardinality(inside) \in Nat /\ Cardinality(gone) \in Nat
    BY <1>2, <2>2, CountFacts, UnionFacts
  <2>4. /\ report.people \in Nat /\ Cardinality(inside) <= report.people
        /\ report.people <= report.entries + Cardinality(other)
    BY <2>1 DEF CountsInv, TypeInv
  <2>5. Cardinality(seen) <= report'.people + report'.exits
    BY <2>1, <2>3, <2>4
  <2> QED BY <2>1, <2>4, <2>5 DEF CountsInv, EntryNotOn, WithEntry
<1>9. CASE CountEmotions \/ FindLongest \/ FindPeak
  <2>1. ASSUME NEW column \in {"emotions", "longest", "peak"}, NEW value, Statement(column, value)
        PROVE  CountsInv'
    <3>1. /\ at = column /\ at' \in {"longest", "peak", "done"}
          /\ report'.people = report.people /\ report'.entries = report.entries
          /\ report'.exits = report.exits
          /\ UNCHANGED <<entries, query, known, moved>>
      BY <2>1, AfterFacts DEF Statement, TypeInv
    <3> QED BY <3>1 DEF CountsInv, EntryNotOn, WithEntry
  <2> QED BY <1>9, <2>1 DEF CountEmotions, FindLongest, FindPeak
<1> QED BY <1>3, <1>4, <1>5, <1>6, <1>7, <1>8, <1>9, Steps DEF Report

LEMMA Inductive == RInv /\ [Next]_vars => RInv'
BY TypeStep, KnownStep, CountsStep DEF RInv

\* The invariant holds between any two steps of a call and of the ingestion.
THEOREM Invariance == Spec => []RInv
<1> QED BY Initially, Inductive, PTL DEF Spec

\* Whatever is committed while a dashboard is computed, the people it shows inside are
\* among the entries of the day it shows, came in on another day, or were given another
\* time meanwhile (service.py 55-57).
THEOREM PeopleAreCounted == Spec => []PeopleWereCounted
<1>1. ASSUME RInv PROVE PeopleWereCounted
  <2> SUFFICES ASSUME at = "done"
               PROVE  report.people <= report.entries + Cardinality(EntryNotOn(query.date))
                                       + Cardinality(moved)
    BY DEF PeopleWereCounted
  <2>1. EntryNotOn(query.date) \subseteq Uuids /\ moved \subseteq Uuids
    BY <1>1, SelectedFacts DEF RInv, TypeInv, EntryNotOn
  <2>2. /\ report.people \in Nat /\ report.entries \in Nat
        /\ report.people <= report.entries + Cardinality(EntryNotOn(query.date) \cup moved)
    BY <1>1 DEF RInv, TypeInv, CountsInv
  <2> QED BY <2>1, <2>2, UnionFacts
<1> QED BY <1>1, Invariance, PTL

\* Nobody known when a call begins, and not given another time meanwhile, falls between
\* the people inside and the exits of its dashboard (service.py 107-135).
THEOREM NobodyIsMissed == Spec => []NobodyMissed
<1>1. ASSUME RInv PROVE NobodyMissed
  <2>1. ((known \cap Inside(entries, query.branch_id))
           \cup (known \cap Exited(entries, query.branch_id, query.date))) \ moved
          = (known \cap (Inside(entries, query.branch_id)
                         \cup Exited(entries, query.branch_id, query.date))) \ moved
    OBVIOUS
  <2> QED BY <1>1, <2>1 DEF RInv, CountsInv, NobodyMissed
<1> QED BY <1>1, Invariance, PTL

----------------------------------------------------------------------------
(* Stock and flow. *)

\* A day and its parts are numbers.
LEMMA DayFacts ==
  ASSUME NEW date \in Dates
  PROVE  /\ StartOf(date) \in Nat /\ EndOf(date) \in Nat /\ Day \in Nat \ {0}
         /\ EndOf(date) = StartOf(date) + Day - 1
<1>1. date \in Nat /\ Day \in Nat \ {0}
  BY ReportAssumption, AnalyticsAssumption
<1>2. date * Day \in Nat
  BY <1>1
<1> QED BY <1>1, <1>2 DEF StartOf, EndOf

LEMMA StockIsFlow == TypeInv => StockAndFlow
<1> SUFFICES ASSUME TypeInv, NEW q \in Charts,
                    \A u \in Selected(entries, q.branch) :
                      /\ entries[u].entry_time # NULL
                      /\ entries[u].entry_time <= EndOf(q.date)
                      /\ entries[u].exit_time # NULL =>
                           entries[u].exit_time \in entries[u].entry_time..EndOf(q.date)
             PROVE  Cardinality(Inside(entries, q.branch)) =
                      Cardinality({u \in Selected(entries, q.branch) :
                                     /\ entries[u].entry_time < StartOf(q.date)
                                     /\ entries[u].exit_time # NULL
                                        => entries[u].exit_time >= StartOf(q.date)})
                      + Cardinality(Entered(entries, q.branch, q.date))
                      - Cardinality(Exited(entries, q.branch, q.date))
  BY DEF StockAndFlow
<1> DEFINE rows    == Selected(entries, q.branch)
           here    == Inside(entries, q.branch)
           entered == Entered(entries, q.branch, q.date)
           gone    == Exited(entries, q.branch, q.date)
           opening == {u \in rows : /\ entries[u].entry_time < StartOf(q.date)
                                    /\ entries[u].exit_time # NULL
                                       => entries[u].exit_time >= StartOf(q.date)}
<1>1. q.date \in Dates
  BY DEF Charts
<1>2. rows \subseteq Uuids
  BY SelectedFacts
<1>3. ASSUME NEW u \in rows
      PROVE  /\ entries[u].entry_time \in Nat
             /\ entries[u].exit_time # NULL => entries[u].exit_time \in Nat
  <2>1. entries[u] \in Row
    BY SelectedFacts
  <2> QED BY <2>1, AnalyticsAssumption DEF Row
<1>4. \A u \in rows :
        /\ u \in here <=> entries[u].exit_time = NULL
        /\ u \in gone <=> entries[u].exit_time # NULL /\ StartOf(q.date) <= entries[u].exit_time
        /\ u \in entered <=> StartOf(q.date) <= entries[u].entry_time
  BY <1>1, <1>3, DayFacts DEF Inside, Exited, Entered, InDay
<1>5. \A u \in rows :
        /\ u \in opening <=>
             ~(StartOf(q.date) <= entries[u].entry_time) /\ (u \in here \/ u \in gone)
        /\ entries[u].exit_time # NULL => entries[u].entry_time <= entries[u].exit_time
  BY <1>1, <1>3, <1>4, DayFacts
<1>6. here \subseteq rows /\ gone \subseteq rows /\ entered \subseteq rows /\ opening \subseteq rows
  BY DEF Inside, Exited, Entered
<1>7. \A u \in rows : u \in entered => u \in here \/ u \in gone
  BY <1>1, <1>3, <1>4, <1>5, DayFacts
<1>8. opening \cup entered = here \cup gone
  BY <1>4, <1>5, <1>6, <1>7
<1>9. opening \cap entered = {} /\ here \cap gone = {}
  BY <1>4, <1>5, <1>6
<1>10. /\ Cardinality(opening \cup entered) = Cardinality(opening) + Cardinality(entered)
       /\ Cardinality(here \cup gone) = Cardinality(here) + Cardinality(gone)
       /\ Cardinality(opening) \in Nat /\ Cardinality(entered) \in Nat
       /\ Cardinality(here) \in Nat /\ Cardinality(gone) \in Nat
  <2>1. /\ opening \subseteq Uuids /\ entered \subseteq Uuids
        /\ here \subseteq Uuids /\ gone \subseteq Uuids
    BY <1>2, <1>6
  <2> QED BY <1>9, <2>1, UnionFacts
<1>11. Cardinality(opening \cup entered) = Cardinality(here \cup gone)
  BY <1>8
<1>12. Cardinality(here) = Cardinality(opening) + Cardinality(entered) - Cardinality(gone)
  <2> HIDE DEF here, gone, opening, entered
  <2> QED BY <1>10, <1>11
<1> QED BY <1>12

\* When the table is in order, those inside are those that were inside when the day began,
\* plus the entries of the day, minus its exits: the three counts (service.py 55-135)
\* agree with each other on any one state of the table.
THEOREM StockAgreesWithFlow == Spec => []StockAndFlow
<1>1. RInv => StockAndFlow
  BY StockIsFlow DEF RInv
<1> QED BY <1>1, Invariance, PTL

----------------------------------------------------------------------------
(* The buckets of a day. *)

\* The width of a bucket is at least one instant and at most a day.
LEMMA WidthFacts ==
  ASSUME NEW b
  PROVE  ParseBucketInterval(b) \in 1..Day
BY AnalyticsAssumption DEF ParseBucketInterval

\* What \div computes.
LEMMA Quotient ==
  ASSUME NEW a \in Nat, NEW w \in Nat \ {0}
  PROVE  /\ a \div w \in Nat
         /\ w * (a \div w) <= a /\ a < w * (a \div w) + w
OBVIOUS

\* The slot an instant falls into is one of the series, unless the instant comes after the
\* last start the series has.
LEMMA SlotOf ==
  ASSUME NEW first \in Nat, NEW last \in Nat, NEW w \in Nat \ {0}, NEW t \in first..last
  PROVE  \E i \in DOMAIN GenerateSeries(first, last, w) :
           LET slot == GenerateSeries(first, last, w)[i]
           IN  slot \in Nat /\ first <= slot /\ slot <= t /\ t < slot + w
<1> DEFINE q == (t - first) \div w
           n == (last - first) \div w
<1>1. q \in Nat /\ w * q <= t - first /\ t - first < w * q + w
  BY Quotient
<1>2. n \in Nat /\ w * n <= last - first /\ last - first < w * n + w
  BY Quotient
<1>3. q <= n
  <2> SUFFICES ASSUME n + 1 <= q PROVE FALSE
    BY <1>1, <1>2
  <2>1. w * (n + 1) <= w * q
    BY <1>1, <1>2
  <2>2. w * (n + 1) = w * n + w
    BY <1>2
  <2> QED BY <1>1, <1>2, <2>1, <2>2
<1>4. q + 1 \in 1..(n + 1)
  BY <1>1, <1>2, <1>3
<1>5. GenerateSeries(first, last, w)[q + 1] = first + q * w
  BY <1>1, <1>4 DEF GenerateSeries
<1>6. q * w = w * q /\ w * q \in Nat
  BY <1>1
<1>7. LET slot == GenerateSeries(first, last, w)[q + 1]
      IN  slot \in Nat /\ first <= slot /\ slot <= t /\ t < slot + w
  BY <1>1, <1>5, <1>6
<1> QED BY <1>4, <1>7 DEF GenerateSeries

LEMMA VisitsAreShown == TypeInv => OnlyLastBucketMissed
<1> SUFFICES ASSUME TypeInv, NEW q \in Charts,
                    NEW u \in Entered(entries, q.branch, q.date),
                    entries[u].exit_time # NULL,
                    entries[u].exit_time >= entries[u].entry_time,
                    ~(entries[u].entry_time > EndOf(q.date) - ParseBucketInterval(q.bucket))
             PROVE  \E i \in DOMAIN SlotsOf(q) :
                      Present(entries[u], q.date, SlotsOf(q)[i], ParseBucketInterval(q.bucket))
  BY DEF OnlyLastBucketMissed
<1> DEFINE w     == ParseBucketInterval(q.bucket)
           first == StartOf(q.date)
           last  == EndOf(q.date) - w
           t     == entries[u].entry_time
<1>1. q.date \in Dates
  BY DEF Charts
<1>2. w \in Nat \ {0} /\ w <= Day
  BY WidthFacts, AnalyticsAssumption
<1>3. first \in Nat /\ EndOf(q.date) \in Nat
  BY <1>1, DayFacts
<1>4. t \in Nat /\ entries[u].exit_time \in Nat /\ t # NULL
      /\ first <= t /\ t <= EndOf(q.date)
  <2>1. u \in Selected(entries, q.branch) /\ InDay(t, q.date)
    BY DEF Entered
  <2>2. entries[u] \in Row
    BY <2>1, SelectedFacts
  <2> QED BY <2>1, <2>2, AnalyticsAssumption DEF Row, InDay
<1>5. last \in Nat /\ t \in first..last
  BY <1>2, <1>3, <1>4
<1>6. PICK i \in DOMAIN GenerateSeries(first, last, w) :
             LET slot == GenerateSeries(first, last, w)[i]
             IN  slot \in Nat /\ first <= slot /\ slot <= t /\ t < slot + w
  BY <1>2, <1>3, <1>5, SlotOf
<1>7. SlotsOf(q) = GenerateSeries(first, last, w)
  BY DEF SlotsOf, Slots
<1>8. Present(entries[u], q.date, SlotsOf(q)[i], w)
  <2> DEFINE slot == SlotsOf(q)[i]
  <2>1. slot \in Nat /\ slot <= t /\ t < slot + w
    BY <1>6, <1>7
  <2>2. t >= first - Day
    BY <1>1, <1>3, <1>4, DayFacts
  <2>3. entries[u].exit_time >= slot
    BY <1>4, <2>1
  <2> QED BY <1>4, <2>1, <2>2, <2>3 DEF Present
<1> QED BY <1>6, <1>7, <1>8

\* A visit that enters on a day is in one of that day's buckets, of whatever width, unless
\* it begins after the last slot of the series (service.py 333 and 355).
THEOREM OnlyLastBucketIsMissed == Spec => []OnlyLastBucketMissed
<1>1. RInv => OnlyLastBucketMissed
  BY VisitsAreShown DEF RInv
<1> QED BY <1>1, Invariance, PTL

----------------------------------------------------------------------------
(* The peak. *)

\* A set of numbers has a least one: what inductions over buckets are replaced by, since
\* 1..n is ordered by strict inclusion as n is by <.
LEMMA LeastNumber ==
  ASSUME NEW S \in SUBSET Nat, S # {}
  PROVE  \E n \in S : \A m \in S : n <= m
<1> DEFINE T == {1..n : n \in S}
<1>1. T \subseteq FiniteSubsetsOf(Nat) /\ T # {}
  <2>1. \A n \in S : IsFiniteSet(1..n) /\ 1..n \subseteq Nat
    BY FS_Interval
  <2> QED BY <2>1 DEF FiniteSubsetsOf
<1>2. PICK t \in T : \A u \in T : ~(<<u, t>> \in StrictSubsetOrdering(Nat))
  <2> HIDE DEF T
  <2> QED BY <1>1, FS_StrictSubsetOrderingWellFounded, WFMin
<1>3. PICK n \in S : t = 1..n
  OBVIOUS
<1>4. ASSUME NEW m \in S, m < n PROVE FALSE
  <2>1. 1..m \in T /\ 1..m \subseteq 1..n /\ n \in 1..n /\ n \notin 1..m
    BY <1>4
  <2>2. <<1..m, t>> \in StrictSubsetOrdering(Nat)
    BY <1>3, <2>1 DEF StrictSubsetOrdering
  <2> QED BY <1>2, <2>1, <2>2
<1> QED BY <1>4

----------------------------------------------------------------------------
(* The loop of PeakPeriod is a fold, whose values over all sets of buckets are *)
(* given here in closed form.                                                  *)

\* The first of the buckets in s that no other exceeds.
IsFirst(timeline, s, i) ==
  \A j \in s : \/ timeline[j].occupancy < timeline[i].occupancy
               \/ timeline[j].occupancy = timeline[i].occupancy /\ i <= j

PeakOver(timeline, s) ==
  IF \E i \in s : timeline[i].occupancy > 0
  THEN timeline[CHOOSE i \in s : IsFirst(timeline, s, i)] ELSE NoPeak

Better(peak, b) == IF b.occupancy > peak.occupancy THEN b ELSE peak

\* The recursion by which MapThenFoldSet is defined, for the loop's body.
Recursion(timeline, iter) ==
  [s \in SUBSET (DOMAIN timeline) |->
     IF s = {} THEN NoPeak ELSE Better(iter[s \ {Max(s)}], timeline[Max(s)])]

LEMMA PeakIsFold ==
  ASSUME NEW timeline
  PROVE  PeakPeriod(timeline)
           = (CHOOSE iter : iter = Recursion(timeline, iter))[DOMAIN timeline]
BY DEF PeakPeriod, FoldLeft, MapThenFoldSet, Recursion, Better

\* A set of buckets has a last one.
LEMMA LastIndex ==
  ASSUME NEW n \in Nat, NEW s \in SUBSET (1..n), s # {}
  PROVE  /\ Max(s) \in s /\ \A i \in s : i <= Max(s)
<1> DEFINE T == {k \in Nat : n - k \in s}
<1>1. PICK i \in s : TRUE
  OBVIOUS
<1>2. n - i \in T
  BY <1>1
<1>3. PICK k \in T : \A m \in T : k <= m
  BY <1>2, LeastNumber
<1>4. n - k \in s
  BY <1>3
<1>5. \A j \in s : j <= n - k
  <2> SUFFICES ASSUME NEW j \in s PROVE j <= n - k
    OBVIOUS
  <2>1. j \in Nat /\ n - j \in Nat /\ n - (n - j) = j
    OBVIOUS
  <2>2. n - j \in T
    BY <2>1
  <2> QED BY <1>3, <2>1, <2>2
<1> QED BY <1>4, <1>5 DEF Max

\* It has exactly one that is the first of those no other exceeds.
LEMMA FirstIndex ==
  ASSUME NEW n \in Nat, NEW bound \in Nat, NEW timeline,
         \A i \in 1..n : timeline[i].occupancy \in 0..bound,
         NEW s \in SUBSET (1..n), s # {}
  PROVE  \E i \in s : IsFirst(timeline, s, i) /\ \A j \in s : IsFirst(timeline, s, j) => j = i
<1> DEFINE T == {k \in Nat : \E i \in s : timeline[i].occupancy = bound - k}
<1>0. ASSUME NEW i \in s
      PROVE  i \in Nat /\ timeline[i].occupancy \in Nat /\ timeline[i].occupancy <= bound
  <2>1. i \in 1..n
    OBVIOUS
  <2>2. timeline[i].occupancy \in 0..bound
    BY <2>1
  <2> QED BY <2>1, <2>2
<1>1. PICK i \in s : TRUE
  OBVIOUS
<1>2. bound - timeline[i].occupancy \in T
  <2>1. bound - timeline[i].occupancy \in Nat
        /\ timeline[i].occupancy = bound - (bound - timeline[i].occupancy)
    BY <1>0
  <2> QED BY <2>1
<1>3. PICK k \in T : \A m \in T : k <= m
  BY <1>2, LeastNumber
<1> DEFINE top == {j \in s : timeline[j].occupancy = bound - k}
<1>4. top # {} /\ top \in SUBSET Nat
  <2>1. PICK j \in s : timeline[j].occupancy = bound - k
    BY <1>3
  <2>2. s \subseteq Nat
    OBVIOUS
  <2>3. j \in top /\ top \subseteq s
    BY <2>1
  <2> QED BY <2>2, <2>3
<1>5. PICK f \in top : \A j \in top : f <= j
  BY <1>4, LeastNumber
<1>6. \A j \in s : timeline[j].occupancy <= timeline[f].occupancy
  <2> SUFFICES ASSUME NEW j \in s PROVE timeline[j].occupancy <= bound - k
    BY <1>5
  <2>1. bound - timeline[j].occupancy \in Nat
        /\ timeline[j].occupancy = bound - (bound - timeline[j].occupancy)
    BY <1>0
  <2>2. bound - timeline[j].occupancy \in T
    BY <2>1
  <2>3. k <= bound - timeline[j].occupancy /\ k \in Nat
    BY <1>3, <2>2
  <2> QED BY <1>0, <2>1, <2>3
<1>7. f \in s /\ \A j \in s : timeline[j].occupancy = timeline[f].occupancy => f <= j
  BY <1>5
<1>8. IsFirst(timeline, s, f)
  <2> SUFFICES ASSUME NEW j \in s
               PROVE  \/ timeline[j].occupancy < timeline[f].occupancy
                      \/ timeline[j].occupancy = timeline[f].occupancy /\ f <= j
    BY DEF IsFirst
  <2>1. timeline[j].occupancy \in Nat /\ timeline[f].occupancy \in Nat
    BY <1>0, <1>7
  <2>2. timeline[j].occupancy <= timeline[f].occupancy
    BY <1>6
  <2>3. timeline[j].occupancy = timeline[f].occupancy => f <= j
    BY <1>7
  <2> QED BY <2>1, <2>2, <2>3
<1>9. ASSUME NEW j \in s, IsFirst(timeline, s, j) PROVE j = f
  BY <1>7, <1>8, <1>9 DEF IsFirst
<1> QED BY <1>7, <1>8, <1>9

\* The closed form satisfies the recursion.
LEMMA PeakStep ==
  ASSUME NEW n \in Nat, NEW bound \in Nat, NEW timeline,
         \A i \in 1..n : timeline[i].occupancy \in 0..bound,
         NEW s \in SUBSET (1..n), s # {}
  PROVE  PeakOver(timeline, s) = Better(PeakOver(timeline, s \ {Max(s)}), timeline[Max(s)])
<1> DEFINE m == Max(s)
           r == s \ {m}
           occ(i) == timeline[i].occupancy
<1>1. m \in s /\ \A i \in s : i <= m
  BY LastIndex
<1>0. ASSUME NEW i \in s PROVE i \in Nat /\ occ(i) \in Nat
  <2>1. i \in 1..n
    OBVIOUS
  <2>2. occ(i) \in 0..bound
    BY <2>1
  <2> QED BY <2>1, <2>2
<1>2. ASSUME NEW f \in s, IsFirst(timeline, s, f), occ(f) > 0
      PROVE  PeakOver(timeline, s) = timeline[f]
  <2>1. \A j \in s : IsFirst(timeline, s, j) => j = f
    BY <1>2, FirstIndex
  <2>2. (CHOOSE i \in s : IsFirst(timeline, s, i)) = f
    BY <1>2, <2>1
  <2> QED BY <1>2, <2>2 DEF PeakOver
<1>3. CASE \A i \in r : ~(occ(i) > 0)
  <2>1. PeakOver(timeline, r) = NoPeak
    BY <1>3 DEF PeakOver
  <2>2. CASE occ(m) > 0
    <3>1. IsFirst(timeline, s, m)
      BY <1>0, <1>1, <1>3, <2>2 DEF IsFirst
    <3>2. PeakOver(timeline, s) = timeline[m]
      BY <1>1, <1>2, <2>2, <3>1
    <3> QED BY <2>1, <2>2, <3>2 DEF Better, NoPeak
  <2>3. CASE ~(occ(m) > 0)
    <3>1. PeakOver(timeline, s) = NoPeak
      BY <1>3, <2>3 DEF PeakOver
    <3> QED BY <2>1, <2>3, <3>1 DEF Better, NoPeak
  <2> QED BY <2>2, <2>3
<1>4. CASE \E i \in r : occ(i) > 0
  <2>1. PICK f \in r : IsFirst(timeline, r, f) /\ \A j \in r : IsFirst(timeline, r, j) => j = f
    BY <1>4, FirstIndex
  <2>2. (CHOOSE i \in r : IsFirst(timeline, r, i)) = f
    BY <2>1
  <2>3. PeakOver(timeline, r) = timeline[f]
    BY <1>4, <2>2 DEF PeakOver
  <2>4. occ(f) > 0
    BY <1>4, <2>1 DEF IsFirst
  <2>5. CASE occ(m) > occ(f)
    <3>1. ASSUME NEW j \in r PROVE occ(j) < occ(m)
      <4>1. occ(j) <= occ(f)
        BY <1>0, <2>1 DEF IsFirst
      <4>2. occ(j) \in Nat /\ occ(f) \in Nat /\ occ(m) \in Nat
        BY <1>0, <1>1, <2>1
      <4> QED BY <2>5, <4>1, <4>2
    <3>2. IsFirst(timeline, s, m)
      BY <1>0, <1>1, <3>1 DEF IsFirst
    <3>3. PeakOver(timeline, s) = timeline[m]
      <4>1. occ(m) > 0
        <5>1. occ(f) \in Nat /\ occ(m) \in Nat
          BY <1>0, <1>1, <2>1
        <5> QED BY <2>4, <2>5, <5>1
      <4> QED BY <1>1, <1>2, <3>2, <4>1
    <3> QED BY <2>3, <2>5, <3>3 DEF Better
  <2>6. CASE ~(occ(m) > occ(f))
    <3>1. IsFirst(timeline, s, f)
      BY <1>0, <1>1, <2>1, <2>6 DEF IsFirst
    <3> QED BY <1>1, <1>2, <2>1, <2>3, <2>4, <2>6, <3>1 DEF Better
  <2> QED BY <2>5, <2>6
<1> QED BY <1>3, <1>4

\* So the fold, which the recursion determines on the prefixes of the timeline, is the
\* closed form over all buckets.
LEMMA PeakPeriodIs ==
  ASSUME NEW n \in Nat, NEW bound \in Nat, NEW timeline, DOMAIN timeline = 1..n,
         \A i \in 1..n : timeline[i].occupancy \in 0..bound
  PROVE  PeakPeriod(timeline) = PeakOver(timeline, 1..n)
<1> DEFINE closed == [s \in SUBSET (1..n) |-> PeakOver(timeline, s)]
           iter == CHOOSE f : f = Recursion(timeline, f)
<1>0. \A s \in SUBSET (1..n) :
        s # {} => PeakOver(timeline, s)
                    = Better(PeakOver(timeline, s \ {Max(s)}), timeline[Max(s)])
  BY PeakStep
<1>1. closed = Recursion(timeline, closed)
  <2>1. PeakOver(timeline, {}) = NoPeak
    BY DEF PeakOver
  <2>2. ASSUME NEW s \in SUBSET (1..n), s # {}
        PROVE  closed[s] = Better(closed[s \ {Max(s)}], timeline[Max(s)])
    BY <1>0, <2>2
  <2> QED BY <2>1, <2>2 DEF Recursion
<1>2. iter = Recursion(timeline, iter)
  BY <1>1
<1>5. PeakPeriod(timeline) = iter[1..n]
  BY PeakIsFold
<1> HIDE DEF iter
<1>3. /\ iter[{}] = NoPeak
      /\ \A s \in SUBSET (1..n) :
           s # {} => iter[s] = Better(iter[s \ {Max(s)}], timeline[Max(s)])
  BY <1>2 DEF Recursion
<1>4. \A k \in 0..n : iter[1..k] = closed[1..k]
  <2> DEFINE wrong == {k \in 0..n : iter[1..k] # closed[1..k]}
  <2> SUFFICES ASSUME wrong # {} PROVE FALSE
    OBVIOUS
  <2>1. PICK k \in wrong : \A m \in wrong : k <= m
    <3>1. wrong \in SUBSET Nat
      OBVIOUS
    <3> HIDE DEF wrong
    <3> QED BY <3>1, LeastNumber
  <2>2. CASE k = 0
    <3>1. 1..k = {}
      BY <2>2
    <3> QED BY <1>3, <2>1, <3>1 DEF PeakOver
  <2>3. CASE k # 0
    <3>1. 1..k \in SUBSET (1..n) /\ 1..k # {} /\ k - 1 \in 0..n
      BY <2>3
    <3>2. Max(1..k) = k
      <4>1. Max(1..k) \in 1..k /\ \A i \in 1..k : i <= Max(1..k)
        BY <3>1, LastIndex
      <4> QED BY <2>3, <4>1
    <3>3. (1..k) \ {k} = 1..(k - 1)
      BY <2>3
    <3>4. iter[1..(k - 1)] = closed[1..(k - 1)]
      <4>1. k - 1 \notin wrong
        <5>1. k \in 0..n
          BY <2>1
        <5> HIDE DEF wrong
        <5> QED BY <2>1, <5>1
      <4> QED BY <3>1, <4>1
    <3>5. iter[1..k] = Better(iter[1..(k - 1)], timeline[k])
      BY <1>3, <3>1, <3>2, <3>3
    <3>6. closed[1..k] = Better(closed[1..(k - 1)], timeline[k])
      <4>1. PeakOver(timeline, 1..k)
              = Better(PeakOver(timeline, (1..k) \ {Max(1..k)}), timeline[Max(1..k)])
        BY <1>0, <3>1
      <4>2. 1..(k - 1) \in SUBSET (1..n)
        BY <3>1
      <4> QED BY <3>1, <3>2, <3>3, <4>1, <4>2
    <3>7. iter[1..k] # closed[1..k]
      BY <2>1
    <3> HIDE DEF closed
    <3> QED BY <3>4, <3>5, <3>6, <3>7
  <2> QED BY <2>2, <2>3
<1>6. iter[1..n] = PeakOver(timeline, 1..n)
  <2>1. n \in 0..n /\ 1..n \in SUBSET (1..n)
    OBVIOUS
  <2> QED BY <1>4, <2>1
<1> QED BY <1>5, <1>6

----------------------------------------------------------------------------
(* The timeline of a day. *)

\* The buckets of a timeline start one after the other, and each shows at most everybody.
LEMMA TimelineFacts ==
  ASSUME TypeInv, NEW q \in Charts
  PROVE  LET timeline == Timeline(entries, q.branch, q.date, q.bucket)
         IN  \E n \in Nat :
               /\ DOMAIN timeline = 1..n
               /\ \A i \in 1..n : /\ timeline[i].occupancy \in 0..Cardinality(Uuids)
                                  /\ timeline[i].start \in Int
               /\ \A i, j \in 1..n : i < j => timeline[i].start < timeline[j].start
<1> DEFINE timeline == Timeline(entries, q.branch, q.date, q.bucket)
           w     == ParseBucketInterval(q.bucket)
           first == StartOf(q.date)
           last  == EndOf(q.date) - w
           n     == (last - first) \div w + 1
<1>1. w \in Nat \ {0} /\ w <= Day /\ first \in Nat /\ EndOf(q.date) \in Nat
      /\ EndOf(q.date) = first + Day - 1 /\ Day \in Nat \ {0}
  <2>1. q.date \in Dates
    BY DEF Charts
  <2> QED BY <2>1, DayFacts, WidthFacts, AnalyticsAssumption
<1>2. n \in Nat
  <2>1. last - first \in Int /\ last - first >= -1
    BY <1>1
  <2>2. CASE last - first >= 0
    <3>1. last - first \in Nat
      BY <2>1, <2>2
    <3>2. (last - first) \div w \in Nat
      BY <1>1, <3>1, Quotient
    <3> QED BY <3>2
  <2>3. CASE last - first = -1
    <3>1. (-1) \div w = -1
      BY <1>1
    <3> QED BY <2>3, <3>1
  <2> QED BY <2>1, <2>2, <2>3
<1>3. DOMAIN timeline = 1..n
      /\ \A i \in 1..n : timeline[i] = Bucket(entries, q.branch, q.date, first + (i - 1) * w, w)
  BY DEF Timeline, Slots, GenerateSeries
<1>4. ASSUME NEW i \in 1..n
      PROVE  timeline[i].occupancy \in 0..Cardinality(Uuids)
             /\ timeline[i].start = first + (i - 1) * w /\ timeline[i].start \in Int
  <2> DEFINE here == {u \in Selected(entries, q.branch) :
                        Present(entries[u], q.date, first + (i - 1) * w, w)}
  <2>1. here \subseteq Uuids
    BY SelectedFacts
  <2>2. Cardinality(here) \in 0..Cardinality(Uuids)
    BY <2>1, CountFacts
  <2>3. timeline[i].occupancy = Cardinality(here) /\ timeline[i].start = first + (i - 1) * w
    <3>1. timeline[i] = Bucket(entries, q.branch, q.date, first + (i - 1) * w, w)
      BY <1>3
    <3> HIDE DEF timeline
    <3> QED BY <3>1 DEF Bucket
  <2>4. first + (i - 1) * w \in Int
    BY <1>1, <1>2
  <2> QED BY <2>2, <2>3, <2>4
<1>5. ASSUME NEW i \in 1..n, NEW j \in 1..n, i < j
      PROVE  timeline[i].start < timeline[j].start
  <2> DEFINE a == i - 1
             d == j - i
  <2>1. a \in Nat /\ d \in Nat \ {0} /\ j - 1 = a + d
    BY <1>2, <1>5
  <2>2. (a + d) * w = a * w + d * w /\ a * w \in Nat
    BY <1>1, <2>1
  <2>3. d * w > 0 /\ d * w \in Nat
    BY <1>1, <2>1
  <2>4. timeline[i].start = first + a * w /\ timeline[j].start = first + (a + d) * w
    BY <1>4, <2>1
  <2> QED BY <1>1, <2>2, <2>3, <2>4
<1> QED BY <1>2, <1>3, <1>4, <1>5

LEMMA PeriodsAgree == TypeInv => PeakAgrees
<1> SUFFICES ASSUME TypeInv, NEW q \in Charts
             PROVE  HighestOccupancyPeriod(entries, q.branch, q.date, q.bucket)
                      = PeakPeriod(TimelineOf(q))
  BY DEF PeakAgrees
<1> DEFINE timeline == Timeline(entries, q.branch, q.date, q.bucket)
           occ(i) == timeline[i].occupancy
           bound == Cardinality(Uuids)
           busy == {timeline[i] : i \in {j \in DOMAIN timeline : occ(j) > 0}}
           best(b) ==
             \A c \in busy : \/ b.occupancy > c.occupancy
                             \/ b.occupancy = c.occupancy /\ b.start <= c.start
<1>1. PICK n \in Nat :
             /\ DOMAIN timeline = 1..n
             /\ \A i \in 1..n : occ(i) \in 0..bound /\ timeline[i].start \in Int
             /\ \A i, j \in 1..n : i < j => timeline[i].start < timeline[j].start
  BY TimelineFacts
<1>2. bound \in Nat
  BY CountFacts
<1>3. HighestOccupancyPeriod(entries, q.branch, q.date, q.bucket)
        = IF busy = {} THEN NoPeak ELSE CHOOSE b \in busy : best(b)
  BY DEF HighestOccupancyPeriod
<1>4. PeakPeriod(TimelineOf(q)) = PeakOver(timeline, 1..n)
  BY <1>1, <1>2, PeakPeriodIs DEF TimelineOf
<1>5. CASE \A i \in 1..n : ~(occ(i) > 0)
  <2>1. busy = {} /\ PeakOver(timeline, 1..n) = NoPeak
    BY <1>1, <1>5 DEF PeakOver
  <2> QED BY <1>3, <1>4, <2>1
<1>6. CASE \E i \in 1..n : occ(i) > 0
  <2>1. 1..n # {} /\ 1..n \in SUBSET (1..n) /\ \A i \in 1..n : occ(i) \in 0..bound
    BY <1>1, <1>6
  <2>2. PICK f \in 1..n : /\ IsFirst(timeline, 1..n, f)
                          /\ \A j \in 1..n : IsFirst(timeline, 1..n, j) => j = f
    <3> HIDE DEF timeline, bound
    <3> QED BY <1>2, <2>1, FirstIndex
  <2>3. PeakOver(timeline, 1..n) = timeline[f]
    BY <1>6, <2>2 DEF PeakOver
  <2>4. \A i \in 1..n : /\ occ(i) \in Nat
                        /\ \/ occ(i) < occ(f)
                           \/ occ(i) = occ(f) /\ f <= i
    BY <1>1, <1>2, <2>2 DEF IsFirst
  <2>5. occ(f) > 0
    BY <1>6, <2>4
  <2>6. timeline[f] \in busy /\ \A b \in busy : \E i \in 1..n : b = timeline[i]
    BY <1>1, <2>5
  <2>7. \A i \in 1..n : f <= i => timeline[f].start <= timeline[i].start
    BY <1>1
  <2>8. best(timeline[f])
    <3> SUFFICES ASSUME NEW i \in 1..n
                 PROVE  \/ occ(f) > occ(i)
                        \/ occ(f) = occ(i) /\ timeline[f].start <= timeline[i].start
      BY <2>6
    <3> QED BY <2>4, <2>7
  <2>9. ASSUME NEW b \in busy, best(b) PROVE b = timeline[f]
    <3>1. PICK i \in 1..n : b = timeline[i]
      BY <2>6
    <3>2. \/ occ(i) > occ(f)
          \/ occ(i) = occ(f) /\ timeline[i].start <= timeline[f].start
      BY <2>6, <2>9, <3>1
    <3>3. f <= i /\ timeline[i].start <= timeline[f].start
      BY <2>4, <3>2
    <3>4. ~(f < i)
      BY <1>1, <3>3
    <3> QED BY <3>1, <3>3, <3>4
  <2>10. (CHOOSE b \in busy : best(b)) = timeline[f]
    <3> HIDE DEF busy, best
    <3> QED BY <2>6, <2>8, <2>9
  <2> QED BY <1>3, <1>4, <2>3, <2>6, <2>10
<1> QED BY <1>5, <1>6

\* The peak that SQL picks for the dashboard is the one the loop over the timeline picks,
\* ties included (service.py 397-403 and 452-454).
THEOREM PeaksAgree == Spec => []PeakAgrees
<1>1. RInv => PeakAgrees
  BY PeriodsAgree DEF RInv
<1> QED BY <1>1, Invariance, PTL
=================================================================================
