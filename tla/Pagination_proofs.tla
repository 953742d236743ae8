------------------------------- MODULE Pagination_proofs -------------------------------
(***************************************************************************)
(* Theorems about module Pagination, for every table, page size and       *)
(* number of pages.                                                        *)
(***************************************************************************)
EXTENDS Pagination, FiniteSetTheorems, TLAPS

----------------------------------------------------------------------------
(* The inductive invariant. *)

TypeInv ==
  /\ table \in [Uuids -> Row \cup {NoRow}]
  /\ list \in Lists /\ limit \in Limits
  /\ page \in Nat /\ total \in Nat
  /\ at \in {"client", "count", "select"}
  /\ at # "client" => page > 0

\* What was counted is still there when the rows are selected.
CountInv == at = "select" /\ list # "inside" => total <= Cardinality(Matching)

PInv == TypeInv /\ CountInv /\ PagesAreFull

----------------------------------------------------------------------------

LEMMA MatchingFinite ==
  IsFiniteSet(Matching) /\ Cardinality(Matching) \in Nat
<1>1. Matching \subseteq Uuids
  BY DEF Matching
<1> QED BY <1>1, PaginationAssumption, FS_Subset, FS_CardinalityType

\* A result of the SELECT has every row that matches, once.
LEMMA OrderLength ==
  ASSUME NEW order \in Orders
  PROVE  order \in Seq(Uuids) /\ Len(order) = Cardinality(Matching)
<1>1. order \in [1..Cardinality(Matching) -> Matching]
  BY DEF Orders, SetToSeqs
<1>2. Matching \subseteq Uuids
  BY DEF Matching
<1> QED BY <1>1, <1>2, MatchingFinite

LEMMA OffsetNat == ASSUME TypeInv, page > 0 PROVE limit \in Nat /\ limit > 0 /\ Offset \in Nat
<1>1. limit \in Nat /\ limit > 0 /\ page - 1 \in Nat
  BY PaginationAssumption DEF TypeInv
<1>2. \A m, n \in Nat : m * n \in Nat
  OBVIOUS
<1> QED BY <1>1, <1>2 DEF Offset

\* A commit of the ingestion takes no row from a list, but from the list of those inside.
LEMMA ChangeKeeps ==
  ASSUME PInv, NEW u \in Uuids, NEW row \in Row, Change(u, row),
         table[u] # NoRow => (table[u].exited => row.exited)
  PROVE  PInv'
<1> USE DEF PInv
<1>1. table' = [table EXCEPT ![u] = row]
      /\ UNCHANGED <<list, limit, page, at, total, data>>
  BY DEF Change
<1>2. TypeInv'
  BY <1>1 DEF TypeInv
<1>3. list # "inside" => Matching \subseteq Matching'
  BY <1>1, PaginationAssumption DEF TypeInv, Matching, Matches
<1>4. list # "inside" => Cardinality(Matching) <= Cardinality(Matching')
  <2>1. IsFiniteSet(Matching')
    <3>1. Matching' \subseteq Uuids
      BY DEF Matching
    <3> QED BY <3>1, PaginationAssumption, FS_Subset
  <2> QED BY <1>3, <2>1, FS_Subset
<1>5. Cardinality(Matching') \in Nat
  <2>1. Matching' \subseteq Uuids
    BY DEF Matching
  <2> QED BY <2>1, PaginationAssumption, FS_Subset, FS_CardinalityType
<1>6. CountInv'
  BY <1>1, <1>4, <1>5, MatchingFinite DEF CountInv, TypeInv
<1>7. PagesAreFull'
  BY <1>1 DEF PagesAreFull, Least
<1> QED BY <1>2, <1>6, <1>7

\* A page has what is left of the rows, up to the limit.
LEMMA SelectKeeps ==
  ASSUME PInv, Select
  PROVE  PInv'
<1> USE DEF PInv
<1> DEFINE rowsOf(order) == IF Offset >= Len(order) THEN <<>>
                            ELSE SubSeq(order, Offset + 1, Least(Offset + limit, Len(order)))
<1>1. PICK order \in Orders : Answer(rowsOf(order))
  BY DEF Select
<1>2. /\ at = "select" /\ at' = "client" /\ data' = rowsOf(order)
      /\ UNCHANGED <<table, list, limit, page, total>>
  BY <1>1 DEF Answer
<1>3. TypeInv' /\ CountInv'
  BY <1>2 DEF TypeInv, CountInv
<1>4. ASSUME list # "inside" PROVE Len(data') >= Least(limit, total - Offset)
  <2>1. limit \in Nat /\ limit > 0 /\ Offset \in Nat /\ total \in Nat
    BY <1>2, OffsetNat DEF TypeInv
  <2>2. order \in Seq(Uuids) /\ Len(order) \in Nat /\ total <= Len(order)
    BY <1>2, <1>4, OrderLength, MatchingFinite DEF CountInv
  <2>3. CASE Offset >= Len(order)
    BY <1>2, <2>1, <2>2, <2>3 DEF Least
  <2>4. CASE Offset < Len(order)
    <3>1. data' = SubSeq(order, Offset + 1, Least(Offset + limit, Len(order)))
      <4>1. ~(Offset >= Len(order))
        BY <2>1, <2>2, <2>4
      <4>2. rowsOf(order) = SubSeq(order, Offset + 1, Least(Offset + limit, Len(order)))
        BY <4>1, Zenon
      <4> QED BY <1>2, <4>2
    <3>2. Least(Offset + limit, Len(order)) \in Nat
          /\ Offset + 1 <= Least(Offset + limit, Len(order))
          /\ Least(Offset + limit, Len(order)) <= Len(order)
      BY <2>1, <2>2, <2>4 DEF Least
    <3>3. Len(data') = Least(Offset + limit, Len(order)) - Offset
      BY <2>1, <2>2, <3>1, <3>2
    <3> QED BY <2>1, <2>2, <3>3 DEF Least
  <2> QED BY <2>1, <2>2, <2>3, <2>4
<1>5. PagesAreFull'
  BY <1>2, <1>4 DEF PagesAreFull, Offset, Least
<1> QED BY <1>3, <1>5

LEMMA Initially == Init => PInv
BY DEF Init, PInv, TypeInv, CountInv, PagesAreFull

LEMMA Inductive == PInv /\ [Next]_vars => PInv'
<1> SUFFICES ASSUME PInv, [Next]_vars PROVE PInv'
  OBVIOUS
<1>1. CASE Request
  BY <1>1 DEF Request, PInv, TypeInv, CountInv, PagesAreFull
<1>2. CASE Count
  <2>1. Matching' = Matching /\ total' = Cardinality(Matching)
    BY <1>2 DEF Count, Matching, Matches
  <2> QED BY <1>2, <2>1, MatchingFinite DEF Count, PInv, TypeInv, CountInv, PagesAreFull
<1>3. CASE Select
  BY <1>3, SelectKeeps
<1>4. ASSUME NEW u \in Uuids, Insert(u) \/ Exit(u) \/ Retime(u) PROVE PInv'
  <2>1. table[u] \in Row \cup {NoRow}
    BY DEF PInv, TypeInv
  <2>2. CASE Insert(u)
    BY <2>2, ChangeKeeps DEF Insert
  <2>3. CASE Exit(u)
    <3>1. [table[u] EXCEPT !.exited = TRUE] \in Row
      BY <2>1, <2>3 DEF Exit, Row
    <3>2. [table[u] EXCEPT !.exited = TRUE].exited
      BY <2>1, <2>3 DEF Exit, Row
    <3> QED BY <2>3, <3>1, <3>2, ChangeKeeps DEF Exit
  <2>4. CASE Retime(u)
    <3>1. PICK t \in Times : Change(u, [table[u] EXCEPT !.entry_time = t])
      BY <2>4 DEF Retime
    <3>2. [table[u] EXCEPT !.entry_time = t] \in Row
      BY <2>1, <2>4 DEF Retime, Row
    <3>3. [table[u] EXCEPT !.entry_time = t].exited = table[u].exited
      BY <2>1, <2>4 DEF Retime, Row
    <3> QED BY <3>1, <3>2, <3>3, ChangeKeeps
  <2> QED BY <1>4, <2>2, <2>3, <2>4
<1>5. CASE UNCHANGED vars
  BY <1>5 DEF vars, PInv, TypeInv, CountInv, PagesAreFull, Matching, Matches, Least
<1> QED BY <1>1, <1>2, <1>3, <1>4, <1>5 DEF Next

----------------------------------------------------------------------------

\* A page holds what the total of its answer promises, whatever is committed between the
\* two statements.
THEOREM PagesHoldTheTotal == Spec => []PagesAreFull
<1>1. PInv => PagesAreFull
  BY DEF PInv
<1> QED BY <1>1, Initially, Inductive, PTL DEF Spec

----------------------------------------------------------------------------
(* Reading page after page. *)

\* How many rows come before u in every order that the statement may use.
Ahead(u) == Cardinality({v \in Matching : Before(v, u)})

\* While no row has left the list or was given another time, a row that was on it from the
\* beginning and shares its place with no other is seen or still ahead of the client.
ReadInv ==
  /\ page = 0 => due = {}
  /\ disturbed = {} =>
       /\ due \subseteq Matching
       /\ \A u \in due \ seen :
            \/ \E v \in Matching : Tied(u, v)
            \/ at = "client" /\ Len(data) = limit /\ page * limit <= Ahead(u)
            \/ at # "client" /\ (page - 1) * limit <= Ahead(u)

\* The ORDER BY puts a row that shares its place with no other before or after each other.
LEMMA Separated ==
  ASSUME TypeInv, NEW u \in Matching, NEW v \in Matching, u # v, ~Tied(u, v)
  PROVE  Before(v, u) <=> ~Before(u, v)
<1>1. table[u] \in Row /\ table[v] \in Row
  BY DEF Matching, Matches, TypeInv
<1>2. /\ table[u].entry_time \in Times \cup {NULL} /\ table[v].entry_time \in Times \cup {NULL}
      /\ table[u].entry_time # table[v].entry_time
      /\ list # "waiting"
  BY <1>1 DEF Row, Tied
<1> DEFINE tu == table[u].entry_time
           tv == table[v].entry_time
<1>3. /\ tu # NULL => tu \in Nat
      /\ tv # NULL => tv \in Nat
  BY <1>2, PaginationAssumption
<1>4. /\ Before(v, u) <=> tv # NULL /\ (tu = NULL \/ tv > tu)
      /\ Before(u, v) <=> tu # NULL /\ (tv = NULL \/ tu > tv)
  BY <1>2 DEF Before
<1>5. tu # tv
  BY <1>2
<1> HIDE DEF tu, tv
<1> QED BY <1>3, <1>4, <1>5

\* So its index is the same in all of them.
LEMMA IndexOf ==
  ASSUME TypeInv, NEW order \in Orders, NEW u \in Matching, \A v \in Matching : ~Tied(u, v)
  PROVE  \E p \in DOMAIN order : order[p] = u /\ p = Ahead(u) + 1
<1> DEFINE n == Cardinality(Matching)
<1>1. /\ n \in Nat /\ IsFiniteSet(Matching) /\ IsFiniteSet(1..n) /\ Cardinality(1..n) = n
  BY MatchingFinite, FS_Interval
<1>2. /\ order \in [1..n -> Matching]
      /\ \A i, j \in 1..n : i # j => order[i] # order[j]
      /\ \A i, j \in 1..n : Before(order[i], order[j]) => i < j
  BY DEF Orders, SetToSeqs
<1>3. order \in Injection(1..n, Matching)
  BY <1>2 DEF Injection, IsInjective
<1>4. order \in Surjection(1..n, Matching)
  BY <1>1, <1>3, FS_Injection
<1>5. PICK p \in 1..n : order[p] = u
  BY <1>4 DEF Surjection
<1> DEFINE front == {v \in Matching : Before(v, u)}
           back == 1..(p - 1)
           g == [i \in back |-> order[i]]
<1>6. ASSUME NEW i \in 1..n PROVE order[i] \in front <=> i < p
  <2>1. order[i] \in Matching /\ (i # p => order[i] # u)
    BY <1>2, <1>5
  <2>2. CASE i = p
    BY <1>2, <1>5, <2>2
  <2>3. CASE i # p
    <3>1. Before(order[i], u) <=> ~Before(u, order[i])
      BY <2>1, <2>3, Separated
    <3> QED BY <1>2, <1>5, <2>1, <2>3, <3>1
  <2> QED BY <2>2, <2>3
<1>7. \A v \in front : \E i \in back : order[i] = v
  <2> SUFFICES ASSUME NEW v \in front PROVE \E i \in back : order[i] = v
    OBVIOUS
  <2>1. PICK i \in 1..n : order[i] = v
    BY <1>4 DEF Surjection
  <2> QED BY <1>6, <2>1
<1>8. g \in [back -> front] /\ \A i \in back : g[i] = order[i] /\ i \in 1..n
  <2>1. \A i \in back : i \in 1..n /\ i < p
    BY <1>1
  <2>2. \A i \in back : order[i] \in front
    BY <1>6, <2>1
  <2> HIDE DEF back, front
  <2> QED BY <2>1, <2>2
<1>9. g \in Bijection(back, front)
  <2>1. g \in Injection(back, front)
    BY <1>2, <1>8 DEF Injection, IsInjective
  <2>2. g \in Surjection(back, front)
    BY <1>7, <1>8 DEF Surjection
  <2> QED BY <2>1, <2>2 DEF Bijection
<1>10. Cardinality(front) = Cardinality(back)
  <2>1. IsFiniteSet(back)
    BY FS_Interval
  <2> QED BY <1>9, <2>1, FS_Bijection DEF ExistsBijection
<1>11. Cardinality(back) = p - 1
  BY FS_Interval
<1> QED BY <1>2, <1>5, <1>10, <1>11 DEF Ahead

\* Ahead counts rows.
LEMMA AheadNat ==
  ASSUME NEW u
  PROVE  Ahead(u) \in Nat
<1>1. {v \in Matching : Before(v, u)} \subseteq Matching
  OBVIOUS
<1> QED BY <1>1, MatchingFinite, FS_Subset, FS_CardinalityType DEF Ahead

\* A commit that disturbs nothing only adds rows, and puts them anywhere.
LEMMA ChangeReads ==
  ASSUME PInv, ReadInv, NEW u \in Uuids, NEW row \in Row, Change(u, row)
  PROVE  ReadInv'
<1>1. table' = [table EXCEPT ![u] = row]
      /\ UNCHANGED <<list, limit, page, at, total, data, seen, due>>
  BY DEF Change
<1>2. TypeInv /\ (page = 0 => due = {})'
  BY <1>1 DEF PInv, ReadInv
<1>3. CASE page = 0
  BY <1>1, <1>3 DEF ReadInv
<1>4. CASE page # 0
  <2> SUFFICES ASSUME disturbed' = {}
               PROVE  /\ due \subseteq Matching'
                      /\ \A w \in due \ seen :
                           \/ \E v \in Matching' : Tied(w, v)'
                           \/ at = "client" /\ Len(data) = limit /\ page * limit <= Ahead(w)'
                           \/ at # "client" /\ (page - 1) * limit <= Ahead(w)'
    BY <1>1, <1>2 DEF ReadInv
  <2>1. page > 0
    BY <1>2, <1>4 DEF TypeInv
  <2>2. disturbed = {} /\ (Matches(table[u]) => Matches(row) /\ row.entry_time = table[u].entry_time)
    BY <2>1 DEF Change
  <2>3. \A v \in Matching : v \in Matching' /\ table'[v].entry_time = table[v].entry_time
    <3> SUFFICES ASSUME NEW v \in Matching
                 PROVE  v \in Matching' /\ table'[v].entry_time = table[v].entry_time
      OBVIOUS
    <3>1. v \in Uuids /\ Matches(table[v])
      BY DEF Matching
    <3>2. DOMAIN table = Uuids
      BY <1>2 DEF TypeInv
    <3>3. \A r : Matches(r)' <=> Matches(r)
      BY <1>1 DEF Matches
    <3> QED BY <1>1, <2>2, <3>1, <3>2, <3>3 DEF Matching
  <2>4. \A v, w \in Matching : /\ Tied(v, w) => Tied(v, w)'
                               /\ Before(v, w) => Before(v, w)'
    BY <1>1, <2>3 DEF Tied, Before
  <2>5. due \subseteq Matching
    BY <2>2 DEF ReadInv
  <2>6. ASSUME NEW w \in Matching PROVE Ahead(w) <= Ahead(w)' /\ Ahead(w) \in Nat /\ Ahead(w)' \in Nat
    <3>1. {v \in Matching : Before(v, w)} \subseteq {v \in Matching : Before(v, w)}'
      BY <2>3, <2>4
    <3>2. {v \in Matching : Before(v, w)}' \subseteq Uuids
      BY DEF Matching
    <3>3. IsFiniteSet({v \in Matching : Before(v, w)}')
      BY <3>2, PaginationAssumption, FS_Subset
    <3> QED BY <3>1, <3>3, AheadNat, FS_Subset, FS_CardinalityType DEF Ahead
  <2>7. ASSUME NEW w \in due \ seen
        PROVE  \/ \E v \in Matching' : Tied(w, v)'
               \/ at = "client" /\ Len(data) = limit /\ page * limit <= Ahead(w)'
               \/ at # "client" /\ (page - 1) * limit <= Ahead(w)'
    <3>1. \/ \E v \in Matching : Tied(w, v)
          \/ at = "client" /\ Len(data) = limit /\ page * limit <= Ahead(w)
          \/ at # "client" /\ (page - 1) * limit <= Ahead(w)
      BY <2>2, <2>7 DEF ReadInv
    <3>2. w \in Matching
      BY <2>5
    <3>3. page * limit \in Int /\ (page - 1) * limit \in Int
      BY <1>2, PaginationAssumption DEF TypeInv
    <3> QED BY <2>3, <2>4, <2>6, <3>1, <3>2, <3>3
  <2> QED BY <2>3, <2>5, <2>7
<1> QED BY <1>3, <1>4

\* A full page leaves ahead what comes after it, and a page that is not full the rest.
LEMMA SelectReads ==
  ASSUME PInv, ReadInv, Select
  PROVE  ReadInv'
<1> DEFINE rowsOf(order) == IF Offset >= Len(order) THEN <<>>
                            ELSE SubSeq(order, Offset + 1, Least(Offset + limit, Len(order)))
<1>1. PICK order \in Orders : Answer(rowsOf(order))
  BY DEF Select
<1>2. /\ at = "select" /\ at' = "client" /\ data' = rowsOf(order)
      /\ seen' = seen \cup Range(data')
      /\ UNCHANGED <<table, list, limit, page, total, due, disturbed>>
  BY <1>1 DEF Answer
<1>3. TypeInv /\ page > 0 /\ page \in Nat /\ limit \in Nat /\ limit > 0 /\ Offset \in Nat
  BY <1>2, OffsetNat DEF PInv, TypeInv
<1>4. /\ Matching' = Matching
      /\ \A v, w : (Tied(v, w)' <=> Tied(v, w)) /\ (Before(v, w)' <=> Before(v, w))
  BY <1>2 DEF Matching, Matches, Tied, Before
<1>5. \A w : Ahead(w)' = Ahead(w)
  BY <1>4 DEF Ahead
<1>6. page * limit = Offset + limit
  BY <1>3 DEF Offset
<1>7. ASSUME disturbed = {}, NEW u \in due \ seen, u \notin Range(data'),
             \A v \in Matching : ~Tied(u, v)
      PROVE  Len(data') = limit /\ Offset + limit <= Ahead(u)
  <2>1. u \in Matching /\ Offset <= Ahead(u)
    BY <1>2, <1>7 DEF ReadInv, Offset
  <2>2. PICK p \in DOMAIN order : order[p] = u /\ p = Ahead(u) + 1
    BY <1>3, <1>7, <2>1, IndexOf
  <2>3. order \in Seq(Uuids) /\ Len(order) \in Nat /\ p \in 1..Len(order)
    BY OrderLength
  <2> DEFINE m == Least(Offset + limit, Len(order))
  <2>4. Offset < p /\ p <= Len(order) /\ p \in Nat /\ Ahead(u) \in Nat
    BY <1>3, <2>1, <2>2, <2>3, AheadNat
  <2>5. data' = SubSeq(order, Offset + 1, m)
    <3>1. ~(Offset >= Len(order))
      BY <1>3, <2>3, <2>4
    <3>2. rowsOf(order) = SubSeq(order, Offset + 1, m)
      BY <3>1, Zenon
    <3> QED BY <1>2, <3>2
  <2>6. /\ m \in Nat /\ m <= Len(order) /\ m <= Offset + limit
        /\ p > m => m = Offset + limit
    BY <1>3, <2>3, <2>4 DEF Least
  <2>7. ASSUME p <= m PROVE FALSE
    <3>1. Len(data') = m - Offset /\ \A k \in 1..(m - Offset) : data'[k] = order[Offset + k]
      <4>1. data' = [k \in 1..(m - Offset) |-> order[Offset + k]]
        BY <1>3, <2>3, <2>4, <2>5, <2>6, <2>7
      <4>2. m - Offset \in Nat
        BY <1>3, <2>4, <2>6, <2>7
      <4> QED BY <4>1, <4>2
    <3>2. p - Offset \in 1..(m - Offset) /\ Offset + (p - Offset) = p
      BY <1>3, <2>4, <2>6, <2>7
    <3>3. data'[p - Offset] = u
      BY <2>2, <3>1, <3>2
    <3>4. p - Offset \in DOMAIN data'
      BY <1>3, <2>3, <2>5, <2>6, <3>1, <3>2
    <3> QED BY <1>7, <3>3, <3>4 DEF Range
  <2>8. p > m
    BY <2>4, <2>6, <2>7
  <2>9. Len(data') = m - Offset
    BY <1>3, <2>3, <2>4, <2>5, <2>6, <2>8
  <2> QED BY <1>3, <2>2, <2>4, <2>6, <2>8, <2>9
<1>8. page = 0 => due' = {}
  BY <1>3
<1> SUFFICES ASSUME disturbed = {}
             PROVE  /\ due \subseteq Matching
                    /\ \A u \in due \ seen' :
                         \/ \E v \in Matching : Tied(u, v)
                         \/ Len(data') = limit /\ page * limit <= Ahead(u)
  BY <1>2, <1>3, <1>4, <1>5, <1>8 DEF ReadInv
<1> QED BY <1>2, <1>6, <1>7 DEF ReadInv

LEMMA ReadStep == PInv /\ ReadInv /\ [Next]_vars => ReadInv'
<1> SUFFICES ASSUME PInv, ReadInv, [Next]_vars PROVE ReadInv'
  OBVIOUS
<1>1. TypeInv
  BY DEF PInv
<1>2. ASSUME UNCHANGED <<table, list>>
      PROVE  /\ Matching' = Matching
             /\ \A v, w : Tied(v, w)' <=> Tied(v, w)
             /\ \A w : Ahead(w)' = Ahead(w)
  BY <1>2 DEF Matching, Matches, Tied, Before, Ahead
<1>3. CASE Request
  <2>1. /\ at = "client" /\ at' = "count" /\ page' = page + 1
        /\ UNCHANGED <<table, list, limit, data, seen, disturbed>>
        /\ page > 0 => due' = due
        /\ page = 0 => due' = Matching
    BY <1>1, <1>3 DEF Request, TypeInv
  <2>2. page \in Nat /\ limit \in Nat
    BY <1>1, PaginationAssumption DEF TypeInv
  <2>3. CASE page = 0
    <3>1. (page' - 1) * limit = 0
      BY <2>1, <2>2, <2>3
    <3>2. \A u : (page' - 1) * limit <= Ahead(u)
      BY <3>1, AheadNat
    <3> QED BY <1>2, <2>1, <2>2, <2>3, <3>2 DEF ReadInv
  <2>4. CASE page # 0
    <3>1. page' - 1 = page /\ page' # 0 /\ due' = due
      BY <2>1, <2>2, <2>4
    <3> QED BY <1>2, <2>1, <3>1 DEF ReadInv
  <2> QED BY <2>3, <2>4
<1>4. CASE Count
  BY <1>2, <1>4 DEF Count, ReadInv
<1>5. CASE Select
  BY <1>5, SelectReads
<1>6. ASSUME NEW u \in Uuids, Insert(u) \/ Exit(u) \/ Retime(u) PROVE ReadInv'
  <2>1. table[u] \in Row \cup {NoRow}
    BY <1>1 DEF TypeInv
  <2>2. PICK row \in Row : Change(u, row)
    <3>1. CASE Insert(u)
      BY <3>1 DEF Insert
    <3>2. CASE Exit(u)
      <4>1. [table[u] EXCEPT !.exited = TRUE] \in Row
        BY <2>1, <3>2 DEF Exit, Row
      <4> QED BY <3>2, <4>1 DEF Exit
    <3>3. CASE Retime(u)
      <4>1. PICK t \in Times : Change(u, [table[u] EXCEPT !.entry_time = t])
        BY <3>3 DEF Retime
      <4>2. [table[u] EXCEPT !.entry_time = t] \in Row
        BY <2>1, <3>3 DEF Retime, Row
      <4> QED BY <4>1, <4>2
    <3> QED BY <1>6, <3>1, <3>2, <3>3
  <2> QED BY <2>2, ChangeReads
<1>7. CASE UNCHANGED vars
  BY <1>2, <1>7 DEF vars, ReadInv
<1> QED BY <1>3, <1>4, <1>5, <1>6, <1>7 DEF Next

\* A client that reads to the last page has seen every row that was on the list from the
\* beginning, kept its place and shares it with no other row, however many rows are added
\* in between.
THEOREM NothingIsSkipped == Spec => []NothingSkipped
<1>1. Init => PInv /\ ReadInv
  BY Initially DEF Init, ReadInv
<1>2. PInv /\ ReadInv /\ [Next]_vars => (PInv /\ ReadInv)'
  BY Inductive, ReadStep
<1>3. PInv /\ ReadInv => NothingSkipped
  <2> SUFFICES ASSUME PInv, ReadInv, at = "client", page > 0, Len(data) < limit, disturbed = {},
                      NEW u \in due \ seen
               PROVE  \E v \in Matching : Tied(u, v)
    BY DEF NothingSkipped
  <2>1. limit \in Nat /\ Len(data) # limit
    BY PaginationAssumption DEF PInv, TypeInv
  <2> QED BY <2>1 DEF ReadInv
<1> QED BY <1>1, <1>2, <1>3, PTL DEF Spec
=================================================================================
