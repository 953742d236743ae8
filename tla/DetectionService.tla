--------------------------- MODULE DetectionService ---------------------------
(***************************************************************************)
(* What app/services/detection_service.py computes from one message of the *)
(* ML service and one row of the entries table.  Everything here is a pure *)
(* operator; the awaits between the SELECT, the flush and the commit, and  *)
(* what other streams do meanwhile, are in module Ingestion.               *)
(*                                                                         *)
(* A row is a function from columns to values.  A CustomerFlow message is  *)
(* a function from the same columns, where Empty is protobuf's default for *)
(* an unset field ("" or 0 or no element): the names and the order of the  *)
(* message's fields are those of the columns.  Six columns stand for the   *)
(* sixteen: age_class, gender, gender_conf, enter_emotion_conf and the two *)
(* entry_face columns are copied under the same test as enter_emotion, and *)
(* exit_emotion_conf, the exit_face columns and face_match_score as        *)
(* exit_emotion.                                                           *)
(***************************************************************************)
EXTENDS Naturals, FiniteSets

CONSTANTS
  Values,          \* what a set field carries: counters, instants, labels
  Unparsable,      \* the time strings that datetime.fromisoformat refuses
  Empty,           \* protobuf's default of a field
  NULL,            \* SQL NULL
  WaitingSession,  \* a message with the waiting_session payload
  NoPayload        \* a message with neither payload

ASSUME ValuesAssumption ==
  /\ Unparsable \subseteq Values
  /\ Empty \notin Values /\ NULL \notin Values /\ Empty # NULL

EntryColumns == {"entry_time", "entry_count", "enter_emotion"}
ExitColumns  == {"exit_time", "exit_count", "exit_emotion"}
Columns      == EntryColumns \cup ExitColumns
TimeColumns  == {"entry_time", "exit_time"}

Row          == [Columns -> Values \cup {NULL}]
CustomerFlow == [Columns -> Values \cup {Empty}]
Message      == CustomerFlow \cup {WaitingSession, NoPayload}

ASSUME MessageAssumption ==
  /\ WaitingSession \notin CustomerFlow /\ NoPayload \notin CustomerFlow
  /\ WaitingSession # NoPayload

(***************************************************************************)
(* What a flush sends to the database: for an INSERT a value of every      *)
(* column; for an UPDATE a value of the columns the unit of work found     *)
(* changed, the others being Empty.                                        *)
(***************************************************************************)
Patch == [Columns -> Values \cup {NULL, Empty}]

----------------------------------------------------------------------------
(* The case analysis of _process_customer_flow. *)

HasEntry(m) == m["entry_time"] # Empty \/ m["entry_count"] # Empty
HasExit(m)  == m["exit_time"] # Empty \/ m["exit_count"] # Empty

ExitOnly(m)  == HasExit(m) /\ ~HasEntry(m)
Complete(m)  == HasEntry(m) /\ HasExit(m)
EntryOnly(m) == HasEntry(m) /\ ~HasExit(m)

\* The count an earlier row is looked up with; Empty when there is no lookup.
LookupCount(m) ==
  IF ExitOnly(m) \/ (Complete(m) /\ m["exit_count"] # Empty)
  THEN m["exit_count"]
  ELSE IF Complete(m) THEN m["entry_count"] ELSE Empty

\* The messages refused before any await: no payload, no data, or an exit that
\* carries no count to correlate it with.
Refused(m) ==
  \/ m = NoPayload
  \/ /\ m \in CustomerFlow
     /\ \/ ~HasEntry(m) /\ ~HasExit(m)
        \/ ExitOnly(m) /\ m["exit_count"] = Empty

\* _parse_timestamp raises on one of the columns cols of m.
BadTimestamp(m, cols) == \E c \in cols \cap TimeColumns : m[c] \in Unparsable

\* Mutant: only customers still inside are matched.
FindEntryInside(table, count) ==
  {u \in DOMAIN table : /\ table[u] \in Row /\ table[u]["entry_count"] = count
                        /\ table[u]["exit_time"] = NULL}

\* The rows SELECT ... WHERE entry_count = count may return: LIMIT 1, no
\* ORDER BY, and whether the row already has an exit is not asked.
FindEntryByCount(table, count) ==
  {u \in DOMAIN table : table[u] \in Row /\ table[u]["entry_count"] = count}

----------------------------------------------------------------------------
(* The writes. *)

\* _string_or_none, _float_or_none, _repeated_float_to_json, "x if x != 0 else None"
OrNone(v) == IF v = Empty THEN NULL ELSE v

\* An entry-only message leaves the exit columns NULL, whatever it carries.
CreateEntryOnly(m) ==
  [c \in Columns |-> IF c \in EntryColumns THEN OrNone(m[c]) ELSE NULL]

CreateCompleteEntry(m) == [c \in Columns |-> OrNone(m[c])]

\* Mutant: an empty field overwrites too.
ApplyExitDataBlank(row, m) ==
  [c \in Columns |-> IF c \in ExitColumns THEN OrNone(m[c]) ELSE row[c]]

\* A non-empty field overwrites the attribute, an empty one leaves it.
ApplyEntryData(row, m) ==
  [c \in Columns |-> IF c \in EntryColumns /\ m[c] # Empty THEN m[c] ELSE row[c]]
ApplyExitData(row, m) ==
  [c \in Columns |-> IF c \in ExitColumns /\ m[c] # Empty THEN m[c] ELSE row[c]]

\* The row object after the handler assigned to it; an exit-only message does
\* not touch the entry columns.
Applied(row, m) ==
  IF ExitOnly(m) THEN ApplyExitData(row, m)
  ELSE ApplyExitData(ApplyEntryData(row, m), m)

\* Mutant: the whole row object is sent, as it was loaded.
ChangedColumnsAll(before, after) == after

\* The unit of work's UPDATE names the attributes that differ from the loaded row.
ChangedColumns(before, after) ==
  [c \in Columns |-> IF after[c] # before[c] THEN after[c] ELSE Empty]

\* Mutant: every column is written, changed or not.
MergeAll(row, patch) == [c \in Columns |-> patch[c]]

\* The database applies a patch to the row as it is when the write is done.
Merge(row, patch) ==
  [c \in Columns |-> IF patch[c] # Empty THEN patch[c] ELSE row[c]]
============================================================================
