----------------------------- MODULE DetectionStore -----------------------------
(***************************************************************************)
(* What the ingestion service promises to whoever feeds it and to whoever  *)
(* reads the entries table: a detection takes effect at one instant, on at *)
(* most one row, with values of its own message only; nothing that was     *)
(* recorded is erased; "ok" is answered only after that instant.  Module   *)
(* Ingestion is shown to implement this specification.                     *)
(***************************************************************************)
EXTENDS DetectionService

CONSTANTS
  Messages,    \* the messages the ML service sends
  Detections,  \* the detections received, also the uuids of the rows they create
  NoRow,       \* a uuid that is not in the table
  NoMessage    \* a detection not received yet

VARIABLES rows, msg, stored, acks

storeVars == <<rows, msg, stored, acks>>

Table  == [Detections -> Row \cup {NoRow}]
Answer == {"none", "ok", "fail"}

StoreInit ==
  /\ rows = [u \in Detections |-> NoRow]
  /\ msg = [d \in Detections |-> NoMessage]
  /\ stored = {}
  /\ acks = [d \in Detections |-> "none"]

Offer(d) ==
  /\ msg[d] = NoMessage
  /\ \E m \in Messages : msg' = [msg EXCEPT ![d] = m]
  /\ UNCHANGED <<rows, stored, acks>>

\* What m may leave in a row: some of the fields it sets, the other columns as in row.
Patched(row, m) ==
  {[c \in Columns |-> IF c \in taken THEN m[c] ELSE row[c]] :
     taken \in SUBSET {c \in Columns : m[c] # Empty}}

Blank == [c \in Columns |-> NULL]

Store(d) ==
  /\ msg[d] # NoMessage /\ d \notin stored /\ acks[d] = "none"
  /\ stored' = stored \cup {d}
  /\ \/ UNCHANGED rows
     \/ /\ msg[d] \in CustomerFlow /\ rows[d] = NoRow
        /\ \E r \in Patched(Blank, msg[d]) : rows' = [rows EXCEPT ![d] = r]
     \/ /\ msg[d] \in CustomerFlow
        /\ \E u \in {v \in Detections : rows[v] # NoRow} :
             \E r \in Patched(rows[u], msg[d]) : rows' = [rows EXCEPT ![u] = r]
  /\ UNCHANGED <<msg, acks>>

Answered(d, a) ==
  /\ msg[d] # NoMessage /\ acks[d] = "none"
  /\ a = "ok" => d \in stored
  /\ acks' = [acks EXCEPT ![d] = a]
  /\ UNCHANGED <<rows, msg, stored>>

StoreNext ==
  \E d \in Detections :
    Offer(d) \/ Store(d) \/ Answered(d, "ok") \/ Answered(d, "fail")

StoreSpec == StoreInit /\ [][StoreNext]_storeVars
================================================================================
