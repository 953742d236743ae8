------------------------------- MODULE MCIngestion -------------------------------
(***************************************************************************)
(* Small instances of module Ingestion: values and messages for TLC.       *)
(***************************************************************************)
EXTENDS IngestionInvariant, TLC

MCValues == {"n1", "n2", "t1", "t2", "t?", "happy", "angry"}
MCUnparsable == {"t?"}

Flow(et, ec, ee, xt, xc, xe) ==
  [c \in Columns |->
     CASE c = "entry_time" -> et [] c = "entry_count" -> ec [] c = "enter_emotion" -> ee
       [] c = "exit_time" -> xt  [] c = "exit_count" -> xc  [] c = "exit_emotion" -> xe]

Enter1 == Flow("t1", "n1", "happy", Empty, Empty, Empty)
Exit1  == Flow(Empty, Empty, Empty, "t1", "n1", "happy")
Both1  == Flow("t1", "n1", "happy", "t2", "n1", "angry")
Both2  == Flow("t1", "n2", "happy", "t2", "n2", "angry")
Moved  == Flow("t1", "n2", "happy", "t2", "n1", "angry")
ByEntry == Flow(Empty, "n1", Empty, "t2", Empty, "angry")
Untold == Flow("t1", Empty, "happy", "t2", Empty, Empty)
BadIn  == Flow("t?", "n1", "happy", Empty, Empty, Empty)
BadOut == Flow(Empty, Empty, Empty, "t?", "n1", Empty)
NoCount == Flow(Empty, Empty, Empty, "t2", Empty, "angry")
Nothing == Flow(Empty, Empty, "happy", Empty, Empty, Empty)

\* Every branch of the case analysis.
AllMessages ==
  {Enter1, Exit1, Both1, Both2, Moved, ByEntry, Untold, BadIn, BadOut, NoCount, Nothing,
   WaitingSession, NoPayload}

\* Streams that fight for the row of one customer.
OneCustomer == {Enter1, Exit1, Moved}
EnterAndLeave == {Enter1, Exit1}

Symmetric == Permutations(Streams) \cup Permutations(Detections)
==================================================================================
