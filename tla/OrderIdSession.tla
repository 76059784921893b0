--------------------------- MODULE OrderIdSession ---------------------------
(***************************************************************************)
(* A trading session, as the id map sees it: every order has an id of its  *)
(* own, in the order of arrival, is looked up and inserted when it rests,  *)
(* and erased when it leaves the book.                                     *)
(***************************************************************************)
EXTENDS OrderIdMap

CONSTANT LastId  \* bound: how many orders arrive

VARIABLE arriving  \* the id of the next order

sessionVars == <<vars, arriving>>

SessionInit == Init /\ arriving = 1

\* submit(): an id that is not in use, and the first slot that is free.
Submit ==
  /\ arriving <= LastId
  /\ Live # Values
  /\ ~Holds(table, arriving)
  /\ Insert(arriving, Min(Values \ Live))
  /\ arriving' = arriving + 1

\* The order in slot v is filled.  To cancel it does the same to the table, if
\* find() can still reach it.
Leave(v) == Erase(order[v]) /\ UNCHANGED arriving

SessionSpec == SessionInit /\ [][Submit \/ \E v \in Live : Leave(v)]_sessionVars

=============================================================================
