------------------------------- MODULE BusLife -------------------------------
(***************************************************************************)
(* The life of one cDBusConnection as the code around it meets it, from    *)
(* the constructor to the return of the destructor: what Connection shows  *)
(* of itself, and what Plugin assumes of each of its buses.                *)
(***************************************************************************)
VARIABLES
  life,       \* see Life
  reconnects  \* the owner called Connect(TRUE)

lifeVars == <<life, reconnects>>

\* none: there is no connection object.  new: Connect was called, and the first
\* attempt is not answered.  failed: an attempt failed, the next may run.
\* losing: the name is lost, the connection is not yet closed.  lost: it is, and
\* the status is 0.  The destructor waits - closing: for the close of the
\* connection.  sinking: but the name is lost before.  doomed: but there is no
\* connection, and perhaps never will be.
Life == {"none", "new", "failed", "up", "losing", "lost", "closing", "sinking", "doomed"}

LifeInit == life = "none" /\ reconnects \in BOOLEAN

\* From one of the states S to one of the states T.
Turns(S, T) == life \in S /\ life' \in T

\* Connecting.  Without automatic reconnect the first attempt is the only one.
Create  == Turns({"none"}, {"new"})
Attempt == {"new"} \union (IF reconnects THEN {"failed", "lost"} ELSE {})
Up      == Turns(Attempt, {"up"})
Fails   == Turns(Attempt, {"failed"})

\* The bus is lost; the connection is closed at once or a little later.
Lost   == Turns({"up"}, {"losing", "lost", "failed"})
Closed == Turns({"losing"}, {"lost", "failed"})

\* The destructor returns at once when the status is 0, else it waits.
Vanish == Turns({"new", "lost"}, {"none"})
Close  == Turns({"up"}, {"closing"})
Doom   == Turns({"new", "failed", "lost"}, {"doomed"})
Sink   == Turns({"losing", "closing"}, {"sinking"})
Sunk   == Turns({"closing", "sinking"}, {"doomed"})
Save   == Turns({"sinking", "doomed"}, {"closing"})
Delete == Turns({"closing"}, {"none"})

LifeNext ==
  /\ \/ Create \/ Up \/ Fails \/ Lost \/ Closed
     \/ Vanish \/ Close \/ Doom \/ Sink \/ Sunk \/ Save \/ Delete
  /\ UNCHANGED reconnects

LifeSpec == LifeInit /\ [][LifeNext]_lifeVars
=============================================================================
