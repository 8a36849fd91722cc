--------------------------- MODULE AdmissionControl ---------------------------
(***************************************************************************)
(* What a limiter of concurrent work promises its users, whatever counters *)
(* and queues it is built from: at most Limit requests are inside at once, *)
(* and once it is closed nobody comes in any more.  The one exception is   *)
(* an emergency reset, which makes the limiter forget whoever is inside:   *)
(* `forgotten` is the number of places it will hand out a second time.     *)
(*                                                                         *)
(* ConnectionPool implements this specification.                           *)
(***************************************************************************)
EXTENDS Naturals, FiniteSets

CONSTANTS Clients,  \* the requests that may come in
          Limit     \* how many of them at once

VARIABLES inside,     \* the clients that are in
          closed,     \* nobody comes in any more
          forgotten   \* places given away by the last reset

acVars == <<inside, closed, forgotten>>

ACInit == inside = {} /\ closed = FALSE /\ forgotten = 0

Enter(c) ==
    /\ ~closed
    /\ c \notin inside
    /\ Cardinality(inside) < Limit + forgotten
    /\ inside' = inside \cup {c}
    /\ UNCHANGED <<closed, forgotten>>

Leave(c) ==
    /\ c \in inside
    /\ inside' = inside \ {c}
    /\ UNCHANGED <<closed, forgotten>>

\* c leaves and d takes its place in the same step.
PassOn(c, d) ==
    /\ ~closed
    /\ c \in inside
    /\ d \notin inside
    /\ inside' = (inside \ {c}) \cup {d}
    /\ UNCHANGED <<closed, forgotten>>

Close == closed' = TRUE /\ UNCHANGED <<inside, forgotten>>

Reset == forgotten' = Cardinality(inside) /\ UNCHANGED <<inside, closed>>

ACNext ==
    \/ \E c \in Clients : Enter(c) \/ Leave(c)
    \/ \E c, d \in Clients : PassOn(c, d)
    \/ Close
    \/ Reset

ACSpec == ACInit /\ [][ACNext]_acVars
===============================================================================
