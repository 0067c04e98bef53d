------------------------------ MODULE WorkerFSM ------------------------------
(***************************************************************************)
(* The state machine of one bot worker (internal/worker/worker.go): three  *)
(* states, the table of allowed edges, and the two questions the rest of   *)
(* the bot asks of it.  Pure operators, shared by the modules that hold    *)
(* workers.                                                                *)
(***************************************************************************)

\* The iota constants StateNormal, StateSlow and StatePause.
WorkerState == {"NORMAL", "SLOW", "PAUSE"}

\* The state NewWorker gives a worker.
StateOfNewWorker == "NORMAL"

\* The table of allowed edges.
validTransitions == [ NORMAL |-> {"SLOW", "PAUSE"},
                      SLOW   |-> {"NORMAL", "PAUSE"},
                      PAUSE  |-> {"NORMAL"} ]

\* Worker.Transition returns nil exactly on an edge of the table ...
Allowed(s, next) == next \in validTransitions[s]

\* ... and leaves the worker where it was otherwise.
Transition(s, next) == IF Allowed(s, next) THEN next ELSE s

\* Worker.CanPlaceOrders: only a paused worker is kept from quoting.
CanPlaceOrders(s) == s # "PAUSE"
==============================================================================
