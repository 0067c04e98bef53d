---------------------------- MODULE TelemetryFeed ----------------------------
(***************************************************************************)
(* What the telemetry hub promises a stream: a place of its own in one log *)
(* of events, which it passes event by event from some point on.  An event *)
(* it asked for goes to its queue, and only a full queue loses it.  There  *)
(* are no copies, no locks and no dispatcher, and no stream waits for      *)
(* another.                                                                *)
(***************************************************************************)
EXTENDS Naturals, Sequences

CONSTANTS Bot, Stream, filter, SubCap \* as in TelemetryHub

VARIABLES log,      \* the bots of all events
          position, \* position[s]: number of events s has passed, for the
                    \* streams that are there
          queue     \* queue[s]: numbers of the events that wait for s

vars == <<log, position, queue>>

\* f with f[s] = v.
With(f, s, v) == [t \in DOMAIN f \cup {s} |-> IF t = s THEN v ELSE f[t]]

Without(f, s) == [t \in DOMAIN f \ {s} |-> f[t]]

Init ==
    /\ log = << >>
    /\ position = [s \in {} |-> 0]
    /\ queue = [s \in {} |-> << >>]

Publish(b) ==
    /\ log' = Append(log, b)
    /\ UNCHANGED <<position, queue>>

Join(s) ==
    /\ s \notin DOMAIN position
    /\ \E n \in 0 .. Len(log) : position' = With(position, s, n)
    /\ queue' = With(queue, s, << >>)
    /\ UNCHANGED log

AskedFor(s, b) == filter[s] = {} \/ b \in filter[s]

Pass(s) ==
    /\ s \in DOMAIN position
    /\ position[s] < Len(log)
    /\ position' = [position EXCEPT ![s] = @ + 1]
    /\ queue' = IF AskedFor(s, log[position[s] + 1]) /\ Len(queue[s]) < SubCap
                THEN [queue EXCEPT ![s] = Append(@, position[s] + 1)]
                ELSE queue
    /\ UNCHANGED log

Read(s) ==
    /\ s \in DOMAIN queue
    /\ queue[s] # << >>
    /\ queue' = [queue EXCEPT ![s] = Tail(@)]
    /\ UNCHANGED <<log, position>>

Leave(s) ==
    /\ s \in DOMAIN position
    /\ position' = Without(position, s)
    /\ queue' = Without(queue, s)
    /\ UNCHANGED log

Next == \/ \E b \in Bot : Publish(b)
        \/ \E s \in Stream : Join(s) \/ Pass(s) \/ Read(s) \/ Leave(s)

Spec == Init /\ [][Next]_vars
==============================================================================
