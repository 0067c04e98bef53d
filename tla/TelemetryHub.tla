---------------------------- MODULE TelemetryHub -----------------------------
(***************************************************************************)
(* The telemetry broker (internal/telemetry/hub.go) and the gRPC streams   *)
(* that read from it (StreamTelemetry in internal/api/grpc_server.go).     *)
(*                                                                         *)
(* One goroutine takes the events producers put into a bounded channel,    *)
(* copies the subscribers under the lock, and offers the event to each of  *)
(* them after it has let go of the lock; an event that does not fit into a *)
(* subscriber's channel is dropped.  A stream that ends deletes its        *)
(* subscription under the lock, drains its channel and closes it, which    *)
(* may all happen while the dispatcher still holds the copy.               *)
(***************************************************************************)
EXTENDS Naturals, Sequences, SequencesExt

CONSTANTS Bot,         \* bots that emit events
          Stream,      \* StreamTelemetry calls
          filter,      \* filter[s]: the bots stream s asks for; {} for all
          InboundCap,  \* capacity of the inbound channel (256 in the code)
          SubCap,      \* capacity of a subscriber's channel (64 in the code)
          MaxEvents    \* events published at most (a bound)

ASSUME HubAssumption ==
    /\ filter \in [Stream -> SUBSET Bot]
    /\ InboundCap \in Nat \ {0}
    /\ SubCap \in Nat \ {0}
    /\ MaxEvents \in Nat

\* The definitions named Wrong... are no part of the specification: each is the
\* definition after it with one slip, kept to see that a property notices.

VARIABLES inbound,     \* the inbound channel: events, as <<number, bot>>
          dispatcher,  \* "recv", "copy", "send", or "panic"
          event,       \* the event being dispatched
          pending,     \* subscribers in the dispatcher's copy, still to be served
          subscribers, \* the hub's map
          chan,        \* chan[s]: the channel of stream s
          closed,      \* closed[s]: it is closed
          stream,      \* stream[s]: where the call of s is
          published,   \* history: the bot of each event published so far
          copied,      \* history: number of the last event the copy was made for
          since,       \* history: copied, at the time s subscribed
          got,         \* history: numbers of the events s took from its channel
          dropped      \* history: numbers of the events that did not fit

hubVars == <<inbound, dispatcher, event, pending>>
vars == <<hubVars, subscribers, chan, closed, stream,
          published, copied, since, got, dropped>>

Number  == 1 .. MaxEvents
Event   == Number \X Bot
StreamState == {"new", "open", "delete", "drain", "close", "done"}

TypeOK ==
    /\ inbound \in Seq(Event) /\ Len(inbound) <= InboundCap
    /\ dispatcher \in {"recv", "copy", "send", "panic"}
    /\ dispatcher \in {"copy", "send"} => event \in Event
    /\ pending \in SUBSET Stream
    /\ subscribers \in SUBSET Stream
    /\ chan \in [Stream -> Seq(Number)]
    /\ \A s \in Stream : Len(chan[s]) <= SubCap
    /\ closed \in [Stream -> BOOLEAN]
    /\ stream \in [Stream -> StreamState]
    /\ published \in Seq(Bot) /\ Len(published) <= MaxEvents
    /\ copied \in 0 .. MaxEvents
    /\ since \in [Stream -> 0 .. MaxEvents]
    /\ got \in [Stream -> Seq(Number)]
    /\ dropped \in [Stream -> SUBSET Number]

Init ==
    /\ inbound = << >>
    /\ dispatcher = "recv"
    /\ event = << >>
    /\ pending = {}
    /\ subscribers = {}
    /\ chan = [s \in Stream |-> << >>]
    /\ closed = [s \in Stream |-> FALSE]
    /\ stream = [s \in Stream |-> "new"]
    /\ published = << >>
    /\ copied = 0
    /\ since = [s \in Stream |-> 0]
    /\ got = [s \in Stream |-> << >>]
    /\ dropped = [s \in Stream |-> {}]
------------------------------------------------------------------------------
\* A panic of the dispatcher takes the whole process down.
Up == dispatcher # "panic"

\* Stream s asked for the events of bot b.
Wants(s, b) == filter[s] = {} \/ b \in filter[s]

Goto(s, label) == stream' = [stream EXCEPT ![s] = label]

\* A producer puts an event of bot b into the inbound channel; it waits while
\* the channel is full.
Publish(b) ==
    /\ Up
    /\ Len(published) < MaxEvents
    /\ Len(inbound) < InboundCap
    /\ published' = Append(published, b)
    /\ inbound' = Append(inbound, <<Len(published) + 1, b>>)
    /\ UNCHANGED <<dispatcher, event, pending, subscribers, chan, closed, stream,
                   copied, since, got, dropped>>

\* run takes the next event ...
Receive ==
    /\ dispatcher = "recv"
    /\ inbound # << >>
    /\ event' = Head(inbound)
    /\ inbound' = Tail(inbound)
    /\ dispatcher' = "copy"
    /\ UNCHANGED <<pending, subscribers, chan, closed, stream,
                   published, copied, since, got, dropped>>

\* ... copies the subscriptions under the read lock ...
Copy ==
    /\ dispatcher = "copy"
    /\ pending' = subscribers
    /\ copied' = event[1]
    /\ dispatcher' = "send"
    /\ UNCHANGED <<inbound, event, subscribers, chan, closed, stream,
                   published, since, got, dropped>>

\* (The select has no default: the dispatcher waits for room.)
WrongOfferBlocking(s) ==
    /\ dispatcher = "send"
    /\ s \in pending
    /\ Wants(s, event[2]) => ~closed[s] /\ Len(chan[s]) < SubCap
    /\ pending' = pending \ {s}
    /\ chan' = IF Wants(s, event[2]) THEN [chan EXCEPT ![s] = Append(@, event[1])] ELSE chan
    /\ UNCHANGED <<inbound, dispatcher, event, subscribers, closed, stream,
                   published, copied, since, got, dropped>>

\* (The filter breaks the loop where it should only skip a subscriber.)
WrongOfferBreak(s) ==
    /\ dispatcher = "send"
    /\ s \in pending
    /\ pending' = IF Wants(s, event[2]) THEN pending \ {s} ELSE {}
    /\ \/ /\ Wants(s, event[2]) /\ ~closed[s] /\ Len(chan[s]) < SubCap
          /\ chan' = [chan EXCEPT ![s] = Append(@, event[1])]
          /\ UNCHANGED dropped
       \/ /\ Wants(s, event[2]) /\ ~closed[s] /\ Len(chan[s]) = SubCap
          /\ dropped' = [dropped EXCEPT ![s] = @ \cup {event[1]}]
          /\ UNCHANGED chan
       \/ /\ ~Wants(s, event[2])
          /\ UNCHANGED <<chan, dropped>>
    /\ UNCHANGED <<inbound, dispatcher, event, subscribers, closed, stream,
                   published, copied, since, got>>

\* ... offers the event to each of them without the lock: a full channel drops
\* it, and a closed one is a panic, full or not ...
OfferWithin(s, capacity) ==
    /\ dispatcher = "send"
    /\ s \in pending
    /\ pending' = pending \ {s}
    /\ \/ /\ ~Wants(s, event[2])
          /\ UNCHANGED <<dispatcher, chan, dropped>>
       \/ /\ Wants(s, event[2]) /\ closed[s]
          /\ dispatcher' = "panic"
          /\ UNCHANGED <<chan, dropped>>
       \/ /\ Wants(s, event[2]) /\ ~closed[s] /\ Len(chan[s]) < capacity
          /\ chan' = [chan EXCEPT ![s] = Append(@, event[1])]
          /\ UNCHANGED <<dispatcher, dropped>>
       \/ /\ Wants(s, event[2]) /\ ~closed[s] /\ Len(chan[s]) >= capacity
          /\ dropped' = [dropped EXCEPT ![s] = @ \cup {event[1]}]
          /\ UNCHANGED <<dispatcher, chan>>
    /\ UNCHANGED <<inbound, event, subscribers, closed, stream,
                   published, copied, since, got>>

\* (One place too many; one too few.)
WrongOfferUnbounded(s) == OfferWithin(s, SubCap + 1)
WrongOfferEager(s)     == OfferWithin(s, SubCap - 1)

Offer(s) == OfferWithin(s, SubCap)

\* (An event that did not fit somewhere is dispatched once more.)
WrongServed ==
    /\ dispatcher = "send"
    /\ pending = {}
    /\ dispatcher' = IF \E s \in Stream : event[1] \in dropped[s] THEN "copy" ELSE "recv"
    /\ UNCHANGED <<inbound, event, pending, subscribers, chan, closed, stream,
                   published, copied, since, got, dropped>>

\* ... and goes back for the next one.
Served ==
    /\ dispatcher = "send"
    /\ pending = {}
    /\ dispatcher' = "recv"
    /\ event' = << >>
    /\ UNCHANGED <<inbound, pending, subscribers, chan, closed, stream,
                   published, copied, since, got, dropped>>
------------------------------------------------------------------------------
\* StreamTelemetry subscribes.
Subscribe(s) ==
    /\ Up
    /\ stream[s] = "new"
    /\ subscribers' = subscribers \cup {s}
    /\ since' = [since EXCEPT ![s] = copied]
    /\ Goto(s, "open")
    /\ UNCHANGED <<hubVars, chan, closed, published, copied, got, dropped>>

\* It takes an event from its channel and, as telemetryToProto always fails,
\* goes round its loop without sending it to the client.
Take(s) ==
    /\ Up
    /\ stream[s] = "open"
    /\ chan[s] # << >>
    /\ got' = [got EXCEPT ![s] = Append(@, Head(chan[s]))]
    /\ chan' = [chan EXCEPT ![s] = Tail(@)]
    /\ UNCHANGED <<hubVars, subscribers, closed, stream,
                   published, copied, since, dropped>>

\* The client goes away: the deferred unsubscribe runs ...
Leave(s) ==
    /\ Up
    /\ stream[s] = "open"
    /\ Goto(s, "delete")
    /\ UNCHANGED <<hubVars, subscribers, chan, closed,
                   published, copied, since, got, dropped>>

\* ... deletes the subscription under the lock ...
Delete(s) ==
    /\ Up
    /\ stream[s] = "delete"
    /\ subscribers' = subscribers \ {s}
    /\ Goto(s, "drain")
    /\ UNCHANGED <<hubVars, chan, closed, published, copied, since, got, dropped>>

\* ... takes events off its channel until it is empty ...
Drain(s) ==
    /\ Up
    /\ stream[s] = "drain"
    /\ IF chan[s] = << >>
          THEN /\ Goto(s, "close")
               /\ UNCHANGED chan
          ELSE /\ chan' = [chan EXCEPT ![s] = Tail(@)]
               /\ UNCHANGED stream
    /\ UNCHANGED <<hubVars, subscribers, closed, published, copied, since, got, dropped>>

\* ... and closes it.
Close(s) ==
    /\ Up
    /\ stream[s] = "close"
    /\ closed' = [closed EXCEPT ![s] = TRUE]
    /\ Goto(s, "done")
    /\ UNCHANGED <<hubVars, subscribers, chan, published, copied, since, got, dropped>>
------------------------------------------------------------------------------
Dispatch == Receive \/ Copy \/ (\E s \in Stream : Offer(s)) \/ Served

Next == \/ \E b \in Bot : Publish(b)
        \/ Dispatch
        \/ \E s \in Stream : \/ Subscribe(s) \/ Take(s) \/ Leave(s)
                             \/ Delete(s) \/ Drain(s) \/ Close(s)

Spec == Init /\ [][Next]_vars

\* Only the dispatcher's goroutine is sure to run on: a client may be as slow as
\* it likes.
FairSpec == Spec /\ WF_vars(Dispatch)
------------------------------------------------------------------------------
(* Properties *)

\* Everything offered to s so far, in the order s sees it.
Seen(s) == got[s] \o chan[s]

\* A stream sees the events it asked for in the order they were published, each
\* at most once.
DeliveryInOrder ==
    \A s \in Stream :
        /\ \A i, j \in DOMAIN Seen(s) : i < j => Seen(s)[i] < Seen(s)[j]
        /\ \A i \in DOMAIN Seen(s) : Wants(s, published[Seen(s)[i]])

\* No event is lost without its channel having been full: a subscribed stream
\* has seen every event it wants that was copied since it subscribed, but for
\* the dropped ones and the one the dispatcher has still to offer to it.
NoSilentLoss ==
    \A s \in subscribers :
        {n \in since[s] + 1 .. copied : Wants(s, published[n])}
          \subseteq ToSet(Seen(s)) \cup dropped[s]
                    \cup (IF s \in pending THEN {event[1]} ELSE {})

\* The last event s has been offered: the one before the event that is being
\* dispatched, as long as the dispatcher has not come to s.
Passed(s) == IF s \in pending THEN event[1] - 1 ELSE copied

\* With all its goroutines, copies and locks, the hub is a feed in which each
\* stream has a place of its own.
Feed == INSTANCE TelemetryFeed WITH
            log      <- published,
            position <- [s \in subscribers |-> Passed(s)],
            queue    <- [s \in subscribers |-> chan[s]]

ImplementsFeed == Feed!Spec

\* A stalled subscriber never holds up the others: every event published is
\* offered to the subscribers in the end, whatever the streams do, unless the
\* process has crashed.
EventsAreDispatched ==
    \A n \in Number : Len(published) >= n ~> copied >= n \/ ~Up

\* The hub is "a thread-safe fan-out broker": no interleaving of its methods
\* and its goroutine crashes the process.
NeverPanics == Up
==============================================================================
