-------------------------- MODULE TelemetryHubProofs -------------------------
(***************************************************************************)
(* What a stream sees of the telemetry, for any bots, streams and filters, *)
(* any capacities and any number of events.                                *)
(***************************************************************************)
EXTENDS TelemetryHub, SequenceTheorems, TLAPS

(* Types *)

\* Every step keeps the variables in their types.
LEMMA TypeStep == TypeOK /\ [Next]_vars => TypeOK'
<1> SUFFICES ASSUME TypeOK, [Next]_vars PROVE TypeOK'
  OBVIOUS
<1> USE HubAssumption
<1>1. ASSUME NEW b \in Bot, Publish(b)
      PROVE  TypeOK'
  <2>1. Len(published) \in Nat /\ Len(inbound) \in Nat
    BY LenProperties DEF TypeOK
  <2>2. <<Len(published) + 1, b>> \in Event
    BY <1>1, <2>1 DEF Publish, Event, Number
  <2>3. inbound' \in Seq(Event) /\ Len(inbound') = Len(inbound) + 1
    BY <1>1, <2>2, AppendProperties DEF Publish, TypeOK
  <2>4. published' \in Seq(Bot) /\ Len(published') = Len(published) + 1
    BY <1>1, AppendProperties DEF Publish, TypeOK
  <2>5. Len(inbound') <= InboundCap /\ Len(published') <= MaxEvents
    BY <1>1, <2>1, <2>3, <2>4 DEF Publish
  <2> QED
    BY <1>1, <2>3, <2>4, <2>5 DEF Publish, TypeOK
<1>2. ASSUME Receive
      PROVE  TypeOK'
  <2>1. /\ Head(inbound) \in Event /\ Tail(inbound) \in Seq(Event)
        /\ Len(Tail(inbound)) <= InboundCap
    BY <1>2, HeadTailProperties, LenProperties DEF Receive, TypeOK
  <2> QED
    BY <1>2, <2>1 DEF Receive, TypeOK
<1>3. ASSUME Copy
      PROVE  TypeOK'
  <2>1. event[1] \in 0 .. MaxEvents
    BY <1>3 DEF Copy, TypeOK, Event, Number
  <2> QED
    BY <1>3, <2>1 DEF Copy, TypeOK
<1>4. ASSUME NEW s \in Stream, Offer(s)
      PROVE  TypeOK'
  <2>1. event[1] \in Number
    <3>1. dispatcher = "send"
      BY <1>4 DEF Offer, OfferWithin
    <3>2. event \in Event
      BY <3>1 DEF TypeOK
    <3> QED
      BY <3>2 DEF Event
  <2>2. /\ dispatcher' \in {dispatcher, "panic"} /\ dispatcher = "send"
        /\ pending' = pending \ {s}
        /\ dropped' \in {dropped, [dropped EXCEPT ![s] = @ \cup {event[1]}]}
        /\ \/ UNCHANGED chan
           \/ chan' = [chan EXCEPT ![s] = Append(@, event[1])] /\ Len(chan[s]) < SubCap
        /\ UNCHANGED <<inbound, event, subscribers, closed, stream,
                       published, copied, since, got>>
    BY <1>4 DEF Offer, OfferWithin
  <2>3. dropped' \in [Stream -> SUBSET Number]
    <3>1. dropped \in [Stream -> SUBSET Number]
      BY DEF TypeOK
    <3>2. dropped[s] \cup {event[1]} \in SUBSET Number
      BY <2>1, <3>1
    <3> QED
      BY <2>2, <3>1, <3>2
  <2>4. chan' \in [Stream -> Seq(Number)] /\ \A t \in Stream : Len(chan'[t]) <= SubCap
    <3>1. /\ Append(chan[s], event[1]) \in Seq(Number)
          /\ Len(Append(chan[s], event[1])) = Len(chan[s]) + 1 /\ Len(chan[s]) \in Nat
      BY <2>1, AppendProperties, LenProperties DEF TypeOK
    <3>2. chan \in [Stream -> Seq(Number)] /\ \A t \in Stream : Len(chan[t]) <= SubCap
      BY DEF TypeOK
    <3>3. Len(chan[s]) < SubCap => Len(chan[s]) + 1 <= SubCap
      BY <3>1, HubAssumption
    <3> QED
      BY <2>2, <3>1, <3>2, <3>3
  <2> QED
    BY <2>2, <2>3, <2>4 DEF TypeOK
<1>5. CASE Served
  BY <1>5 DEF Served, TypeOK
<1>6. ASSUME NEW s \in Stream, Take(s)
      PROVE  TypeOK'
  <2>1. /\ Head(chan[s]) \in Number /\ Tail(chan[s]) \in Seq(Number)
        /\ Len(Tail(chan[s])) <= SubCap
    BY <1>6, HeadTailProperties, LenProperties DEF Take, TypeOK
  <2>2. Append(got[s], Head(chan[s])) \in Seq(Number)
    BY <2>1, AppendProperties DEF TypeOK
  <2> QED
    BY <1>6, <2>1, <2>2 DEF Take, TypeOK, hubVars
<1>7. ASSUME NEW s \in Stream, Drain(s)
      PROVE  TypeOK'
  <2>1. chan[s] # << >> => Tail(chan[s]) \in Seq(Number) /\ Len(Tail(chan[s])) <= SubCap
    BY HeadTailProperties, LenProperties DEF TypeOK
  <2> QED
    BY <1>7, <2>1 DEF Drain, Goto, TypeOK, hubVars, StreamState
<1>8. ASSUME NEW s \in Stream, Subscribe(s) \/ Leave(s) \/ Delete(s) \/ Close(s)
      PROVE  TypeOK'
  BY <1>8 DEF Subscribe, Leave, Delete, Close, Goto, TypeOK, hubVars, StreamState
<1>9. CASE UNCHANGED vars
  BY <1>9 DEF vars, hubVars, TypeOK
<1> QED
  BY <1>1, <1>2, <1>3, <1>4, <1>5, <1>6, <1>7, <1>8, <1>9 DEF Next, Dispatch

\* The variables start in their types.
LEMMA TypeInit == Init => TypeOK
<1>1. \A S : << >> \in Seq(S) /\ Len(<< >>) = 0
  BY EmptySeq
<1> QED
  BY <1>1, HubAssumption DEF Init, TypeOK, StreamState

\* The hub's variables keep their types: no channel holds more than it can.
THEOREM TypeCorrect == Spec => []TypeOK
  BY TypeInit, TypeStep, PTL DEF Spec
------------------------------------------------------------------------------
(* Sequences *)

\* What goes into a stream's channel goes to the end of what it has seen.
LEMMA AppendRight ==
    ASSUME NEW S, NEW g \in Seq(S), NEW c \in Seq(S), NEW n \in S
    PROVE  g \o Append(c, n) = Append(g \o c, n)
<1> DEFINE a == Append(c, n)
           b == g \o c
           l == g \o a
           r == Append(b, n)
<1>0. a \in Seq(S) /\ b \in Seq(S)
  BY AppendProperties, ConcatProperties
<1>1. /\ a \in Seq(S) /\ Len(a) = Len(c) + 1
      /\ \A i \in 1 .. Len(c) : a[i] = c[i]
      /\ a[Len(c) + 1] = n
  BY AppendProperties
<1>2. /\ b \in Seq(S) /\ Len(b) = Len(g) + Len(c)
      /\ \A i \in 1 .. Len(g) + Len(c) : b[i] = IF i <= Len(g) THEN g[i] ELSE c[i - Len(g)]
  BY ConcatProperties
<1> HIDE DEF a, b
<1>3. /\ l \in Seq(S) /\ Len(l) = Len(g) + Len(a)
      /\ \A i \in 1 .. Len(g) + Len(a) : l[i] = IF i <= Len(g) THEN g[i] ELSE a[i - Len(g)]
  BY <1>0, ConcatProperties, Zenon
<1>4. /\ r \in Seq(S) /\ Len(r) = Len(b) + 1
      /\ \A i \in 1 .. Len(b) : r[i] = b[i]
      /\ r[Len(b) + 1] = n
  BY <1>2, AppendProperties
<1>5. Len(g) \in Nat /\ Len(c) \in Nat
  BY LenProperties
<1> HIDE DEF l, r
<1>6. ASSUME NEW i \in 1 .. Len(l)
      PROVE  l[i] = r[i]
  <2>0. i \in Int /\ 1 <= i /\ i <= Len(g) + Len(c) + 1
    BY <1>1, <1>3, <1>5
  <2>1. CASE i <= Len(g)
    <3>1. i \in 1 .. Len(g) + Len(a) /\ i \in 1 .. Len(g) + Len(c) /\ i \in 1 .. Len(b)
      BY <2>0, <2>1, <1>1, <1>2, <1>5
    <3>2. l[i] = g[i]
      BY <2>1, <3>1, <1>3
    <3>3. r[i] = g[i]
      BY <2>1, <3>1, <1>2, <1>4
    <3> QED
      BY <3>2, <3>3
  <2>2. CASE i > Len(g) /\ i < Len(g) + Len(c) + 1
    <3>1. i - Len(g) \in 1 .. Len(c) /\ i \in 1 .. Len(g) + Len(c) /\ ~(i <= Len(g))
      BY <2>0, <2>2, <1>5
    <3>2. l[i] = c[i - Len(g)]
      BY <3>1, <1>1, <1>3, <1>5
    <3>3. r[i] = c[i - Len(g)]
      BY <3>1, <1>2, <1>4
    <3> QED
      BY <3>2, <3>3
  <2>3. CASE i = Len(g) + Len(c) + 1
    <3>1. i - Len(g) = Len(c) + 1 /\ ~(i <= Len(g)) /\ i \in 1 .. Len(g) + Len(a)
      BY <2>0, <2>3, <1>1, <1>5
    <3>2. l[i] = n
      BY <3>1, <1>1, <1>3
    <3> QED
      BY <2>3, <3>2, <1>2, <1>4
  <2>4. i <= Len(g) \/ (i > Len(g) /\ i < Len(g) + Len(c) + 1) \/ i = Len(g) + Len(c) + 1
    BY <2>0, <1>5
  <2> QED
    BY <2>1, <2>2, <2>3, <2>4
<1>7. l = r
  BY <1>1, <1>2, <1>3, <1>4, <1>5, <1>6, SeqEqual
<1> QED
  BY <1>7 DEF l, r, a, b

\* An event a stream takes from its channel stays among what it has seen.
LEMMA MoveHead ==
    ASSUME NEW S, NEW g \in Seq(S), NEW c \in Seq(S), c # << >>
    PROVE  Append(g, Head(c)) \o Tail(c) = g \o c
<1> DEFINE a == Append(g, Head(c))
           l == a \o Tail(c)
           r == g \o c
<1>1. /\ Head(c) \in S /\ Tail(c) \in Seq(S) /\ Len(Tail(c)) = Len(c) - 1
      /\ \A i \in 1 .. Len(Tail(c)) : Tail(c)[i] = c[i + 1]
      /\ Head(c) = c[1] /\ Len(c) \in Nat \ {0} /\ Len(g) \in Nat
  BY HeadTailProperties, EmptySeq, LenProperties
<1>2. /\ a \in Seq(S) /\ Len(a) = Len(g) + 1
      /\ \A i \in 1 .. Len(g) : a[i] = g[i]
      /\ a[Len(g) + 1] = c[1]
  BY <1>1, AppendProperties
<1>3. /\ r \in Seq(S) /\ Len(r) = Len(g) + Len(c)
      /\ \A i \in 1 .. Len(g) + Len(c) : r[i] = IF i <= Len(g) THEN g[i] ELSE c[i - Len(g)]
  BY ConcatProperties
<1> HIDE DEF a
<1>4. /\ l \in Seq(S) /\ Len(l) = Len(a) + Len(Tail(c))
      /\ \A i \in 1 .. Len(a) + Len(Tail(c)) : l[i] = IF i <= Len(a) THEN a[i] ELSE Tail(c)[i - Len(a)]
  BY <1>1, <1>2, ConcatProperties
<1> HIDE DEF l, r
<1>5. ASSUME NEW i \in 1 .. Len(l)
      PROVE  l[i] = r[i]
  <2>1. CASE i <= Len(g)
    <3>1. /\ i \in 1 .. Len(a) + Len(Tail(c)) /\ i \in 1 .. Len(g) + Len(c)
          /\ i \in 1 .. Len(g) /\ i <= Len(a)
      BY <2>1, <1>1, <1>2, <1>4
    <3>2. l[i] = g[i]
      BY <3>1, <1>2, <1>4
    <3>3. r[i] = g[i]
      BY <2>1, <3>1, <1>3
    <3> QED
      BY <3>2, <3>3
  <2>2. CASE i = Len(g) + 1
    BY <2>2, <1>1, <1>2, <1>3, <1>4
  <2>3. CASE i > Len(g) + 1
    <3>1. /\ i - Len(a) \in 1 .. Len(Tail(c)) /\ i - Len(a) + 1 = i - Len(g)
          /\ ~(i <= Len(a)) /\ ~(i <= Len(g)) /\ i \in 1 .. Len(g) + Len(c)
      BY <2>3, <1>1, <1>2, <1>4
    <3>2. l[i] = Tail(c)[i - Len(a)]
      BY <3>1, <1>4
    <3>3. Tail(c)[i - Len(a)] = c[i - Len(g)]
      BY <3>1, <1>1
    <3>4. r[i] = c[i - Len(g)]
      BY <3>1, <1>3
    <3> QED
      BY <3>2, <3>3, <3>4
  <2> QED
    BY <1>1, <1>4, <2>1, <2>2, <2>3
<1>6. l = r
  BY <1>1, <1>2, <1>3, <1>4, <1>5, SeqEqual
<1> QED
  BY <1>6 DEF l, r, a

\* What a stream drains from its channel leaves the others in their order.
LEMMA DropHead ==
    ASSUME NEW S, NEW g \in Seq(S), NEW c \in Seq(S), c # << >>
    PROVE  /\ Len(g \o Tail(c)) + 1 = Len(g \o c) /\ Len(g) \in Nat
           /\ \A i \in 1 .. Len(g \o Tail(c)) :
                 (g \o Tail(c))[i] = (g \o c)[IF i <= Len(g) THEN i ELSE i + 1]
<1> DEFINE l == g \o Tail(c)
           r == g \o c
<1>1. /\ Tail(c) \in Seq(S) /\ Len(Tail(c)) = Len(c) - 1
      /\ \A i \in 1 .. Len(Tail(c)) : Tail(c)[i] = c[i + 1]
      /\ Len(c) \in Nat \ {0} /\ Len(g) \in Nat
  BY HeadTailProperties, EmptySeq, LenProperties
<1>2. /\ Len(r) = Len(g) + Len(c)
      /\ \A i \in 1 .. Len(g) + Len(c) : r[i] = IF i <= Len(g) THEN g[i] ELSE c[i - Len(g)]
  BY ConcatProperties
<1>3. /\ Len(l) = Len(g) + Len(Tail(c))
      /\ \A i \in 1 .. Len(g) + Len(Tail(c)) :
            l[i] = IF i <= Len(g) THEN g[i] ELSE Tail(c)[i - Len(g)]
  BY <1>1, ConcatProperties
<1> HIDE DEF l, r
<1>4. ASSUME NEW i \in 1 .. Len(l)
      PROVE  l[i] = r[IF i <= Len(g) THEN i ELSE i + 1]
  <2>1. CASE i <= Len(g)
    BY <2>1, <1>1, <1>2, <1>3
  <2>2. CASE ~(i <= Len(g))
    <3>1. /\ i - Len(g) \in 1 .. Len(Tail(c)) /\ i + 1 \in 1 .. Len(g) + Len(c)
          /\ (i + 1) - Len(g) = (i - Len(g)) + 1 /\ ~(i + 1 <= Len(g))
      BY <2>2, <1>1, <1>3
    <3>2. l[i] = c[(i - Len(g)) + 1]
      BY <2>2, <3>1, <1>1, <1>3
    <3>3. r[i + 1] = c[(i + 1) - Len(g)]
      BY <3>1, <1>2
    <3> QED
      BY <2>2, <3>1, <3>2, <3>3
  <2> QED
    BY <2>1, <2>2
<1>5. Len(l) + 1 = Len(r)
  BY <1>1, <1>2, <1>3
<1> QED
  BY <1>1, <1>4, <1>5 DEF l, r
------------------------------------------------------------------------------
(* The inductive invariant *)

\* A stream is in the hub's map exactly while it has subscribed and not yet
\* deleted itself, and its channel is closed at the very end.
Stages ==
    \A s \in Stream :
        /\ s \in subscribers <=> stream[s] \in {"open", "delete"}
        /\ closed[s] => stream[s] = "done"

\* How many events have left the inbound channel.
base == Len(published) - Len(inbound)

\* The inbound channel holds the events published last, and the dispatcher the
\* one before them; it has made its copy for that one or is about to.
Numbering ==
    /\ Len(inbound) <= Len(published)
    /\ \A i \in 1 .. Len(inbound) : inbound[i] = <<base + i, published[base + i]>>
    /\ dispatcher \in {"copy", "send"} => base >= 1 /\ event = <<base, published[base]>>
    /\ dispatcher \in {"recv", "send"} => copied = base
    /\ dispatcher = "copy" => copied = base - 1
    /\ dispatcher \in {"recv", "copy"} => pending = {}
    /\ copied <= base

\* A stream has seen nothing later than the event the copy was made for, and
\* not that one before it is offered.
NothingEarly ==
    \A s \in Stream : \A i \in 1 .. Len(Seen(s)) :
        /\ Seen(s)[i] <= copied
        /\ dispatcher = "send" /\ s \in pending => Seen(s)[i] < event[1]

HubInv == TypeOK /\ Stages /\ Numbering /\ NothingEarly /\ DeliveryInOrder /\ NoSilentLoss
------------------------------------------------------------------------------
(* It is inductive *)

\* A subscription and its stream keep in step.
LEMMA StagesStep == TypeOK /\ Stages /\ [Next]_vars => Stages'
<1> SUFFICES ASSUME TypeOK, Stages, [Next]_vars PROVE Stages'
  OBVIOUS
<1>1. ASSUME UNCHANGED <<subscribers, stream, closed>>
      PROVE  Stages'
  BY <1>1 DEF Stages
<1>2. ASSUME NEW s \in Stream, Subscribe(s) \/ Leave(s) \/ Delete(s) \/ Drain(s) \/ Close(s)
      PROVE  Stages'
  <2>1. CASE Subscribe(s) \/ Leave(s) \/ Delete(s)
    <3>1. /\ closed' = closed /\ stream[s] # "done" /\ stream[s] \in {"new", "open", "delete"}
          /\ s \in subscribers' <=> stream'[s] \in {"open", "delete"}
          /\ \A t \in Stream \ {s} : stream'[t] = stream[t] /\ (t \in subscribers' <=> t \in subscribers)
      <4>1. CASE Subscribe(s)
        BY <4>1 DEF Subscribe, Goto, TypeOK
      <4>2. CASE Leave(s)
        <5>1. s \in subscribers
          BY <4>2 DEF Leave, Stages
        <5> QED
          BY <4>2, <5>1 DEF Leave, Goto, TypeOK
      <4>3. CASE Delete(s)
        BY <4>3 DEF Delete, Goto, TypeOK
      <4> QED
        BY <2>1, <4>1, <4>2, <4>3
    <3>2. ASSUME NEW t \in Stream
          PROVE  /\ t \in subscribers' <=> stream'[t] \in {"open", "delete"}
                 /\ closed'[t] => stream'[t] = "done"
      <4>1. /\ t \in subscribers <=> stream[t] \in {"open", "delete"}
            /\ closed[t] => stream[t] = "done"
        BY DEF Stages
      <4>2. CASE t = s
        BY <3>1, <4>1, <4>2
      <4>3. CASE t # s
        <5>1. stream'[t] = stream[t] /\ (t \in subscribers' <=> t \in subscribers) /\ closed' = closed
          BY <3>1, <4>3
        <5> QED
          BY <4>1, <5>1
      <4> QED
        BY <4>2, <4>3
    <3> QED
      BY <3>2 DEF Stages
  <2>2. CASE Drain(s) \/ Close(s)
    BY <2>2 DEF Drain, Close, Goto, Stages, TypeOK
  <2> QED
    BY <1>2, <2>1, <2>2
<1> QED
  BY <1>1, <1>2 DEF Next, Dispatch, vars, hubVars, Publish, Receive, Copy, Offer, OfferWithin, Served, Take

\* The events keep their numbers on the way through the inbound channel.
LEMMA NumberingStep == TypeOK /\ Numbering /\ [Next]_vars => Numbering'
<1> SUFFICES ASSUME TypeOK, Numbering, [Next]_vars PROVE Numbering'
  OBVIOUS
<1>0. /\ Len(inbound) \in Nat /\ Len(published) \in Nat /\ base \in Nat
      /\ Len(inbound) <= Len(published) /\ copied \in Nat /\ base + Len(inbound) = Len(published)
  <2>1. Len(inbound) \in Nat /\ Len(published) \in Nat
    BY LenProperties DEF TypeOK
  <2> QED
    BY <2>1 DEF TypeOK, Numbering, base
<1>1. ASSUME NEW b \in Bot, Publish(b)
      PROVE  Numbering'
  <2> DEFINE e == <<Len(published) + 1, b>>
  <2>1. e \in Event
    BY <1>0, <1>1, HubAssumption DEF Publish, Event, Number
  <2>2. /\ Len(inbound') = Len(inbound) + 1
        /\ \A i \in 1 .. Len(inbound) : inbound'[i] = inbound[i]
        /\ inbound'[Len(inbound) + 1] = e
    <3> HIDE DEF e
    <3>1. inbound' = Append(inbound, e)
      BY <1>1 DEF Publish, e
    <3> QED
      BY <2>1, <3>1, AppendProperties DEF TypeOK
  <2>3. /\ Len(published') = Len(published) + 1
        /\ \A i \in 1 .. Len(published) : published'[i] = published[i]
        /\ published'[Len(published) + 1] = b
    BY <1>1, AppendProperties DEF Publish, TypeOK
  <2>4. base' = base
    BY <2>2, <2>3, <1>0 DEF base
  <2>5. ASSUME NEW i \in 1 .. Len(inbound')
        PROVE  inbound'[i] = <<base' + i, published'[base' + i]>>
    <3>1. CASE i = Len(inbound) + 1
      <4>1. base + i = Len(published) + 1
        BY <3>1, <1>0 DEF base
      <4> QED
        BY <3>1, <4>1, <2>2, <2>3, <2>4
    <3>2. CASE i # Len(inbound) + 1
      <4>1. i \in 1 .. Len(inbound) /\ base + i \in 1 .. Len(published)
        BY <3>2, <2>2, <1>0
      <4> QED
        BY <4>1, <2>2, <2>3, <2>4 DEF Numbering
    <3> QED
      BY <3>1, <3>2
  <2>6. base >= 1 => published'[base] = published[base]
    BY <2>3, <1>0
  <2>7. Len(inbound') <= Len(published')
    BY <1>0, <2>2, <2>3
  <2>8. UNCHANGED <<dispatcher, event, pending, copied>>
    BY <1>1 DEF Publish
  <2> QED
    BY <2>4, <2>5, <2>6, <2>7, <2>8 DEF Numbering
<1>2. ASSUME Receive
      PROVE  Numbering'
  <2>1. /\ Len(inbound') = Len(inbound) - 1 /\ Len(inbound) >= 1
        /\ \A i \in 1 .. Len(inbound') : inbound'[i] = inbound[i + 1]
        /\ event' = inbound[1]
    <3>1. Len(inbound) \in Nat \ {0}
      BY <1>2, EmptySeq DEF Receive, TypeOK
    <3> QED
      BY <1>2, <3>1, HeadTailProperties DEF Receive, TypeOK
  <2>2. base' = base + 1
    BY <1>2, <1>0, <2>1 DEF Receive, base
  <2>3. ASSUME NEW i \in 1 .. Len(inbound')
        PROVE  inbound'[i] = <<base' + i, published'[base' + i]>>
    <3>1. i + 1 \in 1 .. Len(inbound) /\ base + (i + 1) = base' + i
      BY <1>0, <2>1, <2>2
    <3> QED
      BY <3>1, <2>1, <1>2 DEF Numbering, Receive
  <2>4. event' = <<base', published'[base']>>
    <3>1. 1 \in 1 .. Len(inbound)
      BY <1>0, <2>1
    <3> QED
      BY <3>1, <2>1, <2>2, <1>2 DEF Numbering, Receive
  <2>5. base' >= 1 /\ copied = base' - 1 /\ Len(inbound') <= Len(published')
    BY <1>2, <1>0, <2>1, <2>2 DEF Numbering, Receive
  <2>6. dispatcher' = "copy" /\ pending' = {} /\ base' >= 1
    BY <1>2, <1>0, <2>2 DEF Receive, Numbering
  <2>7. base' \in Int /\ copied' = base' - 1
    BY <1>2, <1>0, <2>2, <2>5 DEF Receive
  <2> QED
    BY <2>3, <2>4, <2>5, <2>6, <2>7 DEF Numbering
<1>3. ASSUME Copy
      PROVE  Numbering'
  <2>1. base' = base
    BY <1>3 DEF Copy, base
  <2>2. event[1] = base
    BY <1>3 DEF Copy, Numbering
  <2> QED
    BY <1>0, <1>3, <2>1, <2>2 DEF Copy, Numbering
<1>4. ASSUME NEW s \in Stream, Offer(s)
      PROVE  Numbering'
  <2>1. base' = base
    BY <1>4 DEF Offer, OfferWithin, base
  <2> QED
    BY <1>4, <2>1 DEF Offer, OfferWithin, Numbering
<1>5. ASSUME Served
      PROVE  Numbering'
  <2>1. base' = base
    BY <1>5 DEF Served, base
  <2> QED
    BY <1>5, <2>1 DEF Served, Numbering
<1>6. ASSUME UNCHANGED <<inbound, dispatcher, event, pending, published, copied>>
      PROVE  Numbering'
  BY <1>6 DEF Numbering, base
<1> QED
  BY <1>1, <1>2, <1>3, <1>4, <1>5, <1>6
  DEF Next, Dispatch, vars, hubVars, Subscribe, Take, Leave, Delete, Drain, Close

\* What a step does to what a stream has seen: nothing, or it is offered the
\* event, or it drains one from its channel.
LEMMA SeenStep ==
    ASSUME TypeOK, Next, NEW t \in Stream
    PROVE  \/ Seen(t)' = Seen(t)
           \/ /\ Offer(t) /\ Wants(t, event[2])
              /\ Seen(t)' = Append(Seen(t), event[1])
           \/ /\ stream[t] = "drain" /\ dispatcher' = dispatcher /\ UNCHANGED <<pending, event, copied>>
              /\ Len(Seen(t)') + 1 = Len(Seen(t)) /\ Len(got[t]) \in Nat
              /\ \A i \in 1 .. Len(Seen(t)') :
                    Seen(t)'[i] = Seen(t)[IF i <= Len(got[t]) THEN i ELSE i + 1]
<1>1. got[t] \in Seq(Number) /\ chan[t] \in Seq(Number)
  BY DEF TypeOK
<1>2. ASSUME got'[t] = got[t], chan'[t] = chan[t]
      PROVE  Seen(t)' = Seen(t)
  BY <1>2 DEF Seen
<1>3. ASSUME NEW s \in Stream, Offer(s)
      PROVE  \/ got'[t] = got[t] /\ chan'[t] = chan[t]
             \/ /\ Offer(t) /\ Wants(t, event[2])
                /\ Seen(t)' = Append(Seen(t), event[1])
  <2>1. event[1] \in Number
    BY <1>3 DEF Offer, OfferWithin, TypeOK, Event
  <2>2. CASE s = t /\ chan' = [chan EXCEPT ![s] = Append(@, event[1])] /\ Wants(s, event[2])
    <3>1. chan'[t] = Append(chan[t], event[1]) /\ got'[t] = got[t]
      BY <1>3, <2>2 DEF Offer, OfferWithin, TypeOK
    <3> QED
      <4>1. got[t] \o Append(chan[t], event[1]) = Append(got[t] \o chan[t], event[1])
        <5> DEFINE g == got[t]
                   c == chan[t]
                   n == event[1]
        <5>1. g \in Seq(Number) /\ c \in Seq(Number) /\ n \in Number
          BY <1>1, <2>1
        <5> HIDE DEF g, c, n
        <5>2. g \o Append(c, n) = Append(g \o c, n)
          BY <5>1, AppendRight
        <5> QED
          BY <5>2 DEF g, c, n
      <4> QED
        BY <1>3, <2>2, <3>1, <4>1 DEF Seen
  <2>3. CASE s # t
    BY <1>3, <2>3 DEF Offer, OfferWithin, TypeOK
  <2>4. CASE UNCHANGED chan
    BY <1>3, <2>4 DEF Offer, OfferWithin
  <2> QED
    BY <1>3, <2>2, <2>3, <2>4 DEF Offer, OfferWithin
<1>4. ASSUME NEW s \in Stream, Take(s)
      PROVE  Seen(t)' = Seen(t)
  <2>1. CASE s = t
    <3>1. /\ got'[t] = Append(got[t], Head(chan[t])) /\ chan'[t] = Tail(chan[t])
          /\ chan[t] # << >>
      BY <1>4, <2>1 DEF Take, TypeOK
    <3> QED
      BY <1>1, <3>1, MoveHead DEF Seen
  <2>2. CASE s # t
    BY <1>2, <1>4, <2>2 DEF Take, TypeOK
  <2> QED
    BY <2>1, <2>2
<1>5. ASSUME Drain(t), chan[t] # << >>
      PROVE  /\ stream[t] = "drain" /\ dispatcher' = dispatcher /\ UNCHANGED <<pending, event, copied>>
             /\ Len(Seen(t)') + 1 = Len(Seen(t)) /\ Len(got[t]) \in Nat
             /\ \A i \in 1 .. Len(Seen(t)') :
                   Seen(t)'[i] = Seen(t)[IF i <= Len(got[t]) THEN i ELSE i + 1]
  <2>1. chan'[t] = Tail(chan[t]) /\ got'[t] = got[t]
    BY <1>5 DEF Drain, TypeOK
  <2>2. Seen(t)' = got[t] \o Tail(chan[t]) /\ Seen(t) = got[t] \o chan[t]
    BY <2>1 DEF Seen
  <2>3. stream[t] = "drain" /\ UNCHANGED <<dispatcher, pending, event, copied>>
    BY <1>5 DEF Drain, hubVars
  <2>4. /\ Len(got[t] \o Tail(chan[t])) + 1 = Len(got[t] \o chan[t]) /\ Len(got[t]) \in Nat
        /\ \A i \in 1 .. Len(got[t] \o Tail(chan[t])) :
              (got[t] \o Tail(chan[t]))[i] = (got[t] \o chan[t])[IF i <= Len(got[t]) THEN i ELSE i + 1]
    <3> DEFINE g == got[t]
               c == chan[t]
    <3>1. g \in Seq(Number) /\ c \in Seq(Number) /\ c # << >>
      BY <1>1, <1>5
    <3> HIDE DEF g, c
    <3>2. /\ Len(g \o Tail(c)) + 1 = Len(g \o c) /\ Len(g) \in Nat
          /\ \A i \in 1 .. Len(g \o Tail(c)) :
                (g \o Tail(c))[i] = (g \o c)[IF i <= Len(g) THEN i ELSE i + 1]
      BY <3>1, DropHead
    <3> QED
      BY <3>2 DEF g, c
  <2> QED
    BY <2>2, <2>3, <2>4, Zenon
<1>6. ASSUME NEW s \in Stream, Drain(s), s # t \/ chan[t] = << >>
      PROVE  got'[t] = got[t] /\ chan'[t] = chan[t]
  BY <1>6 DEF Drain, TypeOK
<1>7. ASSUME UNCHANGED <<got, chan>>
      PROVE  got'[t] = got[t] /\ chan'[t] = chan[t]
  BY <1>7
<1> QED
  <2>1. CASE \E s \in Stream : Offer(s)
    BY <2>1, <1>2, <1>3, Zenon
  <2>2. CASE \E s \in Stream : Take(s)
    BY <2>2, <1>4, Zenon
  <2>3. CASE \E s \in Stream : Drain(s)
    <3>1. CASE Drain(t) /\ chan[t] # << >>
      BY <3>1, <1>5, Zenon
    <3>2. CASE ~(Drain(t) /\ chan[t] # << >>)
      BY <2>3, <3>2, <1>2, <1>6, Zenon
    <3> QED
      BY <3>1, <3>2
  <2>4. CASE UNCHANGED <<got, chan>>
    BY <2>4, <1>2, <1>7, Zenon
  <2> QED
    BY <2>1, <2>2, <2>3, <2>4
    DEF Next, Dispatch, hubVars, Publish, Receive, Copy, Served, Subscribe, Leave, Delete, Close

\* What a stream has seen is a sequence of event numbers.
LEMMA SeenType ==
    ASSUME TypeOK, NEW t \in Stream
    PROVE  /\ Len(Seen(t)) \in Nat /\ DOMAIN Seen(t) = 1 .. Len(Seen(t))
           /\ \A i \in 1 .. Len(Seen(t)) : Seen(t)[i] \in Nat /\ Seen(t)[i] >= 1
<1>1. got[t] \in Seq(Number) /\ chan[t] \in Seq(Number)
  BY DEF TypeOK
<1>2. Seen(t) \in Seq(Number)
  BY <1>1, ConcatProperties DEF Seen
<1> QED
  BY <1>2, LenProperties, ElementOfSeq, HubAssumption DEF Number

\* Only the copy moves the dispatcher on, by one event, and an event that was
\* dispatched is published and stays what it was.
LEMMA CopyStep ==
    ASSUME TypeOK, Numbering, Next
    PROVE  /\ copied \in Nat
           /\ \A n \in 1 .. copied : published'[n] = published[n]
           /\ \/ /\ Copy /\ event[1] = copied + 1 /\ pending = {}
              \/ /\ copied' = copied
                 /\ dispatcher' = "send" => dispatcher = "send" /\ event' = event /\ pending' \subseteq pending
<1>1. copied \in Nat /\ Len(published) \in Nat /\ copied <= Len(published)
  <2>1. Len(inbound) \in Nat /\ Len(published) \in Nat
    BY LenProperties DEF TypeOK
  <2> QED
    BY <2>1 DEF TypeOK, Numbering, base
<1>2. ASSUME NEW n \in 1 .. copied, NEW b \in Bot, published' = Append(published, b)
      PROVE  published'[n] = published[n]
  <2>1. n \in 1 .. Len(published)
    BY <1>1
  <2> QED
    BY <1>2, <2>1, AppendProperties DEF TypeOK
<1>3. \A n \in 1 .. copied : published'[n] = published[n]
  BY <1>2 DEF Next, Dispatch, hubVars, Publish, Receive, Copy, Offer, OfferWithin, Served,
              Subscribe, Take, Leave, Delete, Drain, Close
<1>4. ASSUME Copy
      PROVE  event[1] = copied + 1 /\ pending = {}
  <2>1. Len(inbound) \in Nat /\ Len(published) \in Nat
    BY LenProperties DEF TypeOK
  <2>2. event[1] = base /\ copied = base - 1 /\ pending = {}
    BY <1>4 DEF Copy, Numbering
  <2> QED
    BY <2>1, <2>2, <1>1 DEF base
<1>5. ASSUME ~Copy
      PROVE  /\ copied' = copied
             /\ dispatcher' = "send" => dispatcher = "send" /\ event' = event /\ pending' \subseteq pending
  BY <1>5 DEF Next, Dispatch, hubVars, Publish, Receive, Offer, OfferWithin, Served,
              Subscribe, Take, Leave, Delete, Drain, Close
<1> QED
  BY <1>1, <1>3, <1>4, <1>5

\* An offer is of the event the copy was made for.
LEMMA OfferIsCopied ==
    ASSUME TypeOK, Numbering, NEW t \in Stream, Offer(t)
    PROVE  /\ event[1] = copied /\ event[2] = published[copied] /\ copied' = copied
           /\ copied \in Nat /\ copied >= 1
           /\ t \in pending /\ t \notin pending' /\ dispatcher = "send"
<1>1. event = <<base, published[base]>> /\ copied = base /\ base >= 1
  BY DEF Offer, OfferWithin, Numbering
<1> QED
  BY <1>1 DEF Offer, OfferWithin, TypeOK

\* Nothing comes to a stream before its turn.
LEMMA NothingEarlyStep == TypeOK /\ Numbering /\ NothingEarly /\ Next => NothingEarly'
<1> SUFFICES ASSUME TypeOK, Numbering, NothingEarly, Next,
                    NEW t \in Stream, NEW i \in 1 .. Len(Seen(t)')
             PROVE  /\ Seen(t)'[i] <= copied'
                    /\ dispatcher' = "send" /\ t \in pending' => Seen(t)'[i] < event'[1]
  BY DEF NothingEarly
<1> DEFINE old == Seen(t)
           new == Seen(t)'
<1>1. /\ Len(old) \in Nat /\ \A j \in 1 .. Len(old) : old[j] \in Nat
      /\ \A j \in 1 .. Len(old) : /\ old[j] <= copied
                                  /\ dispatcher = "send" /\ t \in pending => old[j] < event[1]
  BY SeenType DEF NothingEarly
<1>2. ASSUME NEW j \in 1 .. Len(old)
      PROVE  /\ old[j] <= copied'
             /\ dispatcher' = "send" /\ t \in pending' => old[j] < event'[1]
  <2>1. CASE Copy /\ event[1] = copied + 1
    <3>1. copied' = copied + 1 /\ event' = event /\ copied \in Nat
      BY <2>1, CopyStep DEF Copy
    <3> HIDE DEF old
    <3> QED
      BY <1>1, <2>1, <3>1
  <2>2. CASE /\ copied' = copied
             /\ dispatcher' = "send" => dispatcher = "send" /\ event' = event /\ pending' \subseteq pending
    <3> HIDE DEF old
    <3> QED
      BY <1>1, <2>2
  <2> QED
    BY <2>1, <2>2, CopyStep
<1>3. CASE new = old
  <2> HIDE DEF old, new
  <2>1. i \in 1 .. Len(old) /\ new[i] = old[i]
    BY <1>3 DEF new
  <2> QED
    BY <1>2, <2>1 DEF new
<1>4. CASE Offer(t) /\ new = Append(old, event[1])
  <2>1. event[1] = copied /\ copied' = copied /\ copied \in Nat /\ t \notin pending'
    BY <1>4, OfferIsCopied
  <2>2. old \in Seq(Nat)
    <3>1. got[t] \in Seq(Number) /\ chan[t] \in Seq(Number)
      BY DEF TypeOK
    <3>2. got[t] \in Seq(Nat) /\ chan[t] \in Seq(Nat)
      BY <3>1, SeqMonotonic, HubAssumption DEF Number
    <3> QED
      BY <3>2, ConcatProperties DEF Seen
  <2> HIDE DEF old, new
  <2>3. /\ Len(new) = Len(old) + 1 /\ new[Len(old) + 1] = copied
        /\ \A j \in 1 .. Len(old) : new[j] = old[j]
    BY <1>4, <2>1, <2>2, AppendProperties
  <2>4. i \in 1 .. Len(new)
    BY DEF new
  <2>5. new[i] <= copied'
    <3>1. CASE i = Len(old) + 1
      BY <3>1, <2>1, <2>3
    <3>2. CASE i # Len(old) + 1
      <4>1. i \in 1 .. Len(old)
        BY <3>2, <1>1, <2>3, <2>4
      <4> QED
        BY <4>1, <1>2, <2>3
    <3> QED
      BY <3>1, <3>2
  <2> QED
    BY <2>1, <2>5 DEF new
<1>5. CASE /\ Len(new) + 1 = Len(old) /\ Len(got[t]) \in Nat
           /\ \A j \in 1 .. Len(new) : new[j] = old[IF j <= Len(got[t]) THEN j ELSE j + 1]
  <2> DEFINE j == IF i <= Len(got[t]) THEN i ELSE i + 1
  <2>1. i \in 1 .. Len(new)
    BY DEF new
  <2> HIDE DEF old, new
  <2>2. j \in 1 .. Len(old) /\ new[i] = old[j]
    <3>1. new[i] = old[j]
      BY <1>5, <2>1
    <3>2. j \in 1 .. Len(old)
      BY <1>1, <1>5, <2>1
    <3> QED
      BY <3>1, <3>2
  <2> HIDE DEF j
  <2> QED
    BY <1>2, <2>2 DEF new
<1> QED
  BY <1>3, <1>4, <1>5, SeenStep

\* What a stream sees stays in order, and what it asked for.
LEMMA OrderStep == TypeOK /\ Numbering /\ NothingEarly /\ DeliveryInOrder /\ Next => DeliveryInOrder'
<1> SUFFICES ASSUME TypeOK, Numbering, NothingEarly, DeliveryInOrder, Next, NEW t \in Stream
             PROVE  /\ \A i, j \in DOMAIN Seen(t)' : i < j => Seen(t)'[i] < Seen(t)'[j]
                    /\ \A i \in DOMAIN Seen(t)' : Wants(t, published'[Seen(t)'[i]])
  BY DEF DeliveryInOrder, Wants
<1> DEFINE old == Seen(t)
           new == Seen(t)'
<1>1. /\ Len(old) \in Nat /\ DOMAIN old = 1 .. Len(old)
      /\ \A j \in 1 .. Len(old) : old[j] \in Nat /\ old[j] >= 1 /\ old[j] <= copied
      /\ \A j \in 1 .. Len(old) : dispatcher = "send" /\ t \in pending => old[j] < event[1]
  BY SeenType DEF NothingEarly
<1>2. /\ \A i, j \in 1 .. Len(old) : i < j => old[i] < old[j]
      /\ \A i \in 1 .. Len(old) : Wants(t, published[old[i]])
  BY <1>1 DEF DeliveryInOrder
<1>3. copied \in Nat /\ \A n \in 1 .. copied : published'[n] = published[n]
  BY CopyStep
<1>4. \A i \in 1 .. Len(old) : Wants(t, published'[old[i]])
  <2> HIDE DEF old
  <2>1. ASSUME NEW i \in 1 .. Len(old)
        PROVE  published'[old[i]] = published[old[i]]
    <3>1. old[i] \in 1 .. copied
      BY <1>1, <1>3
    <3> QED
      BY <1>3, <3>1
  <2> QED
    BY <1>2, <2>1
<1>5. CASE new = old
  <2> HIDE DEF old, new
  <2> QED
    BY <1>1, <1>2, <1>4, <1>5 DEF new
<1>6. CASE Offer(t) /\ Wants(t, event[2]) /\ new = Append(old, event[1])
  <2>1. /\ event[1] = copied /\ event[2] = published[copied] /\ copied >= 1
        /\ dispatcher = "send" /\ t \in pending
    BY <1>6, OfferIsCopied
  <2>2. old \in Seq(Nat)
    <3>1. got[t] \in Seq(Number) /\ chan[t] \in Seq(Number)
      BY DEF TypeOK
    <3>2. got[t] \in Seq(Nat) /\ chan[t] \in Seq(Nat)
      BY <3>1, SeqMonotonic, HubAssumption DEF Number
    <3> QED
      BY <3>2, ConcatProperties DEF Seen
  <2> HIDE DEF old, new
  <2>3. /\ Len(new) = Len(old) + 1 /\ new[Len(old) + 1] = copied
        /\ \A j \in 1 .. Len(old) : new[j] = old[j]
        /\ new \in Seq(Nat)
    BY <1>3, <1>6, <2>1, <2>2, AppendProperties
  <2>4. DOMAIN new = 1 .. Len(old) + 1
    BY <2>3, LenProperties
  <2>5. Wants(t, published'[copied])
    <3>1. copied \in 1 .. copied
      BY <1>3, <2>1
    <3> QED
      BY <1>3, <1>6, <2>1, <3>1
  <2>6. ASSUME NEW i \in DOMAIN new
        PROVE  Wants(t, published'[new[i]])
    <3>1. CASE i = Len(old) + 1
      BY <3>1, <2>3, <2>5
    <3>2. CASE i # Len(old) + 1
      <4>1. i \in 1 .. Len(old)
        BY <3>2, <1>1, <2>4
      <4> QED
        BY <4>1, <1>4, <2>3
    <3> QED
      BY <3>1, <3>2
  <2>7. ASSUME NEW i \in DOMAIN new, NEW j \in DOMAIN new, i < j
        PROVE  new[i] < new[j]
    <3>1. i \in 1 .. Len(old)
      BY <1>1, <2>4, <2>7
    <3>2. CASE j = Len(old) + 1
      BY <3>1, <3>2, <1>1, <2>1, <2>3
    <3>3. CASE j # Len(old) + 1
      <4>1. j \in 1 .. Len(old)
        BY <3>3, <1>1, <2>4
      <4> QED
        BY <3>1, <4>1, <1>2, <2>3, <2>7
    <3> QED
      BY <3>2, <3>3
  <2> QED
    BY <2>6, <2>7 DEF new
<1>7. CASE /\ Len(new) + 1 = Len(old) /\ Len(got[t]) \in Nat
           /\ \A i \in 1 .. Len(new) : new[i] = old[IF i <= Len(got[t]) THEN i ELSE i + 1]
  <2> DEFINE at(i) == IF i <= Len(got[t]) THEN i ELSE i + 1
  <2>1. DOMAIN new = 1 .. Len(new)
    <3>1. TypeOK'
      BY TypeStep
    <3>2. got'[t] \in Seq(Number) /\ chan'[t] \in Seq(Number)
      BY <3>1 DEF TypeOK
    <3>3. Seen(t)' \in Seq(Number)
      BY <3>2, ConcatProperties DEF Seen
    <3> QED
      BY <3>3, LenProperties
  <2> HIDE DEF old, new
  <2>2. ASSUME NEW i \in DOMAIN new
        PROVE  at(i) \in 1 .. Len(old) /\ new[i] = old[at(i)]
    <3>1. new[i] = old[at(i)]
      BY <1>7, <2>1
    <3>2. at(i) \in 1 .. Len(old)
      BY <1>1, <1>7, <2>1
    <3> QED
      BY <3>1, <3>2
  <2>3. \A i, j \in DOMAIN new : i < j => at(i) < at(j)
    BY <2>1, <1>7
  <2> HIDE DEF at
  <2>4. /\ \A i, j \in DOMAIN new : i < j => new[i] < new[j]
        /\ \A i \in DOMAIN new : Wants(t, published'[new[i]])
    BY <1>2, <1>4, <2>2, <2>3
  <2> QED
    BY <2>4 DEF new
<1> QED
  BY <1>5, <1>6, <1>7, SeenStep

\* Stream s has seen event n, or it did not fit, or it is still to be offered.
Accounted(s, n) == \/ \E i \in 1 .. Len(Seen(s)) : Seen(s)[i] = n
                   \/ n \in dropped[s]
                   \/ s \in pending /\ n = event[1]

\* NoSilentLoss, event by event.
LossesAccounted == \A s \in subscribers : \A n \in since[s] + 1 .. copied :
                       Wants(s, published[n]) => Accounted(s, n)

LEMMA LossByEvent == TypeOK => (NoSilentLoss <=> LossesAccounted)
<1> SUFFICES ASSUME TypeOK PROVE NoSilentLoss <=> LossesAccounted
  OBVIOUS
<1>1. \A s \in Stream : DOMAIN Seen(s) = 1 .. Len(Seen(s))
  BY SeenType
<1>2. subscribers \subseteq Stream
  BY DEF TypeOK
<1> QED
  BY <1>1, <1>2 DEF NoSilentLoss, LossesAccounted, Accounted, ToSet

\* What a subscribed stream has been offered stays accounted for.
LEMMA AccountedStep ==
    ASSUME TypeOK, Stages, Numbering, Next, NEW s \in subscribers, s \in subscribers',
           NEW n \in 1 .. copied, Wants(s, published[n]), Accounted(s, n)
    PROVE  Accounted(s, n)'
<1>0. s \in Stream /\ stream[s] \in {"open", "delete"} /\ ~closed[s]
  BY DEF TypeOK, Stages
<1>1. CASE \E i \in 1 .. Len(Seen(s)) : Seen(s)[i] = n
  <2>1. PICK i \in 1 .. Len(Seen(s)) : Seen(s)[i] = n
    BY <1>1
  <2>2. CASE Seen(s)' = Seen(s)
    <3>1. i \in 1 .. Len(Seen(s)') /\ Seen(s)'[i] = n
      BY <2>1, <2>2, Zenon
    <3> QED
      BY <3>1 DEF Accounted
  <2>3. CASE Seen(s)' = Append(Seen(s), event[1]) /\ Offer(s)
    <3> DEFINE old == Seen(s)
               new == Seen(s)'
    <3>1. old \in Seq(Number)
      <4>1. got[s] \in Seq(Number) /\ chan[s] \in Seq(Number)
        BY <1>0 DEF TypeOK
      <4> QED
        BY <4>1, ConcatProperties DEF Seen
    <3>2. event[1] \in Number
      BY <2>3 DEF Offer, OfferWithin, TypeOK, Event
    <3> HIDE DEF old, new
    <3>3. new = Append(old, event[1])
      BY <2>3 DEF old, new
    <3>4. Len(old) \in Nat /\ Len(new) = Len(old) + 1 /\ \A j \in 1 .. Len(old) : new[j] = old[j]
      BY <3>1, <3>2, <3>3, AppendProperties, LenProperties
    <3>5. i \in 1 .. Len(old) /\ old[i] = n
      BY <2>1 DEF old
    <3>6. i \in 1 .. Len(new) /\ new[i] = n
      BY <3>4, <3>5
    <3> QED
      BY <3>6 DEF Accounted, new
  <2> QED
    BY <1>0, <2>2, <2>3, SeenStep
<1>2. CASE n \in dropped[s]
  <2>1. n \in dropped'[s]
    BY <1>0, <1>2 DEF Next, Dispatch, hubVars, Publish, Receive, Copy, Offer, OfferWithin, Served, TypeOK,
                      Subscribe, Take, Leave, Delete, Drain, Close
  <2> QED
    BY <2>1 DEF Accounted
<1>3. CASE s \in pending /\ n = event[1]
  <2>1. dispatcher \in {"send", "panic"}
    BY <1>3 DEF Numbering, TypeOK
  <2>2. CASE Offer(s)
    <3>1. Wants(s, event[2])
      BY <1>3, <2>2, OfferIsCopied, <1>0
    <3>2. CASE chan' = [chan EXCEPT ![s] = Append(@, event[1])]
      <4>1. got'[s] = got[s] /\ chan'[s] = Append(chan[s], event[1])
        BY <1>0, <2>2, <3>2 DEF Offer, OfferWithin, TypeOK
      <4>2. got[s] \in Seq(Number) /\ chan[s] \in Seq(Number) /\ event[1] \in Number
        BY <1>0, <2>2 DEF Offer, OfferWithin, TypeOK, Event
      <4> DEFINE g == got[s]
                 c == chan[s]
                 e == event[1]
                 new == Seen(s)'
      <4>3. new = g \o Append(c, e)
        BY <4>1 DEF Seen
      <4>4. g \in Seq(Number) /\ c \in Seq(Number) /\ e \in Number /\ e = n
        BY <4>2, <1>3
      <4> HIDE DEF g, c, e, new
      <4>5. new = Append(g \o c, e) /\ g \o c \in Seq(Number)
        BY <4>3, <4>4, AppendRight, ConcatProperties
      <4> DEFINE old == g \o c
      <4> HIDE DEF old
      <4>6. new = Append(old, e) /\ old \in Seq(Number)
        BY <4>5 DEF old
      <4>7. Len(old) \in Nat /\ Len(new) = Len(old) + 1 /\ new[Len(old) + 1] = e
        BY <4>4, <4>6, AppendProperties, LenProperties
      <4>8. Len(old) + 1 \in 1 .. Len(new) /\ new[Len(old) + 1] = n
        BY <4>4, <4>7
      <4> QED
        BY <4>8 DEF Accounted, new
    <3>3. CASE dropped' = [dropped EXCEPT ![s] = @ \cup {event[1]}]
      <4>1. n \in dropped'[s]
        BY <1>0, <1>3, <3>3 DEF TypeOK
      <4> QED
        BY <4>1 DEF Accounted
    <3> QED
      BY <1>0, <2>2, <3>1, <3>2, <3>3 DEF Offer, OfferWithin
  <2>3. CASE ~Offer(s)
    <3>1. s \in pending' /\ event' = event
      BY <1>3, <2>1, <2>3 DEF Next, Dispatch, hubVars, Publish, Receive, Copy, Offer, OfferWithin, Served, Up,
                              Subscribe, Take, Leave, Delete, Drain, Close
    <3> QED
      BY <1>3, <3>1 DEF Accounted
  <2> QED
    BY <2>2, <2>3
<1> QED
  BY <1>1, <1>2, <1>3 DEF Accounted

\* Nothing is lost without a word.
LEMMA LossStep == TypeOK /\ Stages /\ Numbering /\ NoSilentLoss /\ Next => NoSilentLoss'
<1> SUFFICES ASSUME TypeOK, Stages, Numbering, NoSilentLoss, Next
             PROVE  NoSilentLoss'
  OBVIOUS
<1>1. TypeOK'
  BY TypeStep
<1>2. SUFFICES ASSUME NEW s \in subscribers', NEW n \in since'[s] + 1 .. copied',
                      Wants(s, published'[n])
               PROVE  Accounted(s, n)'
  <2>1. TypeOK' => (NoSilentLoss' <=> LossesAccounted')
    BY LossByEvent, PTL
  <2> QED
    BY <1>1, <2>1 DEF LossesAccounted, Wants
<1>3. s \in Stream /\ since'[s] \in Nat /\ copied' \in Nat /\ copied \in Nat
  BY <1>1 DEF TypeOK
<1>4. CASE Subscribe(s)
  <2>1. since'[s] = copied'
    BY <1>3, <1>4 DEF Subscribe, hubVars, TypeOK
  <2>2. since'[s] + 1 <= copied'
    BY <1>2, <1>3
  <2> DEFINE x == since'[s]
             y == copied'
  <2>3. x \in Nat /\ x = y /\ x + 1 <= y
    BY <1>3, <2>1, <2>2
  <2> HIDE DEF x, y
  <2>4. FALSE
    BY <2>3
  <2> QED
    BY <2>4
<1>5. CASE ~Subscribe(s)
  <2>1. s \in subscribers /\ since'[s] = since[s]
    BY <1>3, <1>5 DEF Next, Dispatch, hubVars, Publish, Receive, Copy, Offer, OfferWithin, Served, TypeOK,
                 Subscribe, Take, Leave, Delete, Drain, Close
  <2>2. CASE n <= copied
    <3>1. n \in 1 .. copied /\ n \in since[s] + 1 .. copied
      BY <1>3, <2>1, <2>2
    <3>2. Wants(s, published[n])
      BY <1>2, <3>1, CopyStep
    <3>3. Accounted(s, n)
      BY <2>1, <3>1, <3>2, LossByEvent DEF LossesAccounted
    <3> QED
      BY <2>1, <3>1, <3>2, <3>3, AccountedStep
  <2>3. CASE ~(n <= copied)
    <3>1. Copy /\ event[1] = copied + 1
      BY <1>3, <2>1, <2>3, CopyStep
    <3>2. n = event[1] /\ event' = event /\ s \in pending'
      BY <1>3, <2>1, <2>3, <3>1 DEF Copy
    <3> QED
      BY <3>2 DEF Accounted
  <2> QED
    BY <2>2, <2>3
<1> QED
  BY <1>4, <1>5
------------------------------------------------------------------------------
(* What holds of every run *)

\* The invariant holds at the start ...
LEMMA HubInit == Init => HubInv
<1> SUFFICES ASSUME Init PROVE HubInv
  OBVIOUS
<1>1. \A S : << >> \in Seq(S) /\ Len(<< >>) = 0 /\ DOMAIN << >> = {}
  BY EmptySeq
<1>2. \A s \in Stream : Seen(s) = << >>
  BY DEF Init, Seen
<1>3. TypeOK
  BY TypeInit
<1>4. Stages /\ Numbering
  BY <1>1 DEF Init, Stages, Numbering, base
<1>5. NothingEarly /\ DeliveryInOrder
  BY <1>1, <1>2 DEF NothingEarly, DeliveryInOrder
<1>6. NoSilentLoss
  BY DEF Init, NoSilentLoss
<1> QED
  BY <1>3, <1>4, <1>5, <1>6 DEF HubInv

\* ... and every step keeps it.
LEMMA HubStep == HubInv /\ [Next]_vars => HubInv'
<1> SUFFICES ASSUME HubInv, [Next]_vars PROVE HubInv'
  OBVIOUS
<1>1. TypeOK' /\ Stages' /\ Numbering'
  BY TypeStep, StagesStep, NumberingStep DEF HubInv
<1>2. CASE Next
  BY <1>1, <1>2, NothingEarlyStep, OrderStep, LossStep DEF HubInv
<1>3. CASE UNCHANGED vars
  BY <1>1, <1>3 DEF HubInv, NothingEarly, DeliveryInOrder, NoSilentLoss, Seen, Wants, vars, hubVars
<1> QED
  BY <1>2, <1>3

\* The numbers of the events say where each of them is, in every run of the hub.
THEOREM HubInvariance == Spec => []HubInv
  BY HubInit, HubStep, PTL DEF Spec

\* The dispatcher's unlocked sends never reorder or repeat what a stream sees,
\* whoever subscribes and leaves meanwhile.
THEOREM InOrder == Spec => []DeliveryInOrder
<1>1. HubInv => DeliveryInOrder
  BY DEF HubInv
<1> QED
  BY <1>1, HubInvariance, PTL

\* Only a full channel loses a subscribed stream an event it asked for.
THEOREM LossIsDropped == Spec => []NoSilentLoss
<1>1. HubInv => NoSilentLoss
  BY DEF HubInv
<1> QED
  BY <1>1, HubInvariance, PTL
------------------------------------------------------------------------------
(* The hub is a feed *)

\* Nobody has offered anything to a stream that has not subscribed.
NewIsFresh == \A s \in Stream : stream[s] = "new" => s \notin pending /\ chan[s] = << >>

\* Every step keeps it so.
LEMMA NewIsFreshStep == TypeOK /\ Stages /\ NewIsFresh /\ [Next]_vars => NewIsFresh'
<1> SUFFICES ASSUME TypeOK, Stages, NewIsFresh, [Next]_vars, NEW t \in Stream, stream'[t] = "new"
             PROVE  t \notin pending' /\ chan'[t] = << >>
  BY DEF NewIsFresh
<1>1. stream[t] = "new"
  BY DEF Next, Dispatch, vars, hubVars, Publish, Receive, Copy, Offer, OfferWithin, Served, TypeOK, Goto,
         Subscribe, Take, Leave, Delete, Drain, Close
<1>2. t \notin pending /\ chan[t] = << >> /\ t \notin subscribers
  BY <1>1 DEF NewIsFresh, Stages
<1>3. t \notin pending'
  BY <1>2 DEF Next, Dispatch, vars, hubVars, Publish, Receive, Copy, Offer, OfferWithin, Served,
              Subscribe, Take, Leave, Delete, Drain, Close
<1>4. ASSUME NEW s \in Stream, s # t, Offer(s) \/ Take(s) \/ Drain(s)
      PROVE  chan'[t] = chan[t]
  BY <1>4 DEF Offer, OfferWithin, Take, Drain, TypeOK
<1>5. ~Offer(t) /\ ~Take(t) /\ ~Drain(t)
  BY <1>1, <1>2 DEF Offer, OfferWithin, Take, Drain
<1>6. chan'[t] = chan[t]
  BY <1>4, <1>5 DEF Next, Dispatch, vars, hubVars, Publish, Receive, Copy, Served,
                    Subscribe, Leave, Delete, Close
<1> QED
  BY <1>2, <1>3, <1>6

\* The hub's state as the feed sees it.
position == [s \in subscribers |-> Passed(s)]
queue    == [s \in subscribers |-> chan[s]]

\* A step of the hub that moves nobody's place and queue is none of the feed.
LEMMA FeedStutter ==
    ASSUME UNCHANGED published, UNCHANGED subscribers,
           \A s \in subscribers : Passed(s)' = Passed(s) /\ chan'[s] = chan[s]
    PROVE  UNCHANGED Feed!vars
<1>1. position' = position /\ queue' = queue
  BY DEF position, queue
<1> QED
  BY <1>1 DEF Feed!vars, position, queue

\* Every step of the hub is one of the feed or leaves it alone: only an offer, a
\* stream's coming, reading and going, and a producer's event are seen there.
LEMMA FeedStep == HubInv /\ NewIsFresh /\ [Next]_vars => [Feed!Next]_(Feed!vars)
<1> SUFFICES ASSUME HubInv, NewIsFresh, [Next]_vars PROVE [Feed!Next]_(Feed!vars)
  OBVIOUS
<1>0. TypeOK /\ Stages /\ Numbering /\ subscribers \subseteq Stream
  BY DEF HubInv, TypeOK
<1>1. ASSUME NEW b \in Bot, Publish(b)
      PROVE  Feed!Publish(b)
  <2>1. position' = position /\ queue' = queue
    BY <1>1 DEF Publish, position, queue, Passed
  <2> QED
    BY <1>1, <2>1 DEF Publish, Feed!Publish, position, queue
<1>2. ASSUME Receive
      PROVE  UNCHANGED Feed!vars
  <2>1. pending = {} /\ UNCHANGED <<published, subscribers, chan, pending, copied>>
    BY <1>0, <1>2 DEF Receive, Numbering
  <2> QED
    BY <2>1, FeedStutter DEF Passed
<1>3. ASSUME Copy
      PROVE  UNCHANGED Feed!vars
  <2>1. pending = {} /\ copied = event[1] - 1 /\ pending' = subscribers
    BY <1>0, <1>3 DEF Copy, Numbering
  <2>2. UNCHANGED <<published, subscribers, chan, event>>
    BY <1>3 DEF Copy
  <2> QED
    BY <2>1, <2>2, FeedStutter DEF Passed
<1>4. ASSUME NEW s \in Stream, Offer(s), s \notin subscribers
      PROVE  UNCHANGED Feed!vars
  <2>1. UNCHANGED <<published, subscribers, event, copied>> /\ pending' = pending \ {s}
    BY <1>4 DEF Offer, OfferWithin
  <2>2. \A t \in subscribers : chan'[t] = chan[t]
    BY <1>0, <1>4 DEF Offer, OfferWithin, TypeOK
  <2>3. \A t \in subscribers : Passed(t)' = Passed(t)
    BY <1>4, <2>1 DEF Passed
  <2> QED
    BY <2>1, <2>2, <2>3, FeedStutter
<1>5. ASSUME NEW s \in Stream, Offer(s), s \in subscribers
      PROVE  Feed!Pass(s)
  <2>1. /\ event[1] = copied /\ event[2] = published[copied] /\ copied' = copied
        /\ copied \in Nat /\ copied >= 1 /\ s \in pending /\ s \notin pending'
    BY <1>0, <1>5, OfferIsCopied
  <2>2. ~closed[s] /\ UNCHANGED <<published, subscribers, event>> /\ pending' = pending \ {s}
    BY <1>0, <1>5 DEF Offer, OfferWithin, Stages
  <2>3. copied <= Len(published) /\ Len(published) \in Nat
    BY <1>0, LenProperties DEF TypeOK, Numbering, base
  <2>4. /\ DOMAIN position = subscribers /\ position[s] = copied - 1 /\ position[s] + 1 = copied
        /\ position[s] < Len(published)
    BY <1>5, <2>1, <2>3 DEF position, Passed
  <2>5. position' = [position EXCEPT ![s] = @ + 1]
    <3>1. Passed(s)' = Passed(s) + 1
      BY <2>1, <2>2 DEF Passed
    <3>2. \A t \in subscribers \ {s} : Passed(t)' = Passed(t)
      BY <2>1, <2>2 DEF Passed
    <3> QED
      BY <2>2, <3>1, <3>2 DEF position
  <2>6. queue' = IF Feed!AskedFor(s, published[position[s] + 1]) /\ Len(queue[s]) < SubCap
                 THEN [queue EXCEPT ![s] = Append(@, position[s] + 1)]
                 ELSE queue
    <3>1. chan \in [Stream -> Seq(Number)] /\ Len(chan[s]) <= SubCap /\ queue[s] = chan[s] /\ Len(chan[s]) \in Nat
      BY <1>0, <1>5, LenProperties DEF TypeOK, queue
    <3>2. Feed!AskedFor(s, published[position[s] + 1]) <=> Wants(s, event[2])
      BY <2>1, <2>4 DEF Feed!AskedFor, Wants
    <3>3. CASE Wants(s, event[2]) /\ Len(chan[s]) < SubCap
      <4>1. chan' = [chan EXCEPT ![s] = Append(@, event[1])]
        BY <1>5, <2>2, <3>1, <3>3, HubAssumption DEF Offer, OfferWithin
      <4>2. queue' = [queue EXCEPT ![s] = Append(@, event[1])]
        BY <1>0, <2>2, <3>1, <4>1 DEF queue
      <4> QED
        BY <2>1, <2>4, <3>1, <3>2, <3>3, <4>2
    <3>4. CASE ~(Wants(s, event[2]) /\ Len(chan[s]) < SubCap)
      <4>1. chan' = chan
        BY <1>5, <2>2, <3>4 DEF Offer, OfferWithin
      <4> QED
        BY <2>2, <3>1, <3>2, <3>4, <4>1 DEF queue
    <3> QED
      BY <3>3, <3>4
  <2> QED
    BY <1>5, <2>2, <2>4, <2>5, <2>6 DEF Feed!Pass, position, queue
<1>6. ASSUME Served
      PROVE  UNCHANGED Feed!vars
  <2>1. pending = {} /\ UNCHANGED <<published, subscribers, chan, pending, copied>>
    BY <1>6 DEF Served
  <2> QED
    BY <2>1, FeedStutter DEF Passed
<1>7. ASSUME NEW s \in Stream, Subscribe(s)
      PROVE  Feed!Join(s)
  <2>1. /\ s \notin subscribers /\ s \notin pending /\ chan[s] = << >>
        /\ subscribers' = subscribers \cup {s}
        /\ UNCHANGED <<published, pending, event, copied, chan>>
    BY <1>0, <1>7 DEF Subscribe, hubVars, Stages, NewIsFresh
  <2>2. copied \in 0 .. Len(published)
    BY <1>0, LenProperties DEF TypeOK, Numbering, base
  <2>3. position' = Feed!With(position, s, copied) /\ queue' = Feed!With(queue, s, << >>)
    BY <2>1 DEF position, queue, Passed, Feed!With
  <2> QED
    BY <2>1, <2>2, <2>3 DEF Feed!Join, position, queue
<1>8. ASSUME NEW s \in Stream, Take(s)
      PROVE  Feed!Read(s)
  <2>1. /\ s \in subscribers /\ chan[s] # << >> /\ chan' = [chan EXCEPT ![s] = Tail(@)]
        /\ UNCHANGED <<published, subscribers, pending, event, copied>>
    BY <1>0, <1>8 DEF Take, hubVars, Stages
  <2>2. position' = position
    BY <2>1 DEF position, Passed
  <2>3. queue' = [queue EXCEPT ![s] = Tail(@)]
    BY <1>0, <2>1 DEF queue, TypeOK
  <2> QED
    BY <2>1, <2>2, <2>3 DEF Feed!Read, position, queue
<1>9. ASSUME NEW s \in Stream, Leave(s) \/ Close(s)
      PROVE  UNCHANGED Feed!vars
  <2>1. UNCHANGED <<published, subscribers, chan, pending, event, copied>>
    BY <1>9 DEF Leave, Close, hubVars
  <2> QED
    BY <2>1, FeedStutter DEF Passed
<1>10. ASSUME NEW s \in Stream, Delete(s)
       PROVE  Feed!Leave(s)
  <2>1. /\ s \in subscribers /\ subscribers' = subscribers \ {s}
        /\ UNCHANGED <<published, chan, pending, event, copied>>
    BY <1>0, <1>10 DEF Delete, hubVars, Stages
  <2>2. position' = Feed!Without(position, s) /\ queue' = Feed!Without(queue, s)
    BY <2>1 DEF position, queue, Passed, Feed!Without
  <2> QED
    BY <2>1, <2>2 DEF Feed!Leave, position, queue
<1>11. ASSUME NEW s \in Stream, Drain(s)
       PROVE  UNCHANGED Feed!vars
  <2>1. s \notin subscribers /\ UNCHANGED <<published, subscribers, pending, event, copied>>
    BY <1>0, <1>11 DEF Drain, hubVars, Stages
  <2>2. \A t \in subscribers : chan'[t] = chan[t]
    BY <1>0, <1>11, <2>1 DEF Drain, TypeOK
  <2> QED
    BY <2>1, <2>2, FeedStutter DEF Passed
<1>12. CASE UNCHANGED vars
  <2>1. UNCHANGED <<published, subscribers, chan, pending, event, copied>>
    BY <1>12 DEF vars, hubVars
  <2> QED
    BY <2>1, FeedStutter DEF Passed
<1> QED
  BY <1>1, <1>2, <1>3, <1>4, <1>5, <1>6, <1>7, <1>8, <1>9, <1>10, <1>11, <1>12
  DEF Next, Dispatch, Feed!Next

\* The hub implements TelemetryFeed: what it promises a stream does not depend on
\* any other, however slow, and whoever comes and goes.
THEOREM Refinement == Spec => ImplementsFeed
<1>1. Init => Feed!Init
  <2>1. Init => published = << >> /\ subscribers = {}
    BY DEF Init
  <2> QED
    BY <2>1 DEF Feed!Init
<1>2. Init => NewIsFresh
  BY DEF Init, NewIsFresh
<1>3. Spec => []NewIsFresh
  <2>1. HubInv /\ NewIsFresh /\ [Next]_vars => NewIsFresh'
    BY NewIsFreshStep DEF HubInv
  <2> QED
    BY <1>2, <2>1, HubInvariance, PTL DEF Spec
<1> QED
  BY <1>1, <1>3, FeedStep, HubInvariance, PTL DEF Spec, ImplementsFeed, Feed!Spec
------------------------------------------------------------------------------
(* What the panic needs *)

\* No subscription is deleted between the dispatcher's copy and its last offer,
\* as if run held the read lock over the sends.
NoDeleteDuringSend == [][dispatcher = "send" => subscribers \subseteq subscribers']_vars

\* Whoever the dispatcher has still to serve is still subscribed.
CopyIsSubscribed == Up /\ (dispatcher = "send" => pending \subseteq subscribers)

\* With every step that keeps to it, the copy stays within the subscribers, whose
\* channels are open.
LEMMA LockedStep ==
    /\ Stages /\ CopyIsSubscribed /\ [Next]_vars
    /\ [dispatcher = "send" => subscribers \subseteq subscribers']_vars
    => CopyIsSubscribed'
<1> SUFFICES ASSUME Stages, CopyIsSubscribed, [Next]_vars,
                    [dispatcher = "send" => subscribers \subseteq subscribers']_vars
             PROVE  CopyIsSubscribed'
  OBVIOUS
<1> USE DEF CopyIsSubscribed, Up
<1>1. CASE Receive \/ Copy \/ Served
  BY <1>1 DEF Receive, Copy, Served
<1>2. ASSUME NEW s \in Stream, Offer(s)
      PROVE  CopyIsSubscribed'
  <2>1. s \in subscribers /\ dispatcher = "send" /\ UNCHANGED subscribers
        /\ pending' = pending \ {s}
    BY <1>2 DEF Offer, OfferWithin
  <2>2. ~closed[s]
    BY <2>1 DEF Stages
  <2>3. UNCHANGED dispatcher
    BY <1>2, <2>2 DEF Offer, OfferWithin
  <2> QED
    BY <2>1, <2>3
<1>3. CASE UNCHANGED <<dispatcher, pending>> /\ (dispatcher = "send" => subscribers \subseteq subscribers')
  BY <1>3
<1>4. CASE UNCHANGED vars
  BY <1>3, <1>4 DEF vars, hubVars
<1>5. ASSUME ~ UNCHANGED vars
      PROVE  dispatcher = "send" => subscribers \subseteq subscribers'
  BY <1>5
<1>6. ASSUME NEW b \in Bot, Publish(b)
      PROVE  UNCHANGED <<dispatcher, pending>>
  BY <1>6 DEF Publish
<1>7. ASSUME NEW s \in Stream,
             \/ Subscribe(s) \/ Take(s) \/ Leave(s)
             \/ Delete(s) \/ Drain(s) \/ Close(s)
      PROVE  UNCHANGED <<dispatcher, pending>>
  BY <1>7 DEF Subscribe, Take, Leave, Delete, Drain, Close, hubVars
<1> QED
  BY <1>1, <1>2, <1>3, <1>4, <1>5, <1>6, <1>7 DEF Next, Dispatch

\* The dispatcher sends on a closed channel only because a stream may delete its
\* subscription during the sends: in every behaviour in which none does, the hub
\* does not panic, however its goroutines interleave.
THEOREM NoPanicUnderLock == Spec /\ NoDeleteDuringSend => []NeverPanics
<1>1. Init => CopyIsSubscribed
  BY DEF Init, CopyIsSubscribed, Up
<1>2. Spec => []Stages
  BY HubInvariance, PTL DEF HubInv
<1>3. CopyIsSubscribed => NeverPanics
  BY DEF CopyIsSubscribed, NeverPanics
<1> QED
  BY <1>1, <1>2, <1>3, LockedStep, PTL DEF Spec, NoDeleteDuringSend
==============================================================================
