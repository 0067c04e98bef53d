-------------------------- MODULE OrderManagerProofs -------------------------
(***************************************************************************)
(* The safety of the order manager, for any adapters, any number of layers *)
(* and of orders.                                                          *)
(***************************************************************************)
EXTENDS OrderManager, FiniteSetTheorems, TLAPS

(* The adapters *)

\* A reply that acknowledges a placement is taken for one, with its id.
LEMMA AckIsRead ==
    ASSUME NEW a \in Adapter, NEW done \in BOOLEAN, NEW r \in Replies(a, done), done,
           r[2] = "result"
    PROVE  ~PlaceFails(a, r) /\ ~PlaceWithoutId(a, r)
BY DEF Adapter, Replies, Refusal, NoReply, PlaceFails, PlaceWithoutId, mexcPlaceFails,
       gatePlaceFails, bybitPlaceFails, krakenPlaceFails, mockPlaceFails

\* Only bybit takes an order for placed that was not, and then without an id.
LEMMA PlacedIsDone ==
    ASSUME NEW a \in Adapter, NEW done \in BOOLEAN, NEW r \in Replies(a, done),
           ~PlaceFails(a, r), ~done
    PROVE  a = "bybit" /\ PlaceWithoutId(a, r)
BY DEF Adapter, Replies, Refusal, NoReply, PlaceFails, PlaceWithoutId, mexcPlaceFails,
       gatePlaceFails, bybitPlaceFails, krakenPlaceFails, mockPlaceFails

\* Only bybit and kraken take an order for cancelled that was not.
LEMMA CancelledIsDone ==
    ASSUME NEW a \in Adapter, NEW done \in BOOLEAN, NEW r \in Replies(a, done), ~done,
           ~CancelFails(a, r)
    PROVE  a \in {"bybit", "kraken"}
BY DEF Adapter, Replies, Refusal, NoReply, CancelFails, mexcCancelFails,
       gateCancelFails, bybitCancelFails, krakenCancelFails, mockCancelFails
------------------------------------------------------------------------------
(* Types *)

\* Only Reconcile places; outside of its loop the next order is the first, and
\* what firstErr says ends with cancelAll.
Control ==
    /\ IF pc = "place" THEN op = "Reconcile" ELSE next = 1
    /\ pc # "cancel" => ~failed /\ todo = {}
    /\ pc # "idle" => result = "none"

TInv == TypeOK /\ Control

\* An assignment to a Go map.
LEMMA PutType ==
    ASSUME NEW S, NEW T, NEW f \in [S -> T], NEW k, NEW v \in T
    PROVE  Put(f, k, v) \in [S \cup {k} -> T]
BY DEF Put

\* The empty Go map.
LEMMA EmptyIs ==
    ASSUME NEW T
    PROVE  DOMAIN << >> = {} /\ << >> \in [{} -> T]
OBVIOUS

\* Every step keeps the variables in their types.
LEMMA TypeStep == TInv /\ [Next]_vars => TInv'
<1> SUFFICES ASSUME TInv, [Next]_vars PROVE TInv'
  OBVIOUS
<1> USE OrderManagerAssumption DEF TInv
<1>0. /\ MaxLayers \in Nat /\ want \in Nat /\ want <= 2 * MaxLayers
      /\ next \in Nat /\ 1 <= next /\ next <= want + 1
  BY DEF TypeOK
<1>1. ASSUME NEW m \in {"Reconcile", "CancelAll"}, NEW n \in 0 .. MaxLayers, Start(m, n)
      PROVE  TInv'
  <2>1. want' \in {2 * i : i \in 0 .. MaxLayers} /\ next' \in 1 .. want' + 1
    BY <1>1 DEF Start, Control
  <2> QED
    BY <1>1, <2>1 DEF Start, TypeOK, Control, live, tracked
<1>2. ASSUME NEW id \in todo, NEW done \in BOOLEAN, NEW r \in Reply, CancelOrder(id, done, r)
      PROVE  TInv'
  <2>1. live' \subseteq Order /\ book' \in [live' -> BookEntry]
    BY <1>2 DEF CancelOrder, TypeOK, live, BookEntry, Restrict
  <2>2. failed' \in BOOLEAN
    BY <1>2 DEF CancelOrder, CancelFails, TypeOK, mexcCancelFails, gateCancelFails,
                bybitCancelFails, krakenCancelFails, mockCancelFails
  <2> QED
    BY <1>2, <2>1, <2>2 DEF CancelOrder, TypeOK, Control, tracked
<1>3. ASSUME CancelAllReturn
      PROVE  TInv'
  <2>1. next' \in 1 .. want' + 1
    BY <1>0, <1>3 DEF CancelAllReturn, Return, Control
  <2>2. tracked' \subseteq Order \cup {NoId} /\ openOrders' \in [tracked' -> Slot]
    BY <1>3, EmptyIs DEF CancelAllReturn, TypeOK, tracked
  <2> QED
    <3>1. failed' \in BOOLEAN /\ result' \in {"none", "ok", "error"}
      BY <1>3 DEF CancelAllReturn, Return, TypeOK
    <3>2. TypeOK'
      BY <1>3, <2>1, <2>2, <3>1 DEF CancelAllReturn, Return, TypeOK, live
    <3>3. Control'
      BY <1>3 DEF CancelAllReturn, Return, Control
    <3> QED
      BY <3>2, <3>3
<1>4. ASSUME NEW o \in Order, NEW done \in BOOLEAN, NEW r \in Reply, PlaceOrder(o, done, r)
      PROVE  TInv'
  <2>1. next \in Slot
    BY <1>0, <1>4 DEF PlaceOrder, Slot
  <2> DEFINE e == [slot |-> next, acked |-> r[2] = "result", missed |-> FALSE]
             k == IF PlaceWithoutId(adapter, r) THEN NoId ELSE o
  <2>2. e \in BookEntry
    BY <2>1 DEF BookEntry
  <2>3. book' = IF done THEN Put(book, o, e) ELSE book
    BY <1>4 DEF PlaceOrder
  <2>4. openOrders' = openOrders \/ openOrders' = Put(openOrders, k, next)
    BY <1>4 DEF PlaceOrder
  <2>5. k \in Order \cup {NoId}
    OBVIOUS
  <2> HIDE DEF e, k
  <2>6. live' \subseteq Order /\ book' \in [live' -> BookEntry]
    <3>1. book \in [live -> BookEntry] /\ live \subseteq Order
      BY DEF TypeOK
    <3>2. Put(book, o, e) \in [live \cup {o} -> BookEntry]
      BY <2>2, <3>1, PutType
    <3> QED
      BY <2>3, <3>1, <3>2 DEF live
  <2>7. /\ tracked' \subseteq Order \cup {NoId} /\ openOrders' \in [tracked' -> Slot]
        /\ tracked \subseteq tracked'
    <3>1. openOrders \in [tracked -> Slot] /\ tracked \subseteq Order \cup {NoId}
      BY DEF TypeOK
    <3>2. Put(openOrders, k, next) \in [tracked \cup {k} -> Slot]
      BY <2>1, <3>1, PutType
    <3> QED
      BY <2>4, <2>5, <3>1, <3>2 DEF tracked
  <2> QED
    <3>1. next' \in 1 .. want' + 1
      BY <1>0, <1>4 DEF PlaceOrder, Return
    <3> QED
      BY <1>4, <2>6, <2>7, <3>1 DEF PlaceOrder, Return, TypeOK, Control
<1>5. CASE ReconcileReturn
  <2>1. next' \in 1 .. want' + 1
    BY <1>0, <1>5 DEF ReconcileReturn, Return
  <2> QED
    BY <1>5, <2>1 DEF ReconcileReturn, Return, TypeOK, Control, live, tracked
<1>6. ASSUME NEW o \in Order, Fill(o)
      PROVE  TInv'
  <2>1. live' \subseteq Order /\ book' \in [live' -> BookEntry]
    BY <1>6 DEF Fill, TypeOK, live, Restrict
  <2> QED
    BY <1>6, <2>1 DEF Fill, TypeOK, Control, tracked
<1>7. CASE UNCHANGED vars
  BY <1>7 DEF vars, TypeOK, Control, live, tracked
<1> QED
  BY <1>1, <1>2, <1>3, <1>4, <1>5, <1>6, <1>7
     DEF Next, Proceed, Cancel, Place, StartReconcile, StartCancelAll

\* The variables start in their types.
LEMMA TypeInit == Init => TInv
<1>1. ASSUME Init
      PROVE  /\ live = {} /\ book \in [live -> BookEntry]
             /\ tracked = {} /\ openOrders \in [tracked -> Slot]
  BY <1>1, EmptyIs DEF Init, live, tracked
<1>2. Init => want \in {2 * i : i \in 0 .. MaxLayers} /\ next \in 1 .. want + 1
  BY OrderManagerAssumption DEF Init
<1> QED
  BY <1>1, <1>2 DEF Init, TInv, TypeOK, Control

\* The manager's and the book's variables keep their types.
THEOREM TypeCorrect == Spec => []TypeOK
<1>1. TInv => TypeOK
  BY DEF TInv
<1> QED
  BY <1>1, TypeInit, TypeStep, PTL DEF Spec
------------------------------------------------------------------------------
(* Safety *)

\* While cancelAll has met no error, every acknowledged order is still to be
\* cancelled, or was wrongly confirmed.
CancelsOn ==
    pc = "cancel" /\ ~failed => \A o \in Acked : o \in todo \/ book[o].missed

\* While Reconcile places, the acknowledged orders are those of the slots before
\* the next, and the tracked ones are one to each of these slots.
PlacesOn ==
    pc = "place" =>
        /\ \A o \in Acked : book[o].missed \/ book[o].slot < next
        /\ NoId \notin tracked => /\ Range(openOrders) = 1 .. next - 1
                                  /\ IsInjective(openOrders)

SInv == /\ TInv
        /\ NoOrderIsLost /\ OneQuotePerSlot
        /\ CancelAllIsComplete /\ PlacesWholePlan
        /\ CancelsOn /\ PlacesOn

\* Orders leave the book, and cancellations are wrongly confirmed.
Shrinks ==
    \A o \in live' : /\ o \in live
                     /\ book'[o].slot = book[o].slot /\ book'[o].acked = book[o].acked
                     /\ book[o].missed => book'[o].missed

\* A step on which the book only shrinks, and nothing is forgotten.
LEMMA ShrinkStep ==
    ASSUME SInv, Shrinks, UNCHANGED <<openOrders, adapter>>,
           \A o \in live' : book'[o].acked /\ book'[o].missed => adapter \in {"bybit", "kraken"}
    PROVE  /\ \A o \in Acked' : o \in Acked
           /\ NoOrderIsLost' /\ OneQuotePerSlot'
<1> USE DEF SInv
<1>1. \A o \in Acked' : o \in Acked
  BY DEF Acked, Shrinks
<1>2. NoOrderIsLost'
  BY <1>1 DEF NoOrderIsLost, Acked, Shrinks, tracked
<1>3. OneQuotePerSlot'
  BY <1>1 DEF OneQuotePerSlot, Acked, Shrinks
<1> QED
  BY <1>1, <1>2, <1>3

\* cancelAll's next cancellation.
LEMMA CancelStep ==
    ASSUME SInv, NEW id \in todo, NEW done \in BOOLEAN, NEW r \in Reply, CancelOrder(id, done, r)
    PROVE  SInv'
<1> USE OrderManagerAssumption DEF SInv
<1>1. /\ pc = "cancel" /\ r \in Replies(adapter, done) /\ todo' = todo \ {id}
      /\ UNCHANGED <<adapter, openOrders, pc, op, want, next, result>>
      /\ failed' = (failed \/ CancelFails(adapter, r))
  BY DEF CancelOrder
<1>2. adapter \in Adapter /\ book \in [live -> BookEntry] /\ result = "none"
  BY <1>1 DEF TInv, TypeOK, Control
<1>3. CASE done
  <2>1. book' = Restrict(book, live \ {id})
    BY <1>3 DEF CancelOrder
  <2>2. live' = live \ {id} /\ \A o \in live' : book'[o] = book[o]
    BY <2>1 DEF live, Restrict
  <2>3. Shrinks /\ \A o \in live' : book'[o].acked /\ book'[o].missed => adapter \in {"bybit", "kraken"}
    BY <2>2 DEF Shrinks, NoOrderIsLost, Acked
  <2>4. CancelsOn'
    BY <1>1, <2>2 DEF CancelsOn, Acked
  <2> QED
    BY <1>1, <1>2, <2>3, <2>4, ShrinkStep, TypeStep
       DEF Next, Proceed, Cancel, CancelAllIsComplete, PlacesWholePlan, PlacesOn
<1>4. CASE ~done
  <2>1. book' = [o \in live |->
                    [book[o] EXCEPT !.missed = @ \/ (o = id /\ ~CancelFails(adapter, r))]]
    BY <1>4 DEF CancelOrder
  <2>2. ~CancelFails(adapter, r) => adapter \in {"bybit", "kraken"}
    BY <1>1, <1>2, <1>4, CancelledIsDone
  <2>3. live' = live
    BY <2>1 DEF live
  <2>4. \A o \in live : /\ book'[o].slot = book[o].slot /\ book'[o].acked = book[o].acked
                        /\ book'[o].missed <=>
                              book[o].missed \/ (o = id /\ ~CancelFails(adapter, r))
    BY <1>2, <2>1 DEF BookEntry
  <2>5. Shrinks /\ \A o \in live' : book'[o].acked /\ book'[o].missed => adapter \in {"bybit", "kraken"}
    BY <2>2, <2>3, <2>4 DEF Shrinks, NoOrderIsLost, Acked
  <2>6. CancelsOn'
    BY <1>1, <2>3, <2>4 DEF CancelsOn, Acked
  <2> QED
    BY <1>1, <1>2, <2>5, <2>6, ShrinkStep, TypeStep
       DEF Next, Proceed, Cancel, CancelAllIsComplete, PlacesWholePlan, PlacesOn
<1> QED
  BY <1>3, <1>4

\* The exchange fills an order.
LEMMA FillStep ==
    ASSUME SInv, NEW o \in Order, Fill(o)
    PROVE  SInv'
<1> USE DEF SInv
<1>1. live' = live \ {o} /\ \A a \in live' : book'[a] = book[a]
  BY DEF Fill, live, Restrict
<1>2. Shrinks /\ \A a \in live' : book'[a].acked /\ book'[a].missed => adapter \in {"bybit", "kraken"}
  BY <1>1 DEF Shrinks, NoOrderIsLost, Acked
<1>3. UNCHANGED <<adapter, openOrders, pc, op, todo, failed, want, next, result>>
  BY DEF Fill
<1>4. CancelAllIsComplete' /\ CancelsOn' /\ PlacesOn' /\ PlacesWholePlan'
  BY <1>1, <1>3
     DEF CancelAllIsComplete, CancelsOn, PlacesOn, PlacesWholePlan, Acked, tracked
<1> QED
  BY <1>2, <1>3, <1>4, ShrinkStep, TypeStep DEF Next

\* A step that leaves the book and the tracked orders alone.
LEMMA StillStep ==
    ASSUME SInv, UNCHANGED <<adapter, book, openOrders>>
    PROVE  /\ NoOrderIsLost' /\ OneQuotePerSlot'
           /\ Acked' = Acked /\ tracked' = tracked
BY DEF SInv, NoOrderIsLost, OneQuotePerSlot, Acked, live, tracked

\* A call of Reconcile or CancelAll: all acknowledged orders are tracked, and
\* those tracked are to be cancelled.
LEMMA StartStep ==
    ASSUME SInv, NEW m \in {"Reconcile", "CancelAll"}, NEW n \in 0 .. MaxLayers, Start(m, n),
           TInv'
    PROVE  SInv'
<1> USE DEF SInv
<1>1. UNCHANGED <<adapter, book, openOrders>>
  BY DEF Start
<1>2. CancelsOn'
  BY <1>1, StillStep DEF Start, CancelsOn, NoOrderIsLost
<1>3. PlacesOn' /\ CancelAllIsComplete' /\ PlacesWholePlan'
  BY DEF Start, PlacesOn, CancelAllIsComplete, PlacesWholePlan
<1> QED
  BY <1>1, <1>2, <1>3, StillStep

\* cancelAll has been through all orders: nothing acknowledged is left but what
\* was wrongly confirmed, so that it may all be forgotten.
LEMMA CancelReturnStep ==
    ASSUME SInv, CancelAllReturn, TInv'
    PROVE  SInv'
<1> USE DEF SInv
<1>1. UNCHANGED <<adapter, book, op>> /\ pc = "cancel" /\ todo = {}
  BY DEF CancelAllReturn
<1>2. Acked' = Acked /\ live' = live
  BY <1>1 DEF Acked, live
<1>3. ~failed => \A o \in Acked : book[o].missed
  BY <1>1 DEF CancelsOn
<1>4. CASE op = "CancelAll" \/ failed
  <2>1. UNCHANGED openOrders /\ pc' = "idle" /\ (result' = "ok" => op = "CancelAll" /\ ~failed)
    BY <1>4 DEF CancelAllReturn, Return, TInv, TypeOK
  <2>2. CancelAllIsComplete' /\ PlacesWholePlan'
    BY <1>1, <1>2, <1>3, <2>1 DEF CancelAllIsComplete, PlacesWholePlan
  <2> QED
    BY <1>1, <2>1, <2>2, StillStep DEF CancelsOn, PlacesOn
<1>5. CASE op = "Reconcile" /\ ~failed
  <2>1. openOrders' = << >> /\ pc' = "place" /\ UNCHANGED <<result, failed, next>>
    BY <1>5 DEF CancelAllReturn
  <2>2. next = 1 /\ result = "none"
    BY <1>1 DEF TInv, Control
  <2>3. DOMAIN openOrders' = {}
    BY <2>1, EmptyIs
  <2>4. Range(openOrders)' = 1 .. next' - 1 /\ IsInjective(openOrders)'
    BY <2>1, <2>2, <2>3 DEF Range, IsInjective
  <2>5. PlacesOn'
    BY <1>1, <1>2, <1>3, <1>5, <2>4 DEF PlacesOn
  <2>6. NoOrderIsLost' /\ OneQuotePerSlot'
    BY <1>1, <1>2, <1>3, <1>5 DEF NoOrderIsLost, OneQuotePerSlot
  <2> QED
    BY <1>1, <2>1, <2>2, <2>5, <2>6 DEF CancelsOn, CancelAllIsComplete, PlacesWholePlan
<1> QED
  BY <1>4, <1>5 DEF CancelAllReturn

\* Reconcile has been through its plan.
LEMMA ReconcileReturnStep ==
    ASSUME SInv, ReconcileReturn, TInv'
    PROVE  SInv'
<1> USE OrderManagerAssumption DEF SInv
<1>1. /\ UNCHANGED <<adapter, book, openOrders, op, want>> /\ pc = "place" /\ pc' = "idle"
      /\ next = want + 1 /\ want \in Nat /\ op = "Reconcile"
  BY DEF ReconcileReturn, Return, TInv, TypeOK, Control
<1>2. PlacesWholePlan'
  <2>1. NoId \notin tracked => Range(openOrders) = 1 .. want /\ IsInjective(openOrders)
    BY <1>1 DEF PlacesOn
  <2> QED
    BY <1>1, <2>1, StillStep DEF PlacesWholePlan
<1> QED
  BY <1>1, <1>2, StillStep DEF CancelsOn, PlacesOn, CancelAllIsComplete

\* Reconcile's next placement: it is tracked if it was acknowledged, and its
\* slot is behind those of all before.
LEMMA PlaceStep ==
    ASSUME SInv, NEW o \in Order, NEW done \in BOOLEAN, NEW r \in Reply, PlaceOrder(o, done, r),
           TInv'
    PROVE  SInv'
<1> USE OrderManagerAssumption DEF SInv
<1> DEFINE e == [slot |-> next, acked |-> r[2] = "result", missed |-> FALSE]
           k == IF PlaceWithoutId(adapter, r) THEN NoId ELSE o
<1>1. /\ pc = "place" /\ op = "Reconcile" /\ result = "none" /\ next <= want
      /\ r \in Replies(adapter, done) /\ UNCHANGED <<adapter, op, todo, want>>
      /\ done => o \in FreshId
  BY DEF PlaceOrder, TInv, Control
<1>2. /\ next \in Nat /\ 1 <= next /\ next \in Slot
  BY <1>1 DEF TInv, TypeOK, Slot
<1>3. adapter \in Adapter /\ book \in [live -> BookEntry] /\ openOrders \in [tracked -> Slot]
  BY DEF TInv, TypeOK
<1>4. e \in BookEntry /\ e.slot = next /\ (e.acked <=> r[2] = "result") /\ ~e.missed
  BY <1>2 DEF BookEntry
<1>5. book' = IF done THEN Put(book, o, e) ELSE book
  BY DEF PlaceOrder
<1> HIDE DEF e
<1>6. done => /\ live' = live \cup {o} /\ o \notin live /\ o \notin tracked
              /\ book'[o] = e /\ \A a \in live : book'[a] = book[a]
  <2>1. ASSUME done
        PROVE  o \notin live /\ o \notin tracked
    BY <1>1, <2>1 DEF FreshId
  <2>2. /\ DOMAIN Put(book, o, e) = live \cup {o} /\ Put(book, o, e)[o] = e
        /\ \A a \in live \ {o} : Put(book, o, e)[a] = book[a]
    BY DEF Put, live
  <2> QED
    BY <1>5, <2>1, <2>2 DEF live
<1>7. CASE PlaceFails(adapter, r)
  <2>1. UNCHANGED openOrders /\ pc' = "idle" /\ result' = "error" /\ tracked' = tracked
    BY <1>7 DEF PlaceOrder, Return, tracked
  <2>2. done => ~e.acked
    BY <1>1, <1>3, <1>4, <1>7, AckIsRead
  <2>3. Acked' = Acked /\ \A a \in Acked : book'[a] = book[a]
    BY <1>5, <1>6, <2>2 DEF Acked, live
  <2>4. NoOrderIsLost' /\ OneQuotePerSlot'
    BY <1>1, <2>1, <2>3 DEF NoOrderIsLost, OneQuotePerSlot
  <2> QED
    BY <2>1, <2>4 DEF CancelsOn, PlacesOn, CancelAllIsComplete, PlacesWholePlan
<1>8. CASE ~PlaceFails(adapter, r) /\ ~done
  <2>1. k = NoId /\ book' = book
    BY <1>1, <1>3, <1>5, <1>8, PlacedIsDone
  <2>2. openOrders' = Put(openOrders, NoId, next) /\ next' = next + 1 /\ UNCHANGED <<pc, result>>
    BY <1>8, <2>1 DEF PlaceOrder
  <2>3. tracked' = tracked \cup {NoId} /\ Acked' = Acked
    BY <2>1, <2>2 DEF Put, tracked, Acked, live
  <2>4. NoOrderIsLost' /\ OneQuotePerSlot'
    BY <1>1, <2>1, <2>3 DEF NoOrderIsLost, OneQuotePerSlot
  <2>5. \A a \in Acked : book[a].slot \in Int
    BY <1>3 DEF Acked, BookEntry, Slot
  <2>6. \A a \in Acked' : book'[a].missed \/ book'[a].slot < next'
    BY <1>1, <1>2, <2>1, <2>2, <2>3, <2>5 DEF PlacesOn
  <2>7. PlacesOn'
    BY <2>3, <2>6 DEF PlacesOn
  <2> QED
    BY <1>1, <2>2, <2>4, <2>7 DEF CancelsOn, CancelAllIsComplete, PlacesWholePlan
<1>9. CASE ~PlaceFails(adapter, r) /\ done
  <2>1. done
    BY <1>9
  <2>2. /\ openOrders' = Put(openOrders, k, next) /\ next' = next + 1
        /\ UNCHANGED <<pc, result, failed>>
    BY <1>9 DEF PlaceOrder
  <2>3. e.acked => k = o
    BY <1>1, <1>3, <1>4, <2>1, AckIsRead
  <2>4. k \in {o, NoId}
    OBVIOUS
  <2> HIDE DEF k
  <2>5. /\ tracked' = tracked \cup {k} /\ openOrders'[k] = next
        /\ \A x \in tracked \ {k} : openOrders'[x] = openOrders[x]
    <3>1. /\ DOMAIN Put(openOrders, k, next) = tracked \cup {k}
          /\ Put(openOrders, k, next)[k] = next
          /\ \A x \in tracked \ {k} : Put(openOrders, k, next)[x] = openOrders[x]
      BY DEF Put, tracked
    <3> QED
      BY <2>2, <3>1 DEF tracked
  <2>6. /\ Acked' \subseteq Acked \cup {o} /\ (o \in Acked' => e.acked)
        /\ \A a \in Acked : book'[a] = book[a]
    BY <1>6, <2>1 DEF Acked
  <2>7. NoOrderIsLost'
    BY <1>1, <1>4, <1>6, <2>1, <2>3, <2>5, <2>6 DEF NoOrderIsLost
  <2>8. \A a \in Acked : book[a].missed \/ book[a].slot < next
    BY <1>1 DEF PlacesOn
  <2>9. OneQuotePerSlot'
    BY <1>2, <1>4, <1>6, <2>1, <2>6, <2>8 DEF OneQuotePerSlot
  <2>10. \A a \in Acked' : book'[a].missed \/ book'[a].slot < next'
    <3>1. \A a \in Acked : book[a].slot \in Int
      BY <1>3 DEF Acked, BookEntry, Slot
    <3> QED
      BY <1>2, <1>4, <1>6, <2>1, <2>2, <2>6, <2>8, <3>1
  <2>11. NoId \notin tracked' => Range(openOrders)' = 1 .. next' - 1 /\ IsInjective(openOrders)'
    <3> SUFFICES ASSUME NoId \notin tracked'
                 PROVE  Range(openOrders)' = 1 .. next' - 1 /\ IsInjective(openOrders)'
      OBVIOUS
    <3>1. k = o /\ NoId \notin tracked /\ o \notin tracked
      BY <1>6, <2>1, <2>4, <2>5
    <3>2. Range(openOrders) = 1 .. next - 1 /\ IsInjective(openOrders)
      BY <1>1, <3>1 DEF PlacesOn
    <3>3. /\ DOMAIN openOrders' = DOMAIN openOrders \cup {o} /\ openOrders'[o] = next
          /\ o \notin DOMAIN openOrders
          /\ \A x \in DOMAIN openOrders : openOrders'[x] = openOrders[x]
      BY <2>5, <3>1 DEF tracked
    <3>4. Range(openOrders)' = Range(openOrders) \cup {next}
      BY <3>3 DEF Range
    <3>5. \A x \in DOMAIN openOrders : openOrders[x] \in 1 .. next - 1
      BY <3>2 DEF Range
    <3>6. IsInjective(openOrders)'
      BY <1>2, <3>2, <3>3, <3>5 DEF IsInjective
    <3>7. (1 .. next - 1) \cup {next} = 1 .. next' - 1
      BY <1>2, <2>2
    <3> QED
      BY <3>2, <3>4, <3>6, <3>7
  <2>12. PlacesOn'
    BY <2>10, <2>11 DEF PlacesOn
  <2> QED
    BY <1>1, <2>2, <2>7, <2>9, <2>12 DEF CancelsOn, CancelAllIsComplete, PlacesWholePlan
<1> QED
  BY <1>7, <1>8, <1>9

\* The inductive invariant holds in every state.
THEOREM OrderManagerInvariance == Spec => []SInv
<1>1. Init => SInv
  <2> SUFFICES ASSUME Init PROVE SInv
    OBVIOUS
  <2>1. Acked = {} /\ pc = "idle" /\ result = "none"
    BY EmptyIs DEF Init, Acked, live
  <2> QED
    BY <2>1, TypeInit
       DEF SInv, NoOrderIsLost, OneQuotePerSlot, CancelAllIsComplete, PlacesWholePlan,
           CancelsOn, PlacesOn
<1>2. SInv /\ [Next]_vars => SInv'
  <2> SUFFICES ASSUME SInv, [Next]_vars PROVE SInv'
    OBVIOUS
  <2>1. TInv'
    BY TypeStep DEF SInv
  <2>2. CASE StartReconcile \/ StartCancelAll
    BY <2>1, <2>2, StartStep, OrderManagerAssumption DEF StartReconcile, StartCancelAll
  <2>3. CASE Cancel
    BY <2>3, CancelStep DEF Cancel
  <2>4. CASE CancelAllReturn
    BY <2>1, <2>4, CancelReturnStep
  <2>5. CASE Place
    BY <2>1, <2>5, PlaceStep DEF Place
  <2>6. CASE ReconcileReturn
    BY <2>1, <2>6, ReconcileReturnStep
  <2>7. CASE \E o \in Order : Fill(o)
    BY <2>7, FillStep
  <2>8. CASE UNCHANGED vars
    BY <2>1, <2>8, StillStep
       DEF vars, SInv, CancelsOn, PlacesOn, CancelAllIsComplete, PlacesWholePlan
  <2> QED
    BY <2>2, <2>3, <2>4, <2>5, <2>6, <2>7, <2>8 DEF Next, Proceed
<1> QED
  BY <1>1, <1>2, PTL DEF Spec

\* No order that the exchange has acknowledged and still has is forgotten, but
\* for the cancellations that bybit and kraken wrongly confirm.
THEOREM NoOrderLost == Spec => []NoOrderIsLost
  BY OrderManagerInvariance, PTL DEF SInv

\* No layer and side is quoted twice.
THEOREM OneQuote == Spec => []OneQuotePerSlot
  BY OrderManagerInvariance, PTL DEF SInv

\* A CancelAll that returns nil leaves nothing acknowledged on the book but
\* what was wrongly confirmed.
THEOREM CancelAllComplete == Spec => []CancelAllIsComplete
  BY OrderManagerInvariance, PTL DEF SInv

\* A Reconcile that returns nil has placed its whole plan, each order once.
THEOREM WholePlan == Spec => []PlacesWholePlan
  BY OrderManagerInvariance, PTL DEF SInv
------------------------------------------------------------------------------
(* The manager quotes in rounds. *)

\* The exchange's book loses one order: a quote goes, or a stray one does, or
\* nothing that is known.
LEMMA GoneStep ==
    ASSUME SInv, NEW o \in live, live' = live \ {o}, \A a \in live' : book'[a] = book[a],
           UNCHANGED <<adapter, op, pc, want, next, result>>
    PROVE  [Rounds!Next]_(Rounds!vars)
<1> DEFINE q == [a \in Quotes |-> book[a].slot]
<1>1. Quotes' = Quotes \ {o} /\ Acked' = Acked \ {o} /\ o \in Order /\ DOMAIN q = Quotes
  BY DEF Quotes, Acked, SInv, TInv, TypeOK
<1>2. \A a \in Quotes' : book'[a].slot = book[a].slot
  BY DEF Quotes, Acked
<1>3. q' = Restrict(q, DOMAIN q \ {o})
  BY <1>1, <1>2 DEF Restrict
<1>4. CASE o \in Quotes
  <2>1. (Acked \ Quotes)' = Acked \ Quotes
    BY <1>1, <1>4
  <2>2. Rounds!Withdraw(o)
    BY <1>1, <1>3, <1>4, <2>1 DEF Rounds!Withdraw, StatusRead, Restrict, Rounds!Restrict
  <2> QED
    BY <1>1, <2>2 DEF Rounds!Next
<1>5. CASE o \in Acked \ Quotes
  <2>1. (Acked \ Quotes)' = (Acked \ Quotes) \ {o} /\ q' = q
    BY <1>1, <1>2, <1>5
  <2>2. Rounds!LeaveBook(o)
    BY <1>5, <2>1 DEF Rounds!LeaveBook, StatusRead
  <2> QED
    BY <1>1, <2>2 DEF Rounds!Next
<1>6. CASE o \notin Acked
  <2>1. Quotes' = Quotes /\ Acked' = Acked
    BY <1>1, <1>6 DEF Quotes
  <2> QED
    BY <1>2, <2>1 DEF Rounds!vars, StatusRead
<1> QED
  BY <1>4, <1>5, <1>6

\* A step that leaves the book alone leaves the quotes alone.
LEMMA SameQuotes ==
    ASSUME UNCHANGED <<adapter, book>>
    PROVE  /\ Quotes' = Quotes /\ Acked' = Acked /\ StatusRead' = StatusRead
           /\ [o \in Quotes |-> book[o].slot]' = [o \in Quotes |-> book[o].slot]
BY DEF Quotes, Acked, live, StatusRead

\* No quotes, as a function.
LEMMA NoQuotes ==
    ASSUME Quotes = {}
    PROVE  [o \in Quotes |-> book[o].slot] = << >>
<1>1. [o \in {} |-> book[o].slot] = << >>
  OBVIOUS
<1> QED
  BY <1>1

\* cancelAll's next cancellation: an order goes, or is given up for cancelled.
LEMMA CancelRefines ==
    ASSUME SInv, NEW id \in todo, NEW done \in BOOLEAN, NEW r \in Reply, CancelOrder(id, done, r)
    PROVE  [Rounds!Next]_(Rounds!vars)
<1> USE OrderManagerAssumption
<1> DEFINE q == [a \in Quotes |-> book[a].slot]
           believed == ~CancelFails(adapter, r)
<1>1. /\ pc = "cancel" /\ r \in Replies(adapter, done) /\ adapter \in Adapter
      /\ UNCHANGED <<adapter, pc, op, want, next, result>>
      /\ live \subseteq Order /\ book \in [live -> BookEntry]
  BY DEF CancelOrder, SInv, TInv, TypeOK
<1>2. CASE done
  <2>1. book' = Restrict(book, live \ {id})
    BY <1>2 DEF CancelOrder
  <2>2. live' = live \ {id} /\ \A a \in live' : book'[a] = book[a]
    BY <2>1 DEF live, Restrict
  <2>3. CASE id \in live
    BY <1>1, <2>2, <2>3, GoneStep
  <2>4. CASE id \notin live
    <3>1. Quotes' = Quotes /\ Acked' = Acked /\ q' = q
      BY <2>2, <2>4 DEF Quotes, Acked
    <3> QED
      BY <1>1, <3>1 DEF Rounds!vars, StatusRead
  <2> QED
    BY <2>3, <2>4
<1>3. CASE ~done
  <2>1. book' = [o \in live |-> [book[o] EXCEPT !.missed = @ \/ (o = id /\ believed)]]
    BY <1>3 DEF CancelOrder
  <2> HIDE DEF believed
  <2>2. /\ live' = live
        /\ \A o \in live : /\ book'[o].slot = book[o].slot /\ book'[o].acked = book[o].acked
                           /\ book'[o].missed <=> book[o].missed \/ (o = id /\ believed)
    BY <1>1, <2>1 DEF BookEntry, live
  <2>3. Acked' = Acked
    BY <2>2 DEF Acked
  <2>4. CASE id \in Quotes /\ believed
    <3>1. ~StatusRead /\ StatusRead' = StatusRead
      BY <1>1, <1>3, <2>4, CancelledIsDone DEF believed, StatusRead
    <3>2. Quotes' = Quotes \ {id} /\ DOMAIN q = Quotes /\ id \in Order
      BY <1>1, <2>2, <2>3, <2>4 DEF Quotes, Acked
    <3>3. \A o \in Quotes' : book'[o].slot = book[o].slot
      BY <2>2 DEF Quotes, Acked
    <3>4. q' = Restrict(q, DOMAIN q \ {id})
      BY <3>2, <3>3 DEF Restrict
    <3>5. (Acked \ Quotes)' = (Acked \ Quotes) \cup {id}
      BY <2>3, <2>4, <3>2 DEF Quotes
    <3>6. Rounds!Withdraw(id)
      BY <1>1, <2>4, <3>1, <3>2, <3>4, <3>5 DEF Rounds!Withdraw, Restrict, Rounds!Restrict
    <3> QED
      BY <3>2, <3>6 DEF Rounds!Next
  <2>5. CASE ~(id \in Quotes /\ believed)
    <3>1. Quotes' = Quotes
      BY <2>2, <2>3, <2>5 DEF Quotes, Acked
    <3>2. q' = q
      BY <2>2, <3>1 DEF Quotes, Acked
    <3> QED
      BY <1>1, <2>3, <3>1, <3>2 DEF Rounds!vars, StatusRead
  <2> QED
    BY <2>4, <2>5
<1> QED
  BY <1>2, <1>3

\* cancelAll returns: the method gives up, or has cleared the book for itself.
LEMMA ReturnRefines ==
    ASSUME SInv, CancelAllReturn
    PROVE  Rounds!Next
<1>1. /\ pc = "cancel" /\ todo = {} /\ UNCHANGED <<adapter, book, op, want>> /\ next = 1
      /\ result = "none"
  BY DEF CancelAllReturn, SInv, TInv, Control
<1>2. ~failed => Quotes = {}
  BY <1>1 DEF SInv, CancelsOn, Quotes
<1>3. ~failed => [o \in Quotes |-> book[o].slot] = << >>
  BY <1>2, NoQuotes
<1>4. CASE op = "CancelAll" /\ ~failed
  <2>1. pc' = "idle" /\ result' = "ok" /\ next' = 1
    BY <1>4 DEF CancelAllReturn, Return
  <2>2. Rounds!Succeed
    BY <1>1, <1>3, <1>4, <2>1, SameQuotes DEF Rounds!Succeed
  <2> QED
    BY <2>2 DEF Rounds!Next
<1>5. CASE failed
  <2>1. pc' = "idle" /\ result' = "error" /\ next' = 1
    BY <1>5 DEF CancelAllReturn, Return
  <2>2. Rounds!GiveUp
    BY <1>1, <2>1, SameQuotes DEF Rounds!GiveUp
  <2> QED
    BY <2>2 DEF Rounds!Next
<1>6. CASE op = "Reconcile" /\ ~failed
  <2>1. pc' = "place" /\ UNCHANGED <<result, next>>
    BY <1>6 DEF CancelAllReturn
  <2>2. Rounds!BeginRound
    BY <1>1, <1>3, <1>6, <2>1, SameQuotes DEF Rounds!BeginRound
  <2> QED
    BY <2>2 DEF Rounds!Next
<1> QED
  BY <1>4, <1>5, <1>6 DEF CancelAllReturn

\* Reconcile's next placement: the slot is quoted, or is not that anyone would
\* know, or Reconcile gives up.
LEMMA PlaceRefines ==
    ASSUME SInv, NEW o \in Order, NEW done \in BOOLEAN, NEW r \in Reply, PlaceOrder(o, done, r)
    PROVE  Rounds!Next
<1> DEFINE e == [slot |-> next, acked |-> r[2] = "result", missed |-> FALSE]
           q == [a \in Quotes |-> book[a].slot]
<1>0. want \in Nat /\ next \in Nat
  BY OrderManagerAssumption DEF SInv, TInv, TypeOK
<1>1. /\ pc = "place" /\ next <= want /\ r \in Replies(adapter, done)
      /\ UNCHANGED <<adapter, op, want>> /\ adapter \in Adapter
      /\ done => o \in FreshId
  BY OrderManagerAssumption DEF PlaceOrder, SInv, TInv, TypeOK
<1>2. book' = IF done THEN Put(book, o, e) ELSE book
  BY DEF PlaceOrder
<1>3. e.slot = next /\ (e.acked <=> r[2] = "result") /\ ~e.missed
  OBVIOUS
<1> HIDE DEF e
<1>4. done => /\ live' = live \cup {o} /\ o \notin live
              /\ book'[o] = e /\ \A a \in live : book'[a] = book[a]
  BY <1>1, <1>2 DEF Put, live, FreshId
<1>5. CASE ~(done /\ e.acked)
  <2>1. Acked' = Acked /\ \A a \in Acked : book'[a] = book[a]
    BY <1>2, <1>4, <1>5 DEF Acked, live
  <2>2. Quotes' = Quotes /\ q' = q
    BY <2>1 DEF Quotes
  <2>3. CASE PlaceFails(adapter, r)
    <3>1. pc' = "idle" /\ result' = "error" /\ next' = 1
      BY <2>3 DEF PlaceOrder, Return
    <3>2. Rounds!GiveUp
      BY <1>0, <1>1, <2>1, <2>2, <3>1 DEF Rounds!GiveUp, StatusRead
    <3> QED
      BY <3>2 DEF Rounds!Next
  <2>4. CASE ~PlaceFails(adapter, r)
    <3>1. next' = next + 1 /\ UNCHANGED <<pc, result>>
      BY <2>4 DEF PlaceOrder
    <3>2. Rounds!Quote(o)
      BY <1>0, <1>1, <2>1, <2>2, <3>1 DEF Rounds!Quote, StatusRead
    <3> QED
      BY <3>2 DEF Rounds!Next
  <2> QED
    BY <2>3, <2>4
<1>6. CASE done /\ e.acked
  <2>1. ~PlaceFails(adapter, r)
    BY <1>1, <1>3, <1>6, AckIsRead
  <2>2. next' = next + 1 /\ UNCHANGED <<pc, result>>
    BY <2>1 DEF PlaceOrder
  <2>3. Acked' = Acked \cup {o} /\ Quotes' = Quotes \cup {o} /\ o \notin Acked
    BY <1>3, <1>4, <1>6 DEF Acked, Quotes
  <2>4. \A a \in Quotes : book'[a] = book[a] /\ a # o
    BY <1>4, <1>6 DEF Quotes, Acked
  <2>5. DOMAIN q = Quotes /\ \A a \in Quotes : q[a] = book[a].slot
    OBVIOUS
  <2>6. q' = [a \in DOMAIN q \cup {o} |-> IF a = o THEN next ELSE q[a]]
    <3>1. DOMAIN q \cup {o} = Quotes'
      BY <2>3, <2>5
    <3>2. \A a \in Quotes' : book'[a].slot = IF a = o THEN next ELSE q[a]
      BY <1>3, <1>4, <1>6, <2>3, <2>4, <2>5
    <3> HIDE DEF q
    <3>3. [a \in Quotes' |-> book'[a].slot]
             = [a \in Quotes' |-> IF a = o THEN next ELSE q[a]]
      BY <3>2
    <3> QED
      BY <3>1, <3>3 DEF q
  <2>7. (next - 1) + 1 = next
    BY <1>0
  <2>8. (Acked \ Quotes)' = Acked \ Quotes /\ o \notin DOMAIN q \cup (Acked \ Quotes)
    BY <2>3, <2>5 DEF Quotes
  <2>9. Rounds!Quote(o)
    BY <1>0, <1>1, <2>2, <2>6, <2>7, <2>8 DEF Rounds!Quote, StatusRead
  <2> QED
    BY <2>9 DEF Rounds!Next
<1> QED
  BY <1>5, <1>6

\* Every step is one of the rounds, or leaves them alone.
LEMMA RoundsStep == SInv /\ [Next]_vars => [Rounds!Next]_(Rounds!vars)
<1> SUFFICES ASSUME SInv, [Next]_vars PROVE [Rounds!Next]_(Rounds!vars)
  OBVIOUS
<1> USE OrderManagerAssumption
<1>1. ASSUME NEW m \in {"Reconcile", "CancelAll"}, NEW n \in 0 .. MaxLayers, Start(m, n)
      PROVE  Rounds!Begin(m, n)
  BY <1>1, SameQuotes DEF Start, Rounds!Begin
<1>2. CASE StartReconcile \/ StartCancelAll
  BY <1>1, <1>2 DEF StartReconcile, StartCancelAll, Rounds!Next
<1>3. CASE Cancel
  BY <1>3, CancelRefines DEF Cancel
<1>4. CASE CancelAllReturn
  BY <1>4, ReturnRefines
<1>5. CASE Place
  BY <1>5, PlaceRefines DEF Place
<1>6. CASE ReconcileReturn
  <2>1. /\ pc = "place" /\ next - 1 = want /\ pc' = "idle" /\ result' = "ok" /\ next' = 1
        /\ UNCHANGED <<adapter, book, op, want>>
    BY <1>6 DEF ReconcileReturn, Return, SInv, TInv, TypeOK
  <2>2. Rounds!Succeed
    BY <2>1, SameQuotes DEF Rounds!Succeed
  <2> QED
    BY <2>2 DEF Rounds!Next
<1>7. CASE \E o \in Order : Fill(o)
  <2> PICK o \in Order : Fill(o)
    BY <1>7
  <2>1. live' = live \ {o} /\ \A a \in live' : book'[a] = book[a]
    BY DEF Fill, live, Restrict
  <2> QED
    BY <2>1, GoneStep DEF Fill
<1>8. CASE UNCHANGED vars
  BY <1>8, SameQuotes DEF vars, Rounds!vars
<1> QED
  BY <1>2, <1>3, <1>4, <1>5, <1>6, <1>7, <1>8 DEF Next, Proceed

\* With its map of orders, its retries and the replies it gets, the manager
\* implements QuoteRounds.
THEOREM Refinement == Spec => ImplementsRounds
<1>1. Init => Rounds!Init
  <2> SUFFICES ASSUME Init PROVE Rounds!Init
    OBVIOUS
  <2>1. Acked = {} /\ Quotes = {}
    BY EmptyIs DEF Init, Acked, live, Quotes
  <2> QED
    BY <2>1, NoQuotes DEF Init, Rounds!Init, StatusRead
<1> QED
  BY <1>1, RoundsStep, OrderManagerInvariance, PTL DEF Spec, ImplementsRounds, Rounds!Spec
------------------------------------------------------------------------------
(* Cancellations that did not happen are told. *)

\* Where the adapter reads the status, a tracked order that cancelAll has been
\* through is gone, or cancelAll is to fail.
ClearsTracked ==
    StatusRead => /\ pc = "cancel" /\ ~failed => live \cap tracked \subseteq todo
                  /\ CancelAllCancels

\* Every step keeps it.
LEMMA ClearsStep == TInv /\ ClearsTracked /\ [Next]_vars => ClearsTracked'
<1> SUFFICES ASSUME TInv, ClearsTracked, [Next]_vars PROVE ClearsTracked'
  OBVIOUS
<1> USE OrderManagerAssumption
<1>1. CASE StartReconcile \/ StartCancelAll
  BY <1>1 DEF StartReconcile, StartCancelAll, Start, ClearsTracked, CancelAllCancels,
              StatusRead, live, tracked
<1>2. ASSUME NEW id \in todo, NEW done \in BOOLEAN, NEW r \in Reply, CancelOrder(id, done, r)
      PROVE  ClearsTracked'
  <2>1. /\ pc = "cancel" /\ pc' = pc /\ todo' = todo \ {id} /\ result' = result /\ result = "none"
        /\ adapter' = adapter /\ tracked' = tracked /\ r \in Replies(adapter, done)
        /\ adapter \in Adapter /\ failed' = (failed \/ CancelFails(adapter, r))
    BY <1>2 DEF CancelOrder, TInv, TypeOK, Control, tracked
  <2>2. live' \subseteq live /\ (done => id \notin live')
    BY <1>2 DEF CancelOrder, live, Restrict
  <2>3. StatusRead /\ ~done => failed'
    BY <2>1, CancelledIsDone DEF StatusRead
  <2> QED
    BY <2>1, <2>2, <2>3 DEF ClearsTracked, CancelAllCancels, StatusRead
<1>3. CASE CancelAllReturn
  <2>1. pc = "cancel" /\ todo = {} /\ result = "none" /\ pc' # "cancel" /\ live' = live
        /\ adapter' = adapter /\ op' = op
    BY <1>3 DEF CancelAllReturn, Return, TInv, Control, live
  <2>2. CASE op = "CancelAll" /\ ~failed
    BY <1>3, <2>1, <2>2 DEF CancelAllReturn, ClearsTracked, CancelAllCancels, StatusRead, tracked
  <2>3. CASE ~(op = "CancelAll" /\ ~failed)
    BY <1>3, <2>1, <2>3 DEF CancelAllReturn, Return, ClearsTracked, CancelAllCancels
  <2> QED
    BY <2>2, <2>3
<1>4. CASE Place \/ ReconcileReturn
  BY <1>4 DEF Place, PlaceOrder, ReconcileReturn, Return, TInv, Control, ClearsTracked,
              CancelAllCancels
<1>5. CASE \E o \in Order : Fill(o)
  <2>1. live' \subseteq live /\ tracked' = tracked
        /\ UNCHANGED <<adapter, pc, op, todo, failed, result>>
    BY <1>5 DEF Fill, live, tracked, Restrict
  <2> QED
    BY <2>1 DEF ClearsTracked, CancelAllCancels, StatusRead
<1>6. CASE UNCHANGED vars
  BY <1>6 DEF vars, ClearsTracked, CancelAllCancels, StatusRead, live, tracked
<1> QED
  BY <1>1, <1>2, <1>3, <1>4, <1>5, <1>6 DEF Next, Proceed, Cancel

\* CancelAll keeps its word to every bot whose adapter reads the status: an
\* order that it tracks and that is on the book, whatever was filled, lost or
\* refused on the way, does not outlive a CancelAll that returns nil.
THEOREM CancelAllClears == Spec => []CancelAllCancelsIfStatusRead
<1>1. Init => ClearsTracked
  BY EmptyIs DEF Init, ClearsTracked, CancelAllCancels, live
<1>2. ClearsTracked => CancelAllCancelsIfStatusRead
  BY DEF ClearsTracked, CancelAllCancelsIfStatusRead
<1>3. SInv => TInv
  BY DEF SInv
<1> QED
  BY <1>1, <1>2, <1>3, ClearsStep, OrderManagerInvariance, PTL DEF Spec
------------------------------------------------------------------------------
(* A filled order wedges the manager. *)

\* The venue refuses to cancel what is gone, and the adapter says so.
Insists == StatusRead /\ ~CancelsUnknown(adapter)

\* Once an order wedges the manager, no step unwedges it, and none gets from
\* cancelling to placing.
LEMMA WedgeStep ==
    ASSUME TInv, [Next]_vars, Insists, NEW o \in Order \cup {NoId}, Wedged(o)
    PROVE  Insists' /\ Wedged(o)' /\ (pc' = "place" => pc = "place")
<1> USE OrderManagerAssumption DEF Insists
<1>1. CASE StartReconcile \/ StartCancelAll
  BY <1>1 DEF StartReconcile, StartCancelAll, Start, Wedged, StatusRead, live, tracked
<1>2. ASSUME NEW id \in todo, NEW done \in BOOLEAN, NEW r \in Reply, CancelOrder(id, done, r)
      PROVE  Insists' /\ Wedged(o)' /\ pc' = pc
  <2>1. /\ pc = "cancel" /\ pc' = pc /\ todo' = todo \ {id} /\ adapter' = adapter
        /\ tracked' = tracked /\ r \in Replies(adapter, done) /\ adapter \in Adapter
        /\ failed' = (failed \/ CancelFails(adapter, r)) /\ (done => id \in live)
    BY <1>2 DEF CancelOrder, TInv, TypeOK, tracked
  <2>2. live' \subseteq live
    BY <1>2 DEF CancelOrder, live, Restrict
  <2>3. id = o => failed'
    BY <2>1, CancelledIsDone DEF StatusRead, Wedged
  <2> QED
    BY <2>1, <2>2, <2>3 DEF Wedged, StatusRead
<1>3. CASE CancelAllReturn
  <2>1. failed
    BY <1>3 DEF CancelAllReturn, Wedged
  <2> QED
    BY <1>3, <2>1 DEF CancelAllReturn, Return, Wedged, StatusRead, live, tracked
<1>4. ASSUME NEW i \in Order, NEW done \in BOOLEAN, NEW r \in Reply, PlaceOrder(i, done, r)
      PROVE  Insists' /\ Wedged(o)' /\ (pc' = "place" => pc = "place")
  <2>1. pc = "place" /\ pc' # "cancel" /\ adapter' = adapter /\ (done => i \in FreshId)
    BY <1>4 DEF PlaceOrder, Return
  <2>2. tracked \subseteq tracked'
    BY <1>4 DEF PlaceOrder, Put, tracked
  <2>3. live' \subseteq live \/ (done /\ live' = live \cup {i})
    BY <1>4 DEF PlaceOrder, Put, live
  <2> QED
    BY <2>1, <2>2, <2>3 DEF Wedged, StatusRead, FreshId
<1>5. CASE ReconcileReturn
  BY <1>5 DEF ReconcileReturn, Return, Wedged, StatusRead, live, tracked
<1>6. CASE \E i \in Order : Fill(i)
  <2>1. live' \subseteq live /\ tracked' = tracked /\ UNCHANGED <<adapter, pc, todo, failed>>
    BY <1>6 DEF Fill, live, tracked, Restrict
  <2> QED
    BY <2>1 DEF Wedged, StatusRead
<1>7. CASE UNCHANGED vars
  BY <1>7 DEF vars, Wedged, StatusRead, live, tracked
<1> QED
  BY <1>1, <1>2, <1>3, <1>4, <1>5, <1>6, <1>7 DEF Next, Proceed, Cancel, Place

\* No step unwedges a manager.
THEOREM NoStepUnwedges == Spec => FilledOrderWedges
<1> DEFINE Step ==
        StatusRead /\ ~CancelsUnknown(adapter) =>
            \A o \in Order \cup {NoId} :
                Wedged(o) => Wedged(o)' /\ (pc' = "place" => pc = "place")
<1>1. SInv /\ [Next]_vars => [Step]_vars
  BY WedgeStep DEF SInv, Insists
<1> QED
  BY <1>1, OrderManagerInvariance, PTL DEF Spec, FilledOrderWedges

\* One order that is filled at the wrong moment is the end of quoting, whatever
\* the exchange does and however often the worker calls again: a manager that
\* is wedged while it is not placing never places again.
THEOREM WedgedForGood ==
    ASSUME NEW o \in Order \cup {NoId}
    PROVE  Spec => [](Insists /\ Wedged(o) /\ pc # "place" => [](pc # "place"))
<1> DEFINE W == Insists /\ Wedged(o) /\ pc # "place"
<1>1. SInv /\ W /\ [Next]_vars => W'
  BY WedgeStep DEF SInv
<1>2. W => pc # "place"
  OBVIOUS
<1> HIDE DEF W
<1>3. Spec => [](W => [](pc # "place"))
  BY <1>1, <1>2, OrderManagerInvariance, PTL DEF Spec
<1> QED
  BY <1>3 DEF W
------------------------------------------------------------------------------
(* A call comes to its end *)

\* The manager tracks no more orders than a Reconcile places; inside of one, no
\* more than it has placed.
Few == /\ IsFiniteSet(tracked)
       /\ Cardinality(tracked) <= IF pc = "place" THEN next - 1 ELSE 2 * MaxLayers

\* Every step keeps that: what a Reconcile left half placed is not added to.
LEMMA FewStep == TInv /\ Few /\ [Next]_vars => Few'
<1> SUFFICES ASSUME TInv, Few, [Next]_vars PROVE Few'
  OBVIOUS
<1>0. /\ MaxLayers \in Nat /\ want \in Nat /\ want <= 2 * MaxLayers
      /\ next \in Nat /\ 1 <= next /\ next <= want + 1
      /\ IsFiniteSet(tracked) /\ Cardinality(tracked) \in Nat
  BY OrderManagerAssumption, FS_CardinalityType DEF TInv, TypeOK, Few
<1>1. ASSUME tracked' = tracked, pc' # "place"
      PROVE  Few'
  BY <1>0, <1>1 DEF Few
<1>2. CASE CancelAllReturn
  <2>1. CASE openOrders' = << >> /\ pc' = "place" /\ UNCHANGED next
    <3>1. tracked' = {} /\ next' = 1
      BY <1>2, <2>1, EmptyIs DEF CancelAllReturn, tracked, TInv, Control
    <3> QED
      BY <2>1, <3>1, FS_EmptySet DEF Few
  <2>2. CASE UNCHANGED openOrders /\ pc' = "idle"
    BY <1>1, <2>2 DEF tracked
  <2> QED
    BY <1>2, <2>1, <2>2 DEF CancelAllReturn, Return
<1>3. ASSUME NEW o \in Order, NEW done \in BOOLEAN, NEW r \in Reply, PlaceOrder(o, done, r)
      PROVE  Few'
  <2>1. CASE PlaceFails(adapter, r)
    BY <1>1, <1>3, <2>1 DEF PlaceOrder, Return, tracked
  <2>2. CASE ~PlaceFails(adapter, r)
    <3> DEFINE k == IF PlaceWithoutId(adapter, r) THEN NoId ELSE o
    <3>1. /\ openOrders' = Put(openOrders, k, next)
          /\ pc = "place" /\ pc' = "place" /\ next' = next + 1
      BY <1>3, <2>2 DEF PlaceOrder
    <3> HIDE DEF k
    <3>2. tracked' = tracked \cup {k}
      BY <3>1 DEF tracked, Put
    <3>3. /\ IsFiniteSet(tracked') /\ Cardinality(tracked') \in Nat
          /\ Cardinality(tracked') <= Cardinality(tracked) + 1
      <4>1. /\ IsFiniteSet(tracked \cup {k})
            /\ Cardinality(tracked \cup {k})
                 = IF k \in tracked THEN Cardinality(tracked) ELSE Cardinality(tracked) + 1
        BY <1>0, FS_AddElement
      <4> QED
        BY <1>0, <3>2, <4>1
    <3> QED
      BY <1>0, <3>1, <3>3 DEF Few
  <2> QED
    BY <2>1, <2>2
<1>4. CASE ReconcileReturn
  BY <1>1, <1>4 DEF ReconcileReturn, Return, tracked
<1>5. ASSUME \/ StartReconcile \/ StartCancelAll
             \/ \E id \in todo, done \in BOOLEAN, r \in Reply : CancelOrder(id, done, r)
      PROVE  Few'
  BY <1>1, <1>5 DEF StartReconcile, StartCancelAll, Start, CancelOrder, tracked
<1>6. CASE UNCHANGED vars \/ \E o \in Order : Fill(o)
  BY <1>6 DEF vars, Fill, Few, tracked
<1> QED
  BY <1>2, <1>3, <1>4, <1>5, <1>6 DEF Next, Proceed, Cancel, Place

\* However often Reconcile fails half way and is called again, openOrders does not
\* grow: the manager never tracks more than the orders of one plan.
THEOREM FewTracked == Spec => []Few
<1>1. Init => Few
  <2> SUFFICES ASSUME Init PROVE Few
    OBVIOUS
  <2>1. tracked = {} /\ pc = "idle"
    BY EmptyIs DEF Init, tracked
  <2> QED
    BY <2>1, FS_EmptySet, OrderManagerAssumption DEF Few
<1> QED
  BY <1>1, TypeInit, TypeStep, FewStep, PTL DEF Spec

\* The steps that the call in progress has still to make, at most.
StepsLeft == CASE pc = "cancel" -> Cardinality(todo) + want + 2
               [] pc = "place"  -> want + 2 - next
               [] pc = "idle"   -> 0

\* It is a number, and no greater than the plan allows.
LEMMA StepsType ==
    ASSUME TInv, Few
    PROVE  /\ IsFiniteSet(todo) /\ Cardinality(todo) \in Nat
           /\ StepsLeft \in 0 .. 4 * MaxLayers + 2 /\ (pc # "idle" => StepsLeft > 0)
<1>1. IsFiniteSet(todo) /\ Cardinality(todo) <= Cardinality(tracked)
  BY FS_Subset DEF TInv, TypeOK, Few
<1>2. Cardinality(todo) \in Nat /\ Cardinality(tracked) \in Nat
  BY <1>1, FS_CardinalityType DEF Few
<1>3. /\ MaxLayers \in Nat /\ want \in Nat /\ want <= 2 * MaxLayers
      /\ next \in Nat /\ 1 <= next /\ next <= want + 1
  BY OrderManagerAssumption DEF TInv, TypeOK
<1>4. CASE pc = "cancel"
  BY <1>1, <1>2, <1>3, <1>4 DEF StepsLeft, Few
<1>5. CASE pc = "place"
  <2>1. StepsLeft = want + 2 - next
    BY <1>5 DEF StepsLeft
  <2>2. want + 2 - next \in 1 .. 4 * MaxLayers + 2
    BY <1>3
  <2> QED
    BY <1>1, <1>2, <1>5, <2>1, <2>2
<1>6. CASE pc = "idle"
  <2>1. StepsLeft = 0
    BY <1>6 DEF StepsLeft
  <2> QED
    BY <1>1, <1>2, <1>3, <1>6, <2>1
<1> QED
  BY <1>1, <1>2, <1>4, <1>5, <1>6 DEF TInv, TypeOK

\* What the manager does inside a call takes the call nearer to its end; only the
\* exchange's fills come in between.
LEMMA AdvanceStep ==
    ASSUME TInv, Few, [Next]_vars, pc # "idle"
    PROVE  UNCHANGED <<pc, todo, next>> \/ StepsLeft' < StepsLeft
<1>0. /\ want \in Nat /\ next \in Nat /\ 1 <= next /\ next <= want + 1
      /\ IsFiniteSet(todo) /\ Cardinality(todo) \in Nat
      /\ StepsLeft \in Int /\ StepsLeft > 0
  BY StepsType DEF TInv, TypeOK
<1>1. ASSUME NEW id \in todo, NEW done \in BOOLEAN, NEW r \in Reply, CancelOrder(id, done, r)
      PROVE  StepsLeft' < StepsLeft
  <2>1. pc = "cancel" /\ pc' = "cancel" /\ todo' = todo \ {id} /\ want' = want
    BY <1>1 DEF CancelOrder
  <2>2. Cardinality(todo') = Cardinality(todo) - 1
    BY <1>0, <2>1, FS_RemoveElement
  <2> QED
    BY <1>0, <2>1, <2>2 DEF StepsLeft
<1>2. CASE CancelAllReturn
  <2>1. CASE pc' = "idle"
    BY <1>0, <2>1 DEF StepsLeft
  <2>2. CASE pc' = "place" /\ next' = next
    <3>1. pc = "cancel" /\ next = 1 /\ todo = {} /\ want' = want
      BY <1>2 DEF CancelAllReturn, TInv, Control
    <3>2. StepsLeft = want + 2 /\ StepsLeft' = want + 1
      BY <1>0, <2>2, <3>1, FS_EmptySet DEF StepsLeft
    <3> QED
      BY <1>0, <3>2
  <2> QED
    BY <1>2, <2>1, <2>2 DEF CancelAllReturn, Return
<1>3. ASSUME NEW o \in Order, NEW done \in BOOLEAN, NEW r \in Reply, PlaceOrder(o, done, r)
      PROVE  StepsLeft' < StepsLeft
  <2>1. CASE pc' = "idle"
    BY <1>0, <2>1 DEF StepsLeft
  <2>2. CASE pc = "place" /\ pc' = "place" /\ next' = next + 1 /\ want' = want
    BY <1>0, <2>2 DEF StepsLeft
  <2> QED
    BY <1>3, <2>1, <2>2 DEF PlaceOrder, Return
<1>4. CASE ReconcileReturn
  BY <1>0, <1>4 DEF ReconcileReturn, Return, StepsLeft
<1>5. CASE UNCHANGED vars \/ \E o \in Order : Fill(o)
  BY <1>5 DEF vars, Fill
<1>6. ~StartReconcile /\ ~StartCancelAll
  BY DEF StartReconcile, StartCancelAll, Start
<1> QED
  BY <1>1, <1>2, <1>3, <1>4, <1>5, <1>6 DEF Next, Proceed, Cancel, Place

\* Reconcile and CancelAll retry nothing and go over no order twice, whatever
\* fails: every step they take is one of the few they have left.
THEOREM CallAdvances ==
    Spec => [][pc # "idle" => UNCHANGED <<pc, todo, next>> \/ StepsLeft' < StepsLeft]_vars
<1>1. TInv /\ Few /\ [Next]_vars
        => [pc # "idle" => UNCHANGED <<pc, todo, next>> \/ StepsLeft' < StepsLeft]_vars
  BY AdvanceStep
<1> QED
  BY <1>1, TypeInit, TypeStep, FewTracked, PTL DEF Spec

\* And few they are: no call makes more than 4 * MaxLayers requests.
THEOREM CallIsBounded == Spec => [](StepsLeft \in 0 .. 4 * MaxLayers + 2)
<1>1. TInv /\ Few => StepsLeft \in 0 .. 4 * MaxLayers + 2
  BY StepsType
<1> QED
  BY <1>1, TypeInit, TypeStep, FewTracked, PTL DEF Spec
==============================================================================
