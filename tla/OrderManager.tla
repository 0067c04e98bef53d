----------------------------- MODULE OrderManager ----------------------------
(***************************************************************************)
(* The order manager of one bot (internal/engine/manager.go) against an    *)
(* exchange that fills orders, loses replies and answers with errors.      *)
(*                                                                         *)
(* Reconcile cancels every order the manager tracks, forgets them all if   *)
(* every cancellation succeeded, and places a buy and a sell order per     *)
(* layer, stopping at the first error.  CancelAll cancels every tracked    *)
(* order and forgets none.  The two never run at the same time: one        *)
(* goroutine owns the manager.  Between two calls to the exchange its      *)
(* orders may be filled.                                                   *)
(***************************************************************************)
EXTENDS Naturals, Functions, ExchangeAdapters

CONSTANTS Order,      \* order ids of the exchange (a bound on those in use)
          NoId,       \* the empty order id
          MaxLayers,  \* most layers a Reconcile is asked to quote (a bound)
          Adapters    \* the adapters to consider

ASSUME OrderManagerAssumption ==
    /\ NoId \notin Order
    /\ MaxLayers \in Nat \ {0}
    /\ Adapters \subseteq Adapter

\* The definitions named Wrong... are no part of the specification: each is the
\* definition after it with one slip, kept to see that a property notices.

VARIABLES adapter,    \* the adapter of this bot
          book,       \* the bot's orders on the exchange's book
          openOrders, \* the orders the manager tracks, by id, with their slot
          pc,         \* "idle", "cancel" or "place"
          op,         \* the method that is running, or ran last
          todo,       \* ids cancelAll has still to cancel
          failed,     \* firstErr is set
          want,       \* orders this Reconcile is to place (two a layer)
          next,       \* the order it places next
          result      \* what the last call returned: "none", "ok" or "error"

vars == <<adapter, book, openOrders, pc, op, todo, failed, want, next, result>>

\* A slot is a layer and a side: layer 1 buy, layer 1 sell, layer 2 buy, ...
Slot == 1 .. 2 * MaxLayers

\* An order on the book, with two histories: the exchange has acknowledged it
\* with its id, and CancelOrder has returned nil for it all the same.
BookEntry == [slot : Slot, acked : BOOLEAN, missed : BOOLEAN]

live    == DOMAIN book
tracked == DOMAIN openOrders

TypeOK ==
    /\ adapter \in Adapters
    /\ live \subseteq Order
    /\ book \in [live -> BookEntry]
    /\ tracked \subseteq Order \cup {NoId}
    /\ openOrders \in [tracked -> Slot]
    /\ pc \in {"idle", "cancel", "place"}
    /\ op \in {"Reconcile", "CancelAll"}
    /\ todo \in SUBSET tracked
    /\ failed \in BOOLEAN
    /\ want \in {2 * n : n \in 0 .. MaxLayers}
    /\ next \in 1 .. want + 1
    /\ result \in {"none", "ok", "error"}

Init ==
    /\ adapter \in Adapters
    /\ book = << >>
    /\ openOrders = << >>
    /\ pc = "idle"
    /\ op = "Reconcile"
    /\ todo = {}
    /\ failed = FALSE
    /\ want = 0
    /\ next = 1
    /\ result = "none"
------------------------------------------------------------------------------
\* Function f with k mapped to v: an assignment to a Go map.
Put(f, k, v) == [x \in DOMAIN f \cup {k} |-> IF x = k THEN v ELSE f[x]]

\* An id the exchange may give to a new order: ids are unique, so it is none
\* that is in use anywhere (one that is forgotten everywhere may come again).
FreshId == Order \ (live \cup tracked)

Return(res) == /\ pc' = "idle"
               /\ result' = res
               /\ next' = 1
               /\ failed' = FALSE

\* (The new map is made before the orders of the old one are cancelled.)
WrongStart(method, n) ==
    /\ pc = "idle"
    /\ pc' = "cancel"
    /\ op' = method
    /\ want' = 2 * n
    /\ todo' = tracked
    /\ openOrders' = IF method = "Reconcile" THEN << >> ELSE openOrders
    /\ result' = "none"
    /\ UNCHANGED <<adapter, book, failed, next>>

\* The worker calls Reconcile with n layers, or CancelAll; both start cancelAll
\* on the ids that are tracked now.
Start(method, n) ==
    /\ pc = "idle"
    /\ pc' = "cancel"
    /\ op' = method
    /\ want' = 2 * n
    /\ todo' = tracked
    /\ result' = "none"
    /\ UNCHANGED <<adapter, book, openOrders, failed, next>>

StartReconcile == \E n \in 0 .. MaxLayers : Start("Reconcile", n)
StartCancelAll == Start("CancelAll", 0)

\* (The error of the last cancellation is returned, not that of the first that
\* failed.)
WrongCancelOrder(id, done, r) ==
    /\ pc = "cancel"
    /\ id \in todo
    /\ done => id \in live \/ CancelsUnknown(adapter)
    /\ r \in Replies(adapter, done)
    /\ book' = IF done THEN Restrict(book, live \ {id}) ELSE book
    /\ todo' = todo \ {id}
    /\ failed' = CancelFails(adapter, r)
    /\ UNCHANGED <<adapter, openOrders, pc, op, want, next, result>>

\* cancelAll cancels the next order (the map is ranged over in any order); it
\* goes on after an error, and remembers it.
CancelOrder(id, done, r) ==
    /\ pc = "cancel"
    /\ id \in todo
    /\ done => id \in live \/ CancelsUnknown(adapter)
    /\ r \in Replies(adapter, done)
    /\ book' = IF done THEN Restrict(book, live \ {id})
               ELSE [o \in live |->
                        [book[o] EXCEPT !.missed = @ \/ (o = id /\ ~CancelFails(adapter, r))]]
    /\ todo' = todo \ {id}
    /\ failed' = (failed \/ CancelFails(adapter, r))
    /\ UNCHANGED <<adapter, openOrders, pc, op, want, next, result>>

\* (Reconcile does not look at the error of cancelAll.)
WrongCancelAllReturn ==
    /\ pc = "cancel"
    /\ todo = {}
    /\ \/ /\ op = "CancelAll"
          /\ Return(IF failed THEN "error" ELSE "ok")
          /\ UNCHANGED openOrders
       \/ /\ op = "Reconcile"
          /\ openOrders' = << >>
          /\ pc' = "place"
          /\ UNCHANGED <<result, failed, next>>
    /\ UNCHANGED <<adapter, book, op, todo, want>>

\* cancelAll returns: CancelAll returns its error and leaves openOrders as it
\* is; Reconcile returns the error, or forgets all orders and goes on to place.
CancelAllReturn ==
    /\ pc = "cancel"
    /\ todo = {}
    /\ \/ /\ op = "CancelAll"
          /\ Return(IF failed THEN "error" ELSE "ok")
          /\ UNCHANGED openOrders
       \/ /\ op = "Reconcile" /\ failed
          /\ Return("error")
          /\ UNCHANGED openOrders
       \/ /\ op = "Reconcile" /\ ~failed
          /\ openOrders' = << >>
          /\ pc' = "place"
          /\ UNCHANGED <<result, failed, next>>
    /\ UNCHANGED <<adapter, book, op, todo, want>>

\* (A layer that cannot be placed is skipped.)
WrongPlaceOrder(o, done, r) ==
    /\ pc = "place"
    /\ next <= want
    /\ done => o \in FreshId /\ SendsOrder(adapter)
    /\ r \in Replies(adapter, done)
    /\ book' = IF done THEN Put(book, o, [slot |-> next, acked |-> r[2] = "result",
                                          missed |-> FALSE])
                       ELSE book
    /\ openOrders' = IF PlaceFails(adapter, r) THEN openOrders
                     ELSE Put(openOrders, IF PlaceWithoutId(adapter, r) THEN NoId ELSE o, next)
    /\ next' = next + 1
    /\ UNCHANGED <<adapter, pc, op, todo, failed, want, result>>

\* Reconcile places the next order.  The exchange puts it on its book under
\* the id o, or does not (done); Reconcile goes by the reply: it stops at an
\* error, and tracks the order under the id in the reply otherwise.
PlaceOrder(o, done, r) ==
    /\ pc = "place"
    /\ next <= want
    /\ done => o \in FreshId /\ SendsOrder(adapter)
    /\ r \in Replies(adapter, done)
    /\ book' = IF done
                  THEN Put(book, o, [slot   |-> next,
                                     acked  |-> r[2] = "result",
                                     missed |-> FALSE])
                  ELSE book
    /\ IF PlaceFails(adapter, r)
          THEN /\ Return("error")
               /\ UNCHANGED openOrders
          ELSE /\ openOrders' =
                     Put(openOrders, IF PlaceWithoutId(adapter, r) THEN NoId ELSE o, next)
               /\ next' = next + 1
               /\ UNCHANGED <<pc, result, failed>>
    /\ UNCHANGED <<adapter, op, todo, want>>

\* Reconcile has placed every order.
ReconcileReturn ==
    /\ pc = "place"
    /\ next > want
    /\ Return("ok")
    /\ UNCHANGED <<adapter, book, openOrders, op, todo, want>>

\* The exchange fills an order.
Fill(o) ==
    /\ o \in live
    /\ book' = Restrict(book, live \ {o})
    /\ UNCHANGED <<adapter, openOrders, pc, op, todo, failed, want, next, result>>
------------------------------------------------------------------------------
Cancel == \E id \in todo, done \in BOOLEAN, r \in Reply : CancelOrder(id, done, r)
Place  == \E o \in Order, done \in BOOLEAN, r \in Reply : PlaceOrder(o, done, r)

\* What the goroutine that is inside a method does.
Proceed == Cancel \/ CancelAllReturn \/ Place \/ ReconcileReturn

Next == \/ StartReconcile
        \/ StartCancelAll
        \/ Proceed
        \/ \E o \in Order : Fill(o)

Spec == Init /\ [][Next]_vars

\* A call to the exchange ends, with an error at the latest when the HTTP client
\* gives up; the worker reconciles again and again.
FairSpec == /\ Spec
            /\ WF_vars(Proceed)
            /\ SF_vars(Start("Reconcile", MaxLayers))
------------------------------------------------------------------------------
(* Properties *)

\* The orders on the book that the exchange has acknowledged.
Acked == {o \in live : book[o].acked}

\* No order is lost: one the exchange acknowledged, and that is still on its
\* book, is tracked, or CancelOrder has returned nil for it; and only the
\* adapters that do not look at the status of the reply return nil wrongly.
NoOrderIsLost ==
    \A o \in Acked : /\ o \in tracked \/ book[o].missed
                     /\ book[o].missed => adapter \in {"bybit", "kraken"}

\* A bot never has two quotes on the same layer and side, except orders whose
\* placement was not acknowledged or whose cancellation was wrongly confirmed
\* (the slots of a round: ImplementsRounds, below, says the same).
OneQuotePerSlot ==
    \A a, b \in Acked :
        /\ ~book[a].missed /\ ~book[b].missed
        /\ book[a].slot = book[b].slot
        => a = b

\* When CancelAll has returned nil, no acknowledged order is left on the book
\* but those whose cancellation was wrongly confirmed (so ImplementsRounds has it).
CancelAllIsComplete ==
    op = "CancelAll" /\ result = "ok" => \A o \in Acked : book[o].missed

\* When Reconcile has returned nil, each order of the plan was placed once and
\* is tracked (if the exchange gave every order an id).
PlacesWholePlan ==
    op = "Reconcile" /\ result = "ok" /\ NoId \notin tracked =>
        /\ Range(openOrders) = 1 .. want
        /\ IsInjective(openOrders)

\* CancelAll "cancels every tracked open order": once it has returned nil, no
\* tracked order is on the exchange's book.
CancelAllCancels == op = "CancelAll" /\ result = "ok" => live \cap tracked = {}

\* The adapter reports no cancellation that did not happen.
StatusRead == adapter \notin {"bybit", "kraken"}

\* With such an adapter, CancelAll does what its comment says: once it has
\* returned nil, no tracked order is on the book, acknowledged or not, whatever
\* was filled, lost or refused on the way.
CancelAllCancelsIfStatusRead == StatusRead => CancelAllCancels

\* The quotes that are the manager's: known by their ids, and not given up for
\* cancelled.
Quotes == {o \in Acked : ~book[o].missed}

\* "Cancels all existing open orders", "places new bid and ask orders for each
\* layer": to its bot the manager is one that quotes in rounds, and never mixes
\* the quotes of two, although plans are left half placed and cancellations
\* half done.
Rounds == INSTANCE QuoteRounds WITH
              trusted <- StatusRead,
              quotes  <- [o \in Quotes |-> book[o].slot],
              astray  <- Acked \ Quotes,
              method  <- op,
              phase   <- pc,
              offered <- next - 1

ImplementsRounds == Rounds!Spec

\* The manager tracks an order that is gone, and the cancelAll in progress, if
\* there is one, has not been told before that it went that it is cancelled.
Wedged(o) ==
    /\ o \in tracked \ live
    /\ pc = "cancel" => o \in todo \/ failed

\* With a venue that refuses to cancel what is gone, and an adapter that says
\* so, one order filled at the wrong moment is tracked for good, and from then
\* on no Reconcile gets as far as placing an order.
FilledOrderWedges ==
    [][StatusRead /\ ~CancelsUnknown(adapter) =>
          \A o \in Order \cup {NoId} :
              Wedged(o) => Wedged(o)' /\ (pc' = "place" => pc = "place")]_vars

\* The exchange does what it is asked, and its answer arrives.
ExchangeServes ==
    /\ Cancel => \/ \E id \in todo : CancelOrder(id, TRUE, <<"ok", "result">>)
                 \/ /\ ~CancelsUnknown(adapter)
                    /\ \E id \in todo \ live : CancelOrder(id, FALSE, Refusal(adapter))
    /\ Place  => \E o \in FreshId : PlaceOrder(o, TRUE, <<"ok", "result">>)

\* A manager whose exchange serves it from some time on quotes again and again.
QuotesAgain ==
    <>[][ExchangeServes]_vars
        => []<>(op = "Reconcile" /\ want > 0 /\ result = "ok")

\* With an adapter whose CancelOrder is idempotent the manager quotes again.
QuotesAgainIfIdempotent == adapter = "mock" => QuotesAgain
==============================================================================
