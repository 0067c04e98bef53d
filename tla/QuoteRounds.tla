---------------------------- MODULE QuoteRounds ------------------------------
(***************************************************************************)
(* What the order manager promises about the quotes of a bot: they come in *)
(* rounds.  A round begins when no quote of an earlier one is left, and    *)
(* quotes the slots of its plan one after the other, each at most once; it *)
(* is a success only if it came to the end of the plan.  A clearance is    *)
(* one only if no quote is left.  Quotes go at any time.  There are no     *)
(* replies here, no retries and no map of orders.  A quote whose exchange  *)
(* is not to be trusted may go astray: it is on the book, and no longer    *)
(* the manager's.  OrderManager.tla is shown to implement this module.     *)
(***************************************************************************)
EXTENDS Naturals, Functions

CONSTANTS Order, MaxLayers   \* as in OrderManager

VARIABLES trusted, \* what the exchange says of a cancellation is so
          quotes,  \* quotes[o]: the slot order o is the quote of
          astray,  \* the quotes that went astray
          method,  \* "Reconcile" or "CancelAll", the last one called
          phase,   \* "idle", "cancel" (old quotes go) or "place" (new ones come)
          want,    \* slots in the plan
          offered, \* slots this round has been through
          result   \* of the last call

vars == <<trusted, quotes, astray, method, phase, want, offered, result>>

Init ==
    /\ trusted \in BOOLEAN
    /\ quotes = << >>
    /\ astray = {}
    /\ method = "Reconcile"
    /\ phase = "idle"
    /\ want = 0
    /\ offered = 0
    /\ result = "none"

Begin(m, n) ==
    /\ phase = "idle"
    /\ phase' = "cancel"
    /\ method' = m
    /\ want' = 2 * n
    /\ result' = "none"
    /\ UNCHANGED <<trusted, quotes, astray, offered>>

\* A quote is filled or cancelled, or believed to be.
Withdraw(o) ==
    /\ o \in DOMAIN quotes
    /\ quotes' = Restrict(quotes, DOMAIN quotes \ {o})
    /\ \/ UNCHANGED astray
       \/ ~trusted /\ phase = "cancel" /\ astray' = astray \cup {o}
    /\ UNCHANGED <<trusted, method, phase, want, offered, result>>

\* So is one that went astray.
LeaveBook(o) ==
    /\ o \in astray
    /\ astray' = astray \ {o}
    /\ UNCHANGED <<trusted, quotes, method, phase, want, offered, result>>

BeginRound ==
    /\ phase = "cancel" /\ method = "Reconcile"
    /\ quotes = << >>
    /\ phase' = "place"
    /\ UNCHANGED <<trusted, quotes, astray, method, want, offered, result>>

\* The next slot is quoted, or is not that anyone would know.
Quote(o) ==
    /\ phase = "place" /\ offered < want
    /\ offered' = offered + 1
    /\ \/ UNCHANGED quotes
       \/ /\ o \notin DOMAIN quotes \cup astray
          /\ quotes' = [p \in DOMAIN quotes \cup {o} |->
                           IF p = o THEN offered + 1 ELSE quotes[p]]
    /\ UNCHANGED <<trusted, astray, method, phase, want, result>>

Succeed ==
    /\ \/ phase = "cancel" /\ method = "CancelAll" /\ quotes = << >>
       \/ phase = "place" /\ offered = want
    /\ phase' = "idle"
    /\ offered' = 0
    /\ result' = "ok"
    /\ UNCHANGED <<trusted, quotes, astray, method, want>>

GiveUp ==
    /\ phase # "idle"
    /\ phase' = "idle"
    /\ offered' = 0
    /\ result' = "error"
    /\ UNCHANGED <<trusted, quotes, astray, method, want>>

Next == \/ \E n \in 0 .. MaxLayers : Begin("Reconcile", n)
        \/ Begin("CancelAll", 0)
        \/ BeginRound \/ Succeed \/ GiveUp
        \/ \E o \in Order : Withdraw(o) \/ LeaveBook(o) \/ Quote(o)

Spec == Init /\ [][Next]_vars
==============================================================================
