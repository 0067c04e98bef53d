-------------------------- MODULE ExchangeAdapters ---------------------------
(***************************************************************************)
(* How the exchange adapters (pkg/exchange) read the answer to a request:  *)
(* a reply is its HTTP status and the kind of its body, and each adapter   *)
(* looks at some of it.  Pure operators; what a venue does with a request  *)
(* is external.                                                            *)
(***************************************************************************)

Adapter == {"mexc", "gate", "bybit", "kraken", "mock"}

Status == {"ok", "bad"}

\* "result": what the venue answers when it did what it was asked (with the new
\* order's id, for a placement); "error": its own error document; "bare": JSON
\* with none of the expected fields; "junk": no JSON, or JSON cut short.
Body == {"result", "error", "bare", "junk"}

NoReply == <<"bad", "none">>   \* the HTTP client returned an error
Reply   == (Status \X Body) \cup {NoReply}

\* PlaceLimitOrder returns an error.  mexc and gate look at the status and
\* whether the body parses; bybit and kraken look at the body alone, at the error
\* fields in it (retCode, the error list), and kraken insists on an order id.
mexcPlaceFails(r)   == r = NoReply \/ r[1] = "bad" \/ r[2] = "junk"
gatePlaceFails(r)   == r = NoReply \/ r[1] = "bad" \/ r[2] = "junk"
bybitPlaceFails(r)  == r = NoReply \/ r[2] \in {"junk", "error"}
krakenPlaceFails(r) == r = NoReply \/ r[2] \in {"junk", "error", "bare"}
mockPlaceFails(r)   == r[2] = "error"

PlaceFails(a, r) == \/ a = "mexc"   /\ mexcPlaceFails(r)
                    \/ a = "gate"   /\ gatePlaceFails(r)
                    \/ a = "bybit"  /\ bybitPlaceFails(r)
                    \/ a = "kraken" /\ krakenPlaceFails(r)
                    \/ a = "mock"   /\ mockPlaceFails(r)

\* PlaceLimitOrder returns no error, but an empty order id.
PlaceWithoutId(a, r) == ~PlaceFails(a, r) /\ r[2] # "result"

\* (No part of the specification: an error page of the gateway is a success.)
WrongMexcCancelFails(r) == r = NoReply

\* CancelOrder returns an error.  mexc and gate look at the status only; bybit
\* and kraken at the error fields only, which are empty if nothing parsed.
mexcCancelFails(r)   == r = NoReply \/ r[1] = "bad"
gateCancelFails(r)   == r = NoReply \/ r[1] = "bad"
bybitCancelFails(r)  == r = NoReply \/ r[2] = "error"
krakenCancelFails(r) == r = NoReply \/ r[2] = "error"
mockCancelFails(r)   == r[2] = "error"

CancelFails(a, r) == \/ a = "mexc"   /\ mexcCancelFails(r)
                     \/ a = "gate"   /\ gateCancelFails(r)
                     \/ a = "bybit"  /\ bybitCancelFails(r)
                     \/ a = "kraken" /\ krakenCancelFails(r)
                     \/ a = "mock"   /\ mockCancelFails(r)

\* gate signs the order as the request's body but sends no body: the venue is
\* never told what to place.
SendsOrder(a) == a # "gate"
------------------------------------------------------------------------------
(* The venues, as far as the adapters can tell. *)

\* bybit and kraken report a refusal in a reply with a good status.
Refusal(a) == IF a \in {"bybit", "kraken"} THEN <<"ok", "error">>
                                           ELSE <<"bad", "error">>

\* What may come back from a venue that did what it was asked, and from one
\* that did not: its answer, an answer cut short, a gateway's error page, of HTML
\* or of JSON (the gateway gave up on a request that may or may not have been
\* carried out), or nothing.  The mock adapter does the order's work itself.
Replies(a, done) ==
    IF a = "mock" THEN IF done THEN {<<"ok", "result">>} ELSE {Refusal(a)}
    ELSE {NoReply, <<"bad", "junk">>, <<"bad", "bare">>}
         \cup IF done THEN {<<"ok", "result">>, <<"ok", "bare">>, <<"ok", "junk">>}
                      ELSE {Refusal(a), <<Refusal(a)[1], "junk">>}

\* (No part of the specification: a mock that is not idempotent either.)
WrongCancelsUnknown(a) == a \notin Adapter

\* Only the mock adapter takes the cancellation of an order that is not (or no
\* longer) on the book for a success; a venue refuses it.
CancelsUnknown(a) == a = "mock"
==============================================================================
