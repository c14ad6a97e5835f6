-------------------------- MODULE MC_StripeVerify --------------------------
(***************************************************************************)
(* Calls of stripe::verify for TLC.  HeaderRequests: every header of at    *)
(* most MaxParts parts over every kind of part the loop tells apart, with  *)
(* two timestamps.  WindowRequests: one well-formed header and every clock, *)
(* timestamp and tolerance of a small integer width.                       *)
(***************************************************************************)
EXTENDS StripeVerify

CONSTANTS MaxParts, s1, s2, eventId, eventType, r1

Good == [json |-> TRUE, id |-> eventId, type |-> eventType, event_type |-> Absent, rest |-> r1]

\* Bodies by what from_body tells apart: no JSON, no id, a type that is no
\* string next to an event_type that is one, only an event_type.
NotJson     == [json |-> FALSE, id |-> Absent, type |-> Absent, event_type |-> Absent, rest |-> r1]
WithoutId   == [Good EXCEPT !.id = Absent]
NumericId   == [Good EXCEPT !.id = NotString]
NumericType == [Good EXCEPT !.type = NotString, !.event_type = eventType]
PaypalType  == [Good EXCEPT !.type = Absent, !.event_type = eventType]
Typeless    == [Good EXCEPT !.type = Absent]
Bodies == {Good, NotJson, WithoutId, NumericId, NumericType, PaypalType, Typeless}

Sequences(S, n) == UNION {[1 .. k -> S] : k \in 0 .. n}

T(value)  == [key |-> "t", value |-> value]
V1(value) == [key |-> "v1", value |-> value]

OnePart(key) == [key |-> key, value |-> NoValue]

Parts ==
  {T(ToText(0)), T([number |-> 0, canonical |-> FALSE]), T(ToText(1)), T(Unparsable)}
    \union {V1(NotDigest), V1(Hmac(s1, ToText(0), Good)), V1(Hmac(s2, ToText(0), Good)),
            V1(Hmac(s1, [number |-> 0, canonical |-> FALSE], Good))}
    \union {OnePart("other"), OnePart("no_equals")}

HeaderRequests ==
  [secret : {s1, EmptySecret}, header : Sequences(Parts, MaxParts), body : {Good, Typeless},
   now : {0, 1}, tolerance : {0}]

Signature(secret, n, body) == <<T(ToText(n)), V1(Hmac(secret, ToText(n), body))>>

BodyRequests ==
  {[secret |-> secret, header |-> Signature(s1, n, body), body |-> body, now |-> 0, tolerance |-> 0] :
     secret \in {s1, s2, EmptySecret}, n \in {0, 1}, body \in Bodies}

WindowRequests ==
  {[secret |-> s1, header |-> Signature(s1, n, Good), body |-> Good,
    now |-> now, tolerance |-> tolerance] : n \in I64, now \in I64, tolerance \in U64}

AllRequests == HeaderRequests \union BodyRequests \union WindowRequests
=============================================================================
