-------------------------- MODULE MC_PaypalVerify --------------------------
(***************************************************************************)
(* Calls of paypal::verify for TLC.  GateRequests: every way each argument *)
(* can fail, in every combination.  FieldRequests: a well-formed call with *)
(* every pair of signed and received fields over a few texts, some of them *)
(* holding the separator, and two bodies with one checksum.                *)
(***************************************************************************)
EXTENDS PaypalVerify

CONSTANTS eventId, eventType, r1, r2, a, b, w, crc1, crc2, k1, k2

Good        == [json |-> TRUE, id |-> eventId, type |-> Absent, event_type |-> eventType, rest |-> r1]
SameCrc     == [Good EXCEPT !.rest = r2]
NotJson     == [json |-> FALSE, id |-> Absent, type |-> Absent, event_type |-> Absent, rest |-> r1]
WithoutId   == [Good EXCEPT !.id = Absent]
StripeType  == [Good EXCEPT !.type = eventType, !.event_type = Absent]
NumericType == [Good EXCEPT !.type = NotString]
Typeless    == [Good EXCEPT !.event_type = Absent]
Bodies == {Good, SameCrc, NotJson, WithoutId, StripeType, NumericType, Typeless}

\* Two bodies collide, every other body has the other checksum.
CrcValue == [body \in Body |-> IF body \in {Good, SameCrc} THEN crc1 ELSE crc2]

CertUrl(host) == [scheme |-> "https", username |-> FALSE, password |-> FALSE, host |-> host]
Api == CertUrl(<<"api", "paypal", "com">>)

CertUrls ==
  {Api, CertUrl(<<"paypal", "com">>), CertUrl(<<"com">>), CertUrl(<< >>),
   CertUrl(<<"notpaypal", "com">>), CertUrl(<<"paypal", "com", "example">>), NotAUrl,
   [Api EXCEPT !.scheme = "http"], [Api EXCEPT !.username = TRUE], [Api EXCEPT !.password = TRUE]}

FieldsFor(webhook, body) ==
  [transmission_id |-> <<a>>, transmission_time |-> <<b>>, webhook_id |-> webhook, raw_body |-> body]

Call(algo, url, signature, cert, received) ==
  [t |-> [transmission_id |-> received.transmission_id,
          transmission_time |-> received.transmission_time,
          signature_b64 |-> signature, cert_url |-> url, auth_algo |-> algo],
   webhook_id |-> received.webhook_id, raw_body |-> received.raw_body, cert_pem |-> cert]

GateRequests ==
  UNION {
    {Call(algo, url, signature, cert, FieldsFor(webhook, body)) :
       algo \in AuthAlgo, url \in CertUrls,
       signature \in {NotBase64, NotRsaSignature,
                      [key |-> k1, signed |-> FieldsFor(webhook, body)],
                      [key |-> k1, signed |-> FieldsFor(webhook, WithoutId)]},
       cert \in {k1, k2, NotACertificate, NotAnRsaKey}} :
    webhook \in {<<w>>, << >>}, body \in Bodies}

Texts == {<<a>>, <<b>>, <<a, Bar, b>>, <<b, Bar, b>>}

SomeFields == [transmission_id : Texts, transmission_time : Texts,
               webhook_id : {<<a>>, <<w>>}, raw_body : {Good, SameCrc, StripeType}]

FieldRequests ==
  {Call("SHA256withRSA", Api, [key |-> k1, signed |-> signed], k1, received) :
     signed \in SomeFields, received \in SomeFields}

AllRequests == GateRequests \union FieldRequests
=============================================================================
