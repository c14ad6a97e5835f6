---------------------------- MODULE PaypalVerify ----------------------------
(***************************************************************************)
(* One call of paypal::verify and its caller.  The function reads nothing  *)
(* but its arguments, so the call is one step to its decision.             *)
(***************************************************************************)
EXTENDS PaypalSignature

CONSTANTS Requests,  \* the calls considered
          None       \* the result of a call that has not returned

ASSUME RequestsAssumption == Requests \subseteq Request

VARIABLES rq, result, consumed

vars == <<rq, result, consumed>>

Result == [ok : {TRUE}, event : Event] \union
          [ok : {FALSE}, error : [kind : {"MalformedSignature", "SignatureMismatch",
                                          "InvalidInput", "MalformedEvent"}]]

ASSUME NoneAssumption == None \notin Result

Init ==
  /\ rq \in Requests
  /\ result = None
  /\ consumed = FALSE

verify ==
  /\ result = None
  /\ result' = PaypalVerdict(rq)
  /\ UNCHANGED <<rq, consumed>>

Consume ==
  /\ result # None
  /\ result.ok
  /\ ~consumed
  /\ consumed' = TRUE
  /\ UNCHANGED <<rq, result>>

Next == verify \/ Consume

Spec == Init /\ [][Next]_vars

-----------------------------------------------------------------------------
Accepted == result # None /\ result.ok

\* Types; no timestamp error and no missing header ever leave this verifier.
TypeOK ==
  /\ rq \in Request
  /\ result \in Result \union {None}
  /\ consumed \in BOOLEAN

SeparatorFree(field) == \A j \in DOMAIN field : field[j] # Bar

\* What an accepted transmission proves of where it came from: the key in the
\* certificate at a PayPal URL signed it, for this endpoint's webhook id and a
\* body with this checksum, under this transmission id and time, provided no
\* field holds the separator.
BindsEveryField ==
  Accepted =>
    LET received == ReceivedFields(rq)
        signed == rq.t.signature_b64.signed
    IN /\ rq.t.signature_b64.key = rq.cert_pem
       /\ Crc[signed.raw_body] = Crc[received.raw_body]
       /\ (\A f \in {received, signed} :
             SeparatorFree(f.transmission_id) /\ SeparatorFree(f.transmission_time)
               /\ SeparatorFree(f.webhook_id))
          => /\ signed.transmission_id = received.transmission_id
             /\ signed.transmission_time = received.transmission_time
             /\ signed.webhook_id = received.webhook_id

-----------------------------------------------------------------------------
(* Refinement of the verification boundary; the gates of formal/README.md  *)
(* with the event gate the code has.                                       *)

PaypalGates(r) ==
  LET signature == r.t.signature_b64
      enveloped == /\ signature \notin {NotBase64, NotRsaSignature}
                   /\ r.cert_pem \notin {NotACertificate, NotAnRsaKey}
  IN [gate \in {"configuration", "envelope", "provenance", "signature", "event"} |->
        CASE gate = "configuration" -> eq_ignore_ascii_case(r.t.auth_algo) /\ r.webhook_id # << >>
          [] gate = "envelope"      -> enveloped
          [] gate = "provenance"    -> /\ r.t.cert_url # NotAUrl
                                       /\ r.t.cert_url.scheme = "https"
                                       /\ ~(r.t.cert_url.username \/ r.t.cert_url.password)
                                       /\ \E n \in 2 .. Len(r.t.cert_url.host) :
                                            /\ n = Len(r.t.cert_url.host)
                                            /\ r.t.cert_url.host[n] = "com"
                                            /\ r.t.cert_url.host[n - 1] = "paypal"
          [] gate = "signature"     -> /\ enveloped
                                       /\ signature.key = r.cert_pem
                                       /\ MessageOf(signature.signed) = MessageOf(ReceivedFields(r))
          [] gate = "event"         -> HasIdentity(r.raw_body)]

Boundary(gates) ==
  [phase |-> IF result = None THEN "received"
             ELSE IF consumed THEN "consumed"
             ELSE IF result.ok THEN "verified" ELSE "rejected",
   provider |-> "paypal",
   valid |-> gates,
   outputs |-> IF Accepted THEN 1 ELSE 0,
   consumes |-> IF consumed THEN 1 ELSE 0]

Implemented == INSTANCE ProviderVerification WITH s <- Boundary(PaypalGates(rq))

\* Every call of paypal::verify and its caller is a behaviour of the
\* verification boundary: it accepts exactly when all five gates hold.
ImplementsBoundary == Implemented!SpecAnyGates
=============================================================================
