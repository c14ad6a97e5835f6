-------------------------- MODULE PaypalSignature --------------------------
(***************************************************************************)
(* The data of paypal::verify (src/paypal.rs) and its decision.            *)
(*                                                                         *)
(* The signed message is a sequence: the header fields and the webhook id  *)
(* are sequences of tokens, one of which may be the separator "|", and     *)
(* CRC32 is any function of the body to checksums, so two bodies may share *)
(* one.  An RSA signature records the key that made it and the fields it   *)
(* was made for; it verifies under that key for every message equal to     *)
(* theirs.  A certificate is the key it holds; a URL is what the url crate *)
(* parses it to, its host the sequence of its labels in lower case.        *)
(***************************************************************************)
EXTENDS VerifiedEvent, Integers, Sequences

CONSTANTS Token,      \* the tokens fields are made of, the separator aside
          Bar,        \* the separator
          Checksum,   \* CRC32 values, as rendered in decimal
          Crc,        \* crc32fast::hash
          Key,        \* RSA key pairs
          NotBase64, NotRsaSignature,      \* signature texts that do not decode
          NotACertificate, NotAnRsaKey,    \* certificates without a usable key
          NotAUrl, Label                   \* url texts that do not parse; host labels

ASSUME BarAssumption == Bar \notin Token /\ Bar \notin Checksum
ASSUME CrcAssumption == Crc \in [Body -> Checksum]

Field == Seq(Token \union {Bar})

Fields == [transmission_id : Field, transmission_time : Field, webhook_id : Field, raw_body : Body]

Url == [scheme : {"https", "http"}, username : BOOLEAN, password : BOOLEAN, host : Seq(Label)]

AuthAlgo == {"SHA256withRSA", "sha256withrsa", "SHA1withRSA"}

RsaSignature == [key : Key, signed : Fields]

Transmission == [transmission_id : Field, transmission_time : Field,
                 signature_b64 : RsaSignature \union {NotBase64, NotRsaSignature},
                 cert_url : Url \union {NotAUrl}, auth_algo : AuthAlgo]

Request == [t : Transmission, webhook_id : Field, raw_body : Body,
            cert_pem : Key \union {NotACertificate, NotAnRsaKey}]

ASSUME ShapeAssumption ==
  /\ {NotBase64, NotRsaSignature} \cap RsaSignature = {}
  /\ NotAUrl \notin Url
  /\ {NotACertificate, NotAnRsaKey} \cap Key = {}

\* Mutant of signed_message: the time is not part of it.
signed_message_timeless(transmission_id, transmission_time, webhook_id, raw_body) ==
  transmission_id \o <<Bar>> \o webhook_id \o <<Bar, Crc[raw_body]>>

signed_message(transmission_id, transmission_time, webhook_id, raw_body) ==
  transmission_id \o <<Bar>> \o transmission_time \o <<Bar>>
    \o webhook_id \o <<Bar>> \o <<Crc[raw_body]>>

MessageOf(f) == signed_message(f.transmission_id, f.transmission_time, f.webhook_id, f.raw_body)

\* Mutant of cert_url_is_paypal: any host below com will do.
cert_url_is_paypal_com_suffix(url) ==
  /\ url # NotAUrl
  /\ url.scheme = "https" /\ ~url.username /\ ~url.password
  /\ url.host # << >> /\ url.host[Len(url.host)] = "com"

\* host == "paypal.com" or host ends with ".paypal.com".
HostIsPaypal(host) ==
  Len(host) >= 2 /\ SubSeq(host, Len(host) - 1, Len(host)) = <<"paypal", "com">>

cert_url_is_paypal(url) ==
  /\ url # NotAUrl
  /\ url.scheme = "https" /\ ~url.username /\ ~url.password
  /\ HostIsPaypal(url.host)

eq_ignore_ascii_case(algo) == algo \in {"SHA256withRSA", "sha256withrsa"}

\* What the call received in the place of the fields that were signed.
ReceivedFields(rq) ==
  [transmission_id |-> rq.t.transmission_id, transmission_time |-> rq.t.transmission_time,
   webhook_id |-> rq.webhook_id, raw_body |-> rq.raw_body]

RsaVerifies(key, message, signature) ==
  signature.key = key /\ MessageOf(signature.signed) = message

PaypalVerdict(rq) ==
  LET signature == rq.t.signature_b64
  IN IF ~eq_ignore_ascii_case(rq.t.auth_algo) THEN Rejected("InvalidInput")
     ELSE IF ~cert_url_is_paypal(rq.t.cert_url) THEN Rejected("InvalidInput")
     ELSE IF rq.webhook_id = << >> THEN Rejected("InvalidInput")
     ELSE IF signature \in {NotBase64, NotRsaSignature} THEN Rejected("MalformedSignature")
     ELSE IF rq.cert_pem \in {NotACertificate, NotAnRsaKey} THEN Rejected("InvalidInput")
     ELSE IF ~RsaVerifies(rq.cert_pem, MessageOf(ReceivedFields(rq)), signature)
          THEN Rejected("SignatureMismatch")
     ELSE from_body("paypal", rq.raw_body)
=============================================================================
