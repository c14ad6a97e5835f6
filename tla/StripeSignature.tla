-------------------------- MODULE StripeSignature --------------------------
(***************************************************************************)
(* The data of stripe::verify (src/stripe.rs) and the decision it is meant *)
(* to reach, stated over the whole Stripe-Signature header at once.        *)
(*                                                                         *)
(* HMAC-SHA256 is symbolic: a digest is the record of the secret, the      *)
(* rendered timestamp and the body it was computed from, so two digests    *)
(* are equal exactly when their inputs are.  A timestamp keeps apart its   *)
(* number and whether its text is the canonical one, because the verifier  *)
(* parses the text and signs to_string() of the number.                    *)
(***************************************************************************)
EXTENDS VerifiedEvent, Integers, Sequences

CONSTANTS I64Max,       \* i64::MAX
          Secret,       \* endpoint signing secrets
          EmptySecret,  \* the secret that is the empty string
          Unparsable,   \* the text of a t part that is no i64
          NotDigest,    \* a v1 value that is not the hex of 32 bytes, or of no digest at hand
          NoValue       \* the value of a part whose value is never read

ASSUME I64Assumption == I64Max \in Nat
ASSUME SecretAssumption == EmptySecret \notin Secret

I64Min == -I64Max - 1
I64    == I64Min .. I64Max
U64    == 0 .. (2 * I64Max + 1)

TimeText == [number : I64, canonical : BOOLEAN]

ASSUME UnparsableAssumption == Unparsable \notin TimeText

ToText(n) == [number |-> n, canonical |-> TRUE]

Hmac(secret, text, body) == [secret |-> secret, text |-> text, body |-> body]

Candidate == [secret : Secret, text : TimeText, body : Body] \union {NotDigest}

ASSUME NotDigestAssumption == NotDigest \notin [secret : Secret, text : TimeText, body : Body]

\* One comma-separated part of the header: key=value, or a text without "=".
\* A blank header is the empty sequence.
Part == [key : {"t"}, value : TimeText \union {Unparsable}]
          \union [key : {"v1"}, value : Candidate]
          \union [key : {"other", "no_equals"}, value : {NoValue}]

Request == [secret : Secret \union {EmptySecret}, header : Seq(Part), body : Body,
            now : I64, tolerance : U64]

Result == [ok : {TRUE}, event : Event] \union [ok : {FALSE}, error : VerifyError(I64, U64)]

\* The widened difference: i128 holds every difference of two i64.
Skew(now, timestamp) == now - timestamp

Abs(x) == IF x < 0 THEN -x ELSE x

\* Mutant of OutOfTolerance: the difference is taken in i64 and wraps.
OutOfTolerance_wrapping(skew, tolerance) ==
  LET width == 2 * I64Max + 2
  IN Abs(((skew - I64Min) % width) + I64Min) > tolerance

OutOfTolerance(skew, tolerance) == Abs(skew) > tolerance

\* Mutants of LoggedSkew: the conversion is not checked; the saturation forgets
\* the sign.
LoggedSkew_unsaturated(skew) == skew

LoggedSkew_unsigned(skew) == IF skew \in I64 THEN skew ELSE I64Max

LoggedSkew(skew) ==
  IF skew \in I64 THEN skew ELSE IF skew < 0 THEN I64Min ELSE I64Max

-----------------------------------------------------------------------------
(* The decision, over the header as a whole.                               *)

TimeParts(header) == {j \in DOMAIN header : header[j].key = "t"}

WellFormed(header) ==
  /\ \A j \in DOMAIN header : header[j].key # "no_equals"
  /\ \E j \in TimeParts(header) : TimeParts(header) = {j} /\ header[j].value # Unparsable
  /\ \E j \in DOMAIN header : header[j].key = "v1"

HeaderTime(header) ==
  CHOOSE n \in I64 : \E j \in TimeParts(header) : header[j].value.number = n

\* Mutant of Signed: only the first v1 value is compared.
Signed_first(header, secret, timestamp, body) ==
  \E j \in DOMAIN header :
    /\ header[j] = [key |-> "v1", value |-> Hmac(secret, ToText(timestamp), body)]
    /\ \A k \in 1 .. (j - 1) : header[k].key # "v1"

Signed(header, secret, timestamp, body) ==
  \E j \in DOMAIN header : header[j].key = "v1"
                           /\ header[j].value = Hmac(secret, ToText(timestamp), body)

InWindow(now, timestamp, tolerance) ==
  now >= timestamp - tolerance /\ now <= timestamp + tolerance

TimestampError(now, timestamp, tolerance) ==
  [kind |-> "TimestampOutOfTolerance",
   skew_secs |-> LoggedSkew(now - timestamp), tolerance_secs |-> tolerance]

\* Mutant of StripeVerdict: no replay window.
StripeVerdict_unchecked_age(rq) ==
  IF rq.secret # EmptySecret /\ WellFormed(rq.header)
     /\ Signed(rq.header, rq.secret, HeaderTime(rq.header), rq.body)
  THEN from_body("stripe", rq.body) ELSE Rejected("SignatureMismatch")

\* Mutant of StripeVerdict: any digest of the body is taken for a signature.
StripeVerdict_any_secret(rq) ==
  IF \E j \in DOMAIN rq.header : rq.header[j].key = "v1"
  THEN from_body("stripe", rq.body) ELSE Rejected("SignatureMismatch")

StripeVerdict(rq) ==
  LET timestamp == HeaderTime(rq.header)
  IN IF rq.secret = EmptySecret THEN Rejected("InvalidInput")
     ELSE IF rq.header = << >> THEN Rejected("MissingSignature")
     ELSE IF ~WellFormed(rq.header) THEN Rejected("MalformedSignature")
     ELSE IF ~InWindow(rq.now, timestamp, rq.tolerance)
          THEN Err(TimestampError(rq.now, timestamp, rq.tolerance))
     ELSE IF ~Signed(rq.header, rq.secret, timestamp, rq.body)
          THEN Rejected("SignatureMismatch")
     ELSE from_body("stripe", rq.body)
=============================================================================
