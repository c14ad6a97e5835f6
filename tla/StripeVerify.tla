---------------------------- MODULE StripeVerify ----------------------------
(***************************************************************************)
(* One call of stripe::verify, a step at a time: the early returns in the  *)
(* order the code takes them, the loop of parse_signature_header over the  *)
(* parts of the header, the tolerance check, the HMAC check and the        *)
(* extraction of the event; then the caller, which may consume an accepted *)
(* event once.                                                             *)
(***************************************************************************)
EXTENDS StripeSignature

CONSTANTS Requests,  \* the calls considered
          None       \* Option::None; also the result of a call that is running

ASSUME RequestsAssumption == Requests \subseteq Request
ASSUME NoneAssumption == None \notin I64

VARIABLES rq,         \* the arguments of the call
          pc,         \* the statement it is at
          i,          \* the part the loop reads next
          timestamp,  \* Option<i64>
          v1,         \* the v1 values pushed so far; only membership is ever asked
          result,     \* what it returned, None while it runs
          consumed    \* whether the caller consumed the returned event

vars == <<rq, pc, i, timestamp, v1, result, consumed>>

Init ==
  /\ rq \in Requests
  /\ pc = "secret"
  /\ i = 1
  /\ timestamp = None
  /\ v1 = {}
  /\ result = None
  /\ consumed = FALSE

Return(value) ==
  /\ pc' = "done"
  /\ result' = value
  /\ UNCHANGED <<rq, i, timestamp, v1, consumed>>

Goto(label) ==
  /\ pc' = label
  /\ UNCHANGED <<rq, i, timestamp, v1, result, consumed>>

CheckSecret ==
  /\ pc = "secret"
  /\ IF rq.secret = EmptySecret THEN Return(Rejected("InvalidInput")) ELSE Goto("blank")

CheckBlank ==
  /\ pc = "blank"
  /\ IF rq.header = << >> THEN Return(Rejected("MissingSignature")) ELSE Goto("parts")

AtPart(key) == pc = "parts" /\ i <= Len(rq.header) /\ rq.header[i].key = key

NextPart == i' = i + 1 /\ UNCHANGED <<rq, pc, result, consumed>>

PartWithoutEquals == AtPart("no_equals") /\ Return(Rejected("MalformedSignature"))

\* Mutant: a second t part replaces the first.
TimestampPart_last_wins ==
  /\ AtPart("t")
  /\ IF rq.header[i].value = Unparsable
     THEN Return(Rejected("MalformedSignature"))
     ELSE timestamp' = rq.header[i].value.number /\ NextPart /\ UNCHANGED v1

TimestampPart ==
  /\ AtPart("t")
  /\ IF timestamp # None \/ rq.header[i].value = Unparsable
     THEN Return(Rejected("MalformedSignature"))
     ELSE timestamp' = rq.header[i].value.number /\ NextPart /\ UNCHANGED v1

\* Mutant: only the last v1 value is kept.
V1Part_last_wins ==
  /\ AtPart("v1")
  /\ v1' = {rq.header[i].value}
  /\ NextPart
  /\ UNCHANGED timestamp

V1Part ==
  /\ AtPart("v1")
  /\ v1' = v1 \union {rq.header[i].value}
  /\ NextPart
  /\ UNCHANGED timestamp

\* Mutant: the loop does not advance past a scheme it ignores.
OtherPart_stuck == AtPart("other") /\ UNCHANGED vars

OtherPart == AtPart("other") /\ NextPart /\ UNCHANGED <<timestamp, v1>>

EndOfHeader ==
  /\ pc = "parts"
  /\ i > Len(rq.header)
  /\ IF timestamp = None \/ v1 = {}
     THEN Return(Rejected("MalformedSignature")) ELSE Goto("tolerance")

CheckTolerance ==
  /\ pc = "tolerance"
  /\ LET skew == Skew(rq.now, timestamp)
     IN IF OutOfTolerance(skew, rq.tolerance)
        THEN Return(Err([kind |-> "TimestampOutOfTolerance",
                         skew_secs |-> LoggedSkew(skew), tolerance_secs |-> rq.tolerance]))
        ELSE Goto("signature")

CheckSignature ==
  /\ pc = "signature"
  /\ IF Hmac(rq.secret, ToText(timestamp), rq.body) \in v1
     THEN Goto("extract") ELSE Return(Rejected("SignatureMismatch"))

ExtractEvent == pc = "extract" /\ Return(from_body("stripe", rq.body))

verify == \/ CheckSecret \/ CheckBlank
          \/ PartWithoutEquals \/ TimestampPart \/ V1Part \/ OtherPart \/ EndOfHeader
          \/ CheckTolerance \/ CheckSignature \/ ExtractEvent

Consume ==
  /\ pc = "done"
  /\ result.ok
  /\ ~consumed
  /\ consumed' = TRUE
  /\ UNCHANGED <<rq, pc, i, timestamp, v1, result>>

Next == verify \/ Consume

\* The call runs on the caller's thread and never waits: it is always resumed.
\* The caller owes nothing.
Spec == Init /\ [][Next]_vars /\ WF_vars(verify)

-----------------------------------------------------------------------------
\* Types; in particular the logged skew is an i64 again and only a finished
\* call has a result.
TypeOK ==
  /\ rq \in Requests
  /\ pc \in {"secret", "blank", "parts", "tolerance", "signature", "extract", "done"}
  /\ i \in 1 .. (Len(rq.header) + 1)
  /\ timestamp \in I64 \union {None}
  /\ v1 \subseteq Candidate
  /\ IF pc = "done" THEN result \in Result ELSE result = None
  /\ consumed \in BOOLEAN

Decided == pc = "done"

\* The call returns the decision stated over the header as a whole: the loop,
\* the Option and the Vec, and the early returns add up to StripeVerdict.
VerdictCorrect == Decided => result = StripeVerdict(rq)

\* What the log shows of a rejected timestamp keeps its direction and is exact
\* whenever an i64 can hold it ("Saturation preserves direction for logging").
LoggedSkewFaithful ==
  (Decided /\ ~result.ok /\ result.error.kind = "TimestampOutOfTolerance") =>
    LET skew == rq.now - HeaderTime(rq.header)
        logged == result.error.skew_secs
    IN /\ (skew < 0) = (logged < 0)
       /\ skew \in I64 => logged = skew
       /\ Abs(logged) <= Abs(skew)

\* Every call returns, whatever header it is given.
Terminates == <>Decided

-----------------------------------------------------------------------------
(* Refinement of the verification boundary.  The gates are those of        *)
(* formal/README.md, with the event gate the code has; a gate that depends *)
(* on a malformed header's timestamp is failed.                            *)

StripeGates(r) ==
  LET enveloped == WellFormed(r.header)
      time == HeaderTime(r.header)
  IN [gate \in {"configuration", "envelope", "provenance", "signature", "event"} |->
        CASE gate = "configuration" -> r.secret # EmptySecret
          [] gate = "envelope"      -> enveloped
          [] gate = "provenance"    -> enveloped /\ InWindow(r.now, time, r.tolerance)
          [] gate = "signature"     -> enveloped /\ Signed(r.header, r.secret, time, r.body)
          [] gate = "event"         -> HasIdentity(r.body)]

\* The event gate of formal/README.md for Stripe: string id and type.
DocumentedGates(r) ==
  [StripeGates(r) EXCEPT !["event"] = r.body.id \in Text /\ r.body.type \in Text]

Boundary(gates) ==
  [phase |-> IF ~Decided THEN "received"
             ELSE IF consumed THEN "consumed"
             ELSE IF result.ok THEN "verified" ELSE "rejected",
   provider |-> "stripe",
   valid |-> gates,
   outputs |-> IF Decided /\ result.ok THEN 1 ELSE 0,
   consumes |-> IF consumed THEN 1 ELSE 0]

Implemented == INSTANCE ProviderVerification WITH s <- Boundary(StripeGates(rq))
Documented  == INSTANCE ProviderVerification WITH s <- Boundary(DocumentedGates(rq))

\* Every call of stripe::verify and its caller is a behaviour of the
\* verification boundary: it accepts exactly when all five gates hold.
ImplementsBoundary == Implemented!SpecAnyGates

\* formal/README.md:19 gives Stripe's event gate as "string id and type".
ImplementsDocumentedBoundary == Documented!SpecAnyGates
=============================================================================
