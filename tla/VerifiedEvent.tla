--------------------------- MODULE VerifiedEvent ---------------------------
(***************************************************************************)
(* The value a verifier returns (src/event.rs), the providers              *)
(* (src/provider.rs) and the error type both verifiers share               *)
(* (src/error.rs).  A webhook body is what serde_json sees of it: whether  *)
(* it is JSON, and what its top-level members id, type and event_type are. *)
(* Everything else it holds is the opaque field rest, so that two bodies   *)
(* may name the same event and still differ.                               *)
(***************************************************************************)
EXTENDS Naturals

CONSTANTS Text,       \* the strings an event id or an event type may be
          Absent,     \* a member the top-level object does not have
          NotString,  \* a member that is there and is not a string
          Rest        \* what a body holds besides the three members

ASSUME TextAssumption == Absent \notin Text /\ NotString \notin Text /\ Absent # NotString

Provider == {"stripe", "paypal"}

Member == Text \union {Absent, NotString}

\* A payload: bytes that do not parse as JSON have no members at all.
Body == {b \in [json : BOOLEAN, id : Member, type : Member, event_type : Member, rest : Rest] :
           b.json \/ (b.id = Absent /\ b.type = Absent /\ b.event_type = Absent)}

Event == [provider : Provider, id : Text, event_type : Text, payload : Body]

VerifyError(I64, U64) ==
  [kind : {"MissingSignature", "MalformedSignature", "SignatureMismatch",
           "InvalidInput", "MalformedEvent"}]
    \union [kind : {"TimestampOutOfTolerance"}, skew_secs : I64, tolerance_secs : U64]

Ok(event)     == [ok |-> TRUE, event |-> event]
Err(error)    == [ok |-> FALSE, error |-> error]
Rejected(kind) == Err([kind |-> kind])

\* The member the type is read from: event_type is looked at only when the
\* object has no member type, whatever the value of type is.
TypeMember(payload) ==
  IF payload.type # Absent THEN payload.type ELSE payload.event_type

HasIdentity(payload) ==
  payload.json /\ payload.id \in Text /\ TypeMember(payload) \in Text

\* Mutant of from_body: the id is not looked at.
from_body_any_id(provider, payload) ==
  IF payload.json /\ TypeMember(payload) \in Text
  THEN Ok([provider |-> provider, id |-> payload.id,
           event_type |-> TypeMember(payload), payload |-> payload])
  ELSE Rejected("MalformedEvent")

from_body(provider, payload) ==
  IF HasIdentity(payload)
  THEN Ok([provider |-> provider, id |-> payload.id,
           event_type |-> TypeMember(payload), payload |-> payload])
  ELSE Rejected("MalformedEvent")
=============================================================================
