------------------------ MODULE StripeVerify_proofs ------------------------
(***************************************************************************)
(* Proofs about stripe::verify for headers of every length, every integer  *)
(* width and every set of texts, secrets and bodies.  The loop of          *)
(* parse_signature_header is carried by LoopInv, which says what the       *)
(* Option and the Vec hold after a prefix of the header.                   *)
(***************************************************************************)
EXTENDS StripeVerify, TLAPS

Read == 1 .. (i - 1)

\* What the loop has established of the parts it has read.
LoopInv ==
  /\ \A j \in Read : rq.header[j].key # "no_equals"
  /\ timestamp = None => \A j \in Read : rq.header[j].key # "t"
  /\ timestamp # None =>
       \E j \in Read : /\ rq.header[j].key = "t"
                       /\ rq.header[j].value # Unparsable
                       /\ rq.header[j].value.number = timestamp
                       /\ \A k \in Read : rq.header[k].key = "t" => k = j
  /\ \A c : c \in v1 <=> \E j \in Read : rq.header[j].key = "v1" /\ rq.header[j].value = c

\* What each early return that was not taken has established.
GateInv ==
  /\ pc \in {"blank", "parts", "tolerance", "signature", "extract"} => rq.secret # EmptySecret
  /\ pc \in {"parts", "tolerance", "signature", "extract"} => rq.header # << >>
  /\ pc \in {"tolerance", "signature", "extract"} =>
       i = Len(rq.header) + 1 /\ timestamp # None /\ v1 # {}
  /\ pc \in {"signature", "extract"} => InWindow(rq.now, timestamp, rq.tolerance)
  /\ pc = "extract" => Hmac(rq.secret, ToText(timestamp), rq.body) \in v1
  /\ pc \in {"secret", "blank"} => i = 1 /\ timestamp = None /\ v1 = {}

\* The caller consumes only what was accepted.
ConsumedInv == consumed => Decided /\ result.ok

IInv == TypeOK /\ (pc # "done" => LoopInv /\ GateInv) /\ VerdictCorrect /\ ConsumedInv

-----------------------------------------------------------------------------
\* The parts of a header, by key.
LEMMA PartFacts ==
  ASSUME NEW h \in Seq(Part), NEW j \in 1 .. Len(h)
  PROVE  /\ h[j].key \in {"t", "v1", "other", "no_equals"}
         /\ h[j].key = "t" /\ h[j].value # Unparsable => h[j].value \in TimeText
         /\ h[j].key = "v1" => h[j].value \in Candidate
<1>1. h[j] \in Part
  OBVIOUS
<1>. QED BY <1>1 DEF Part

\* The arguments of a call.
LEMMA RequestFacts ==
  ASSUME rq \in Requests
  PROVE  /\ rq.header \in Seq(Part)
         /\ Len(rq.header) \in Nat
         /\ rq.now \in Int
         /\ rq.tolerance \in Nat
         /\ rq.body \in Body
         /\ rq.tolerance \in U64
         /\ rq.now \in I64
         /\ rq.secret \in Secret \union {EmptySecret}
<1>1. rq \in Request
  BY RequestsAssumption
<1>2. rq.header \in Seq(Part) /\ rq.now \in I64 /\ rq.tolerance \in U64 /\ rq.body \in Body
      /\ rq.secret \in Secret \union {EmptySecret}
  BY <1>1 DEF Request
<1>. QED BY <1>2, I64Assumption DEF I64, I64Min, U64

\* A header with one readable t part has the timestamp of that part.
LEMMA HeaderTimeIs ==
  ASSUME NEW h \in Seq(Part), NEW j \in DOMAIN h,
         h[j].key = "t", h[j].value # Unparsable,
         \A k \in DOMAIN h : h[k].key = "t" => k = j
  PROVE  HeaderTime(h) = h[j].value.number /\ h[j].value.number \in I64
<1>1. j \in 1 .. Len(h)
  OBVIOUS
<1>2. h[j].value.number \in I64
  BY <1>1, PartFacts DEF TimeText
<1>3. TimeParts(h) = {j}
  BY DEF TimeParts
<1>4. \A n \in I64 : (\E k \in TimeParts(h) : h[k].value.number = n) <=> n = h[j].value.number
  BY <1>3
<1>. QED BY <1>2, <1>4 DEF HeaderTime

\* |now - t| > tolerance says that now is outside the window around t.
LEMMA ToleranceIsWindow ==
  ASSUME NEW n \in Int, NEW t \in Int, NEW tol \in Nat
  PROVE  OutOfTolerance(Skew(n, t), tol) <=> ~InWindow(n, t, tol)
BY DEF OutOfTolerance, Skew, Abs, InWindow

LEMMA LoggedSkewType == \A x \in Int : LoggedSkew(x) \in I64
BY I64Assumption DEF LoggedSkew, I64, I64Min

\* from_body returns a result.
LEMMA FromBodyType ==
  ASSUME NEW b \in Body PROVE from_body("stripe", b) \in Result
<1>1. CASE HasIdentity(b)
  <2>1. b.id \in Text /\ TypeMember(b) \in Text
    BY <1>1 DEF HasIdentity
  <2>. QED BY <1>1, <2>1 DEF from_body, Ok, Result, Event, Provider
<1>2. CASE ~HasIdentity(b)
  BY <1>2 DEF from_body, Rejected, Err, Result, VerifyError
<1>. QED BY <1>1, <1>2

LEMMA RejectedType ==
  \A kind \in {"MissingSignature", "MalformedSignature", "SignatureMismatch",
               "InvalidInput", "MalformedEvent"} : Rejected(kind) \in Result
BY DEF Rejected, Err, Result, VerifyError

-----------------------------------------------------------------------------
\* A header whose every part was read, with a timestamp and a v1 value, is well
\* formed; its time is the timestamp and the v1 values are those of its parts.
LEMMA WholeHeader ==
  ASSUME TypeOK, LoopInv, i = Len(rq.header) + 1, timestamp # None, v1 # {}
  PROVE  /\ WellFormed(rq.header)
         /\ HeaderTime(rq.header) = timestamp
         /\ timestamp \in I64
         /\ \A d : d \in v1 <=> \E j \in DOMAIN rq.header :
                                   rq.header[j].key = "v1" /\ rq.header[j].value = d
<1>0. rq.header \in Seq(Part) /\ Len(rq.header) \in Nat
  BY RequestFacts DEF TypeOK
<1>1. Read = DOMAIN rq.header
  BY <1>0 DEF Read
<1>2. PICK j \in DOMAIN rq.header :
             /\ rq.header[j].key = "t"
             /\ rq.header[j].value # Unparsable
             /\ rq.header[j].value.number = timestamp
             /\ \A k \in DOMAIN rq.header : rq.header[k].key = "t" => k = j
  BY <1>1 DEF LoopInv
<1>3. HeaderTime(rq.header) = timestamp /\ timestamp \in I64
  BY <1>0, <1>2, HeaderTimeIs
<1>4. \A d : d \in v1 <=> \E k \in DOMAIN rq.header :
                             rq.header[k].key = "v1" /\ rq.header[k].value = d
  BY <1>1 DEF LoopInv
<1>5. TimeParts(rq.header) = {j}
  BY <1>2 DEF TimeParts
<1>6. WellFormed(rq.header)
  <2>1. \A k \in DOMAIN rq.header : rq.header[k].key # "no_equals"
    BY <1>1 DEF LoopInv
  <2>2. \E k \in DOMAIN rq.header : rq.header[k].key = "v1"
    BY <1>4
  <2>. QED BY <1>2, <1>5, <2>1, <2>2 DEF WellFormed
<1>. QED BY <1>3, <1>4, <1>6

\* The loop's three ways out with MalformedSignature all mean an ill-formed header.
LEMMA PartIsBad ==
  ASSUME TypeOK, LoopInv, i \in 1 .. Len(rq.header),
         \/ rq.header[i].key = "no_equals"
         \/ rq.header[i].key = "t" /\ (timestamp # None \/ rq.header[i].value = Unparsable)
  PROVE  ~WellFormed(rq.header)
<1>0. rq.header \in Seq(Part) /\ i \in DOMAIN rq.header /\ \A j \in Read : j \in DOMAIN rq.header /\ j # i
  BY RequestFacts DEF TypeOK, Read
<1>1. CASE rq.header[i].key = "no_equals"
  BY <1>0, <1>1 DEF WellFormed
<1>2. CASE rq.header[i].key = "t" /\ timestamp # None
  <2>1. PICK j \in Read : rq.header[j].key = "t"
    BY <1>2 DEF LoopInv
  <2>2. i \in TimeParts(rq.header) /\ j \in TimeParts(rq.header) /\ i # j
    BY <1>0, <1>2, <2>1 DEF TimeParts
  <2>. QED BY <2>2 DEF WellFormed
<1>3. CASE rq.header[i].key = "t" /\ rq.header[i].value = Unparsable
  <2>1. i \in TimeParts(rq.header)
    BY <1>0, <1>3 DEF TimeParts
  <2>. QED BY <1>3, <2>1 DEF WellFormed
<1>. QED BY <1>1, <1>2, <1>3

LEMMA HeaderTooShort ==
  ASSUME TypeOK, LoopInv, i = Len(rq.header) + 1, timestamp = None \/ v1 = {}
  PROVE  ~WellFormed(rq.header)
<1>1. Read = DOMAIN rq.header
  BY RequestFacts DEF TypeOK, Read
<1>2. CASE timestamp = None
  BY <1>1, <1>2 DEF LoopInv, WellFormed, TimeParts
<1>3. CASE v1 = {}
  BY <1>1, <1>3 DEF LoopInv, WellFormed
<1>. QED BY <1>2, <1>3

\* A call that returns keeps the invariant if it returns the verdict.
LEMMA ReturnsVerdict ==
  ASSUME IInv, pc # "done", NEW value \in Result, value = StripeVerdict(rq), Return(value)
  PROVE  IInv'
<1>1. TypeOK'
  BY DEF IInv, TypeOK, Return
<1>2. VerdictCorrect'
  BY DEF VerdictCorrect, Return, Decided
<1>3. ConsumedInv'
  BY DEF IInv, ConsumedInv, Return, Decided
<1>. QED BY <1>1, <1>2, <1>3 DEF IInv, Return

\* A call that goes on keeps the invariant if the gate it passed is recorded.
LEMMA GoesOn ==
  ASSUME IInv, pc # "done",
         NEW label \in {"blank", "parts", "tolerance", "signature", "extract"},
         Goto(label), GateInv'
  PROVE  IInv'
<1>1. TypeOK'
  BY DEF IInv, TypeOK, Goto
<1>2. LoopInv'
  BY DEF IInv, LoopInv, Read, Goto
<1>3. VerdictCorrect'
  BY DEF VerdictCorrect, Goto, Decided
<1>4. ConsumedInv'
  BY DEF IInv, ConsumedInv, Goto, Decided
<1>. QED BY <1>1, <1>2, <1>3, <1>4 DEF IInv

THEOREM InitIInv == Init => IInv
<1>. SUFFICES ASSUME Init PROVE IInv
  OBVIOUS
<1>1. Len(rq.header) \in Nat
  BY RequestFacts DEF Init
<1>2. TypeOK
  <2>1. rq \in Requests /\ pc = "secret" /\ result = None
    BY DEF Init
  <2>2. i \in 1 .. (Len(rq.header) + 1)
    BY <1>1 DEF Init
  <2>3. timestamp \in I64 \union {None} /\ v1 \subseteq Candidate /\ consumed \in BOOLEAN
    BY DEF Init
  <2>. QED BY <2>1, <2>2, <2>3 DEF TypeOK
<1>3. LoopInv
  BY DEF Init, LoopInv, Read
<1>4. GateInv
  BY DEF Init, GateInv
<1>5. VerdictCorrect
  BY DEF Init, VerdictCorrect, Decided
<1>6. ConsumedInv
  BY DEF Init, ConsumedInv
<1>. QED BY <1>2, <1>3, <1>4, <1>5, <1>6 DEF IInv

THEOREM NextIInv == IInv /\ [Next]_vars => IInv'
<1>. SUFFICES ASSUME IInv, [Next]_vars PROVE IInv'
  OBVIOUS
<1>. USE DEF IInv
<1>f. /\ rq.header \in Seq(Part) /\ Len(rq.header) \in Nat
      /\ rq.now \in Int /\ rq.tolerance \in Nat /\ rq.tolerance \in U64 /\ rq.body \in Body
      /\ rq.now \in I64
  BY RequestFacts DEF TypeOK
<1>1. CASE CheckSecret
  <2>. pc = "secret"
    BY <1>1 DEF CheckSecret
  <2>1. CASE rq.secret = EmptySecret
    <3>1. StripeVerdict(rq) = Rejected("InvalidInput")
      BY <2>1 DEF StripeVerdict
    <3>. QED BY <1>1, <2>1, <3>1, ReturnsVerdict, RejectedType DEF CheckSecret
  <2>2. CASE rq.secret # EmptySecret
    <3>1. GateInv'
      BY <1>1, <2>2 DEF CheckSecret, Goto, GateInv
    <3>. QED BY <1>1, <2>2, <3>1, GoesOn DEF CheckSecret
  <2>. QED BY <2>1, <2>2
<1>2. CASE CheckBlank
  <2>. pc = "blank" /\ rq.secret # EmptySecret
    BY <1>2 DEF CheckBlank, GateInv
  <2>1. CASE rq.header = << >>
    <3>1. StripeVerdict(rq) = Rejected("MissingSignature")
      BY <2>1 DEF StripeVerdict
    <3>. QED BY <1>2, <2>1, <3>1, ReturnsVerdict, RejectedType DEF CheckBlank
  <2>2. CASE rq.header # << >>
    <3>1. GateInv'
      BY <1>2, <2>2 DEF CheckBlank, Goto, GateInv
    <3>. QED BY <1>2, <2>2, <3>1, GoesOn DEF CheckBlank
  <2>. QED BY <2>1, <2>2
<1>m. ASSUME pc = "parts", ~WellFormed(rq.header), Return(Rejected("MalformedSignature")) PROVE IInv'
  <2>1. StripeVerdict(rq) = Rejected("MalformedSignature")
    BY <1>m DEF StripeVerdict, GateInv
  <2>. QED BY <1>m, <2>1, ReturnsVerdict, RejectedType
<1>3. CASE PartWithoutEquals
  <2>1. pc = "parts" /\ i \in 1 .. Len(rq.header) /\ rq.header[i].key = "no_equals"
    BY <1>3, <1>f DEF PartWithoutEquals, AtPart, TypeOK
  <2>2. ~WellFormed(rq.header)
    BY <2>1, PartIsBad
  <2>. QED BY <1>3, <1>m, <2>1, <2>2 DEF PartWithoutEquals
\* A part that is read extends Read by its position.
<1>n. ASSUME pc = "parts", i \in 1 .. Len(rq.header), NextPart, v1' \subseteq Candidate,
             timestamp' \in I64 \union {None}, LoopInv'
      PROVE  IInv'
  <2>1. TypeOK'
    BY <1>n, <1>f DEF TypeOK, NextPart
  <2>2. GateInv'
    BY <1>n DEF NextPart, GateInv
  <2>3. VerdictCorrect'
    BY <1>n DEF NextPart, VerdictCorrect, Decided
  <2>4. ConsumedInv'
    BY <1>n DEF NextPart, ConsumedInv, Decided
  <2>. QED BY <1>n, <2>1, <2>2, <2>3, <2>4
<1>r. ASSUME pc = "parts", i \in 1 .. Len(rq.header), NextPart
      PROVE  /\ Read' = Read \union {i} /\ i \notin Read /\ rq' = rq /\ LoopInv
  BY <1>r, <1>f DEF Read, NextPart
<1>4. CASE TimestampPart
  <2>1. pc = "parts" /\ i \in 1 .. Len(rq.header) /\ rq.header[i].key = "t"
    BY <1>4, <1>f DEF TimestampPart, AtPart, TypeOK
  <2>2. CASE timestamp # None \/ rq.header[i].value = Unparsable
    <3>1. ~WellFormed(rq.header)
      BY <2>1, <2>2, PartIsBad
    <3>. QED BY <1>4, <1>m, <2>1, <2>2, <3>1 DEF TimestampPart
  <2>3. CASE ~(timestamp # None \/ rq.header[i].value = Unparsable)
    <3>1. NextPart /\ v1' = v1 /\ timestamp' = rq.header[i].value.number
      BY <1>4, <2>3 DEF TimestampPart
    <3>2. timestamp' \in I64 /\ timestamp' # None
      BY <1>f, <2>1, <2>3, <3>1, PartFacts, NoneAssumption DEF TimeText
    <3>3. LoopInv'
      BY <1>r, <2>1, <2>3, <3>1, <3>2 DEF LoopInv
    <3>. QED BY <1>n, <2>1, <3>1, <3>2, <3>3 DEF TypeOK
  <2>. QED BY <2>2, <2>3
<1>5. CASE V1Part
  <2>1. pc = "parts" /\ i \in 1 .. Len(rq.header) /\ rq.header[i].key = "v1"
    BY <1>5, <1>f DEF V1Part, AtPart, TypeOK
  <2>2. NextPart /\ v1' = v1 \union {rq.header[i].value} /\ timestamp' = timestamp
    BY <1>5 DEF V1Part
  <2>3. rq.header[i].value \in Candidate
    BY <1>f, <2>1, PartFacts
  <2>4. LoopInv'
    BY <1>r, <2>1, <2>2 DEF LoopInv
  <2>. QED BY <1>n, <2>1, <2>2, <2>3, <2>4 DEF TypeOK
<1>6. CASE OtherPart
  <2>1. pc = "parts" /\ i \in 1 .. Len(rq.header) /\ rq.header[i].key = "other"
    BY <1>6, <1>f DEF OtherPart, AtPart, TypeOK
  <2>2. NextPart /\ v1' = v1 /\ timestamp' = timestamp
    BY <1>6 DEF OtherPart
  <2>3. LoopInv'
    BY <1>r, <2>1, <2>2 DEF LoopInv
  <2>. QED BY <1>n, <2>1, <2>2, <2>3 DEF TypeOK
<1>7. CASE EndOfHeader
  <2>1. pc = "parts" /\ i = Len(rq.header) + 1
    BY <1>7, <1>f DEF EndOfHeader, TypeOK
  <2>2. CASE timestamp = None \/ v1 = {}
    <3>1. ~WellFormed(rq.header)
      BY <2>1, <2>2, HeaderTooShort
    <3>. QED BY <1>7, <1>m, <2>1, <2>2, <3>1 DEF EndOfHeader
  <2>3. CASE ~(timestamp = None \/ v1 = {})
    <3>1. Goto("tolerance")
      BY <1>7, <2>3 DEF EndOfHeader
    <3>2. GateInv'
      BY <2>1, <2>3, <3>1 DEF Goto, GateInv
    <3>. QED BY <2>1, <3>1, <3>2, GoesOn
  <2>. QED BY <2>2, <2>3
<1>8. CASE CheckTolerance
  <2>1. pc = "tolerance" /\ i = Len(rq.header) + 1 /\ timestamp # None /\ v1 # {}
        /\ rq.secret # EmptySecret /\ rq.header # << >>
    BY <1>8 DEF CheckTolerance, GateInv
  <2>2. WellFormed(rq.header) /\ HeaderTime(rq.header) = timestamp /\ timestamp \in I64
    BY <2>1, WholeHeader
  <2>3. timestamp \in Int
    BY <2>2, I64Assumption DEF I64, I64Min
  <2>4. CASE OutOfTolerance(Skew(rq.now, timestamp), rq.tolerance)
    <3>. DEFINE value == Err([kind |-> "TimestampOutOfTolerance",
                              skew_secs |-> LoggedSkew(Skew(rq.now, timestamp)),
                              tolerance_secs |-> rq.tolerance])
    <3>1. ~InWindow(rq.now, timestamp, rq.tolerance)
      BY <1>f, <2>3, <2>4, ToleranceIsWindow
    <3>2. value = Err(TimestampError(rq.now, timestamp, rq.tolerance))
      BY DEF TimestampError, Skew
    <3>3. StripeVerdict(rq) = value
      BY <2>1, <2>2, <3>1, <3>2 DEF StripeVerdict
    <3>4. value \in Result
      <4>1. LoggedSkew(Skew(rq.now, timestamp)) \in I64
        BY <1>f, <2>3, LoggedSkewType DEF Skew
      <4>. QED BY <1>f, <4>1 DEF Err, Result, VerifyError
    <3>5. Return(value)
      BY <1>8, <2>4 DEF CheckTolerance
    <3>. HIDE DEF value
    <3>. QED BY <2>1, <3>3, <3>4, <3>5, ReturnsVerdict
  <2>5. CASE ~OutOfTolerance(Skew(rq.now, timestamp), rq.tolerance)
    <3>1. Goto("signature")
      BY <1>8, <2>5 DEF CheckTolerance
    <3>2. InWindow(rq.now, timestamp, rq.tolerance)
      BY <1>f, <2>3, <2>5, ToleranceIsWindow
    <3>3. GateInv'
      BY <2>1, <3>1, <3>2 DEF Goto, GateInv
    <3>. QED BY <2>1, <3>1, <3>3, GoesOn
  <2>. QED BY <2>4, <2>5
<1>9. CASE CheckSignature
  <2>1. pc = "signature" /\ i = Len(rq.header) + 1 /\ timestamp # None /\ v1 # {}
        /\ rq.secret # EmptySecret /\ rq.header # << >>
        /\ InWindow(rq.now, timestamp, rq.tolerance)
    BY <1>9 DEF CheckSignature, GateInv
  <2>2. /\ WellFormed(rq.header) /\ HeaderTime(rq.header) = timestamp
        /\ \A d : d \in v1 <=> \E j \in DOMAIN rq.header :
                                  rq.header[j].key = "v1" /\ rq.header[j].value = d
    BY <2>1, WholeHeader
  <2>3. CASE Hmac(rq.secret, ToText(timestamp), rq.body) \in v1
    <3>1. Goto("extract")
      BY <1>9, <2>3 DEF CheckSignature
    <3>2. GateInv'
      BY <2>1, <2>3, <3>1 DEF Goto, GateInv
    <3>. QED BY <2>1, <3>1, <3>2, GoesOn
  <2>4. CASE Hmac(rq.secret, ToText(timestamp), rq.body) \notin v1
    <3>1. ~Signed(rq.header, rq.secret, timestamp, rq.body)
      BY <2>2, <2>4 DEF Signed
    <3>2. StripeVerdict(rq) = Rejected("SignatureMismatch")
      BY <2>1, <2>2, <3>1 DEF StripeVerdict
    <3>. QED BY <1>9, <2>1, <2>4, <3>2, ReturnsVerdict, RejectedType DEF CheckSignature
  <2>. QED BY <2>3, <2>4
<1>10. CASE ExtractEvent
  <2>1. pc = "extract" /\ i = Len(rq.header) + 1 /\ timestamp # None /\ v1 # {}
        /\ rq.secret # EmptySecret /\ rq.header # << >>
        /\ InWindow(rq.now, timestamp, rq.tolerance)
        /\ Hmac(rq.secret, ToText(timestamp), rq.body) \in v1
    BY <1>10 DEF ExtractEvent, GateInv
  <2>2. /\ WellFormed(rq.header) /\ HeaderTime(rq.header) = timestamp
        /\ \A d : d \in v1 <=> \E j \in DOMAIN rq.header :
                                  rq.header[j].key = "v1" /\ rq.header[j].value = d
    BY <2>1, WholeHeader
  <2>3. Signed(rq.header, rq.secret, timestamp, rq.body)
    BY <2>1, <2>2 DEF Signed
  <2>4. StripeVerdict(rq) = from_body("stripe", rq.body)
    BY <2>1, <2>2, <2>3 DEF StripeVerdict
  <2>5. from_body("stripe", rq.body) \in Result
    BY <1>f, FromBodyType
  <2>. QED BY <1>10, <2>1, <2>4, <2>5, ReturnsVerdict DEF ExtractEvent
<1>11. CASE Consume
  BY <1>11 DEF Consume, TypeOK, VerdictCorrect, ConsumedInv, Decided
<1>12. CASE UNCHANGED vars
  BY <1>12 DEF vars, TypeOK, LoopInv, Read, GateInv, VerdictCorrect, ConsumedInv, Decided
<1>. QED BY <1>1, <1>2, <1>3, <1>4, <1>5, <1>6, <1>7, <1>8, <1>9, <1>10, <1>11, <1>12 DEF Next, verify

LEMMA SpecIInv == Spec => []IInv
<1>1. Init => IInv
  BY InitIInv
<1>2. IInv /\ [Next]_vars => IInv'
  BY NextIInv
<1>. QED BY <1>1, <1>2, PTL DEF Spec

\* Types hold of every call: for every header, integer width and set of secrets.
THEOREM TypeCorrect == Spec => []TypeOK
<1>1. IInv => TypeOK
  BY DEF IInv
<1>. QED BY <1>1, SpecIInv, PTL

\* stripe::verify returns the verdict stated over the whole header, for headers
\* of every length.
THEOREM VerifyIsVerdict == Spec => []VerdictCorrect
<1>1. IInv => VerdictCorrect
  BY DEF IInv
<1>. QED BY <1>1, SpecIInv, PTL

\* Saturation keeps the direction of a skew and every skew that fits.
LEMMA SaturationKeeps ==
  ASSUME NEW now \in I64, NEW t \in I64
  PROVE  LET skew == now - t
         IN /\ (skew < 0) = (LoggedSkew(skew) < 0)
            /\ skew \in I64 => LoggedSkew(skew) = skew
            /\ Abs(LoggedSkew(skew)) <= Abs(skew)
<1>1. now - t \in Int /\ I64Max \in Nat /\ I64Min = -I64Max - 1 /\ I64 = I64Min .. I64Max
  BY I64Assumption DEF I64, I64Min
<1>2. CASE now - t \in I64
  BY <1>1, <1>2 DEF LoggedSkew, Abs
<1>3. CASE now - t > I64Max
  BY <1>1, <1>3 DEF LoggedSkew, Abs
<1>4. CASE now - t < I64Min
  BY <1>1, <1>4 DEF LoggedSkew, Abs
<1>. QED BY <1>1, <1>2, <1>3, <1>4

\* What the log shows of a rejected timestamp keeps its direction, and is exact
\* whenever it fits, for every width.
THEOREM LogIsFaithful == Spec => []LoggedSkewFaithful
<1>1. IInv => LoggedSkewFaithful
  <2>. SUFFICES ASSUME IInv, Decided, ~result.ok, result.error.kind = "TimestampOutOfTolerance"
                PROVE  LET skew == rq.now - HeaderTime(rq.header)
                           logged == result.error.skew_secs
                       IN /\ (skew < 0) = (logged < 0)
                          /\ skew \in I64 => logged = skew
                          /\ Abs(logged) <= Abs(skew)
    BY DEF LoggedSkewFaithful
  <2>1. result = StripeVerdict(rq) /\ rq.header \in Seq(Part) /\ rq.now \in I64
    BY RequestsAssumption DEF IInv, VerdictCorrect, TypeOK, Request
  <2>2. WellFormed(rq.header) /\ result.error.skew_secs = LoggedSkew(rq.now - HeaderTime(rq.header))
    BY <2>1 DEF StripeVerdict, from_body, Rejected, Err, Ok, TimestampError
  <2>3. HeaderTime(rq.header) \in I64
    BY <2>1, <2>2, HeaderTimeIs DEF WellFormed, TimeParts
  <2>. QED BY <2>1, <2>2, <2>3, SaturationKeeps
<1>. QED BY <1>1, SpecIInv, PTL

-----------------------------------------------------------------------------
\* The verdict accepts exactly the calls whose five gates hold.
LEMMA AcceptsIffGates ==
  ASSUME NEW r \in Request
  PROVE  /\ StripeGates(r) \in [Implemented!GATES -> BOOLEAN]
         /\ StripeVerdict(r).ok <=> \A gate \in Implemented!GATES : StripeGates(r)[gate]
<1>. DEFINE time == HeaderTime(r.header)
<1>1. StripeGates(r) \in [Implemented!GATES -> BOOLEAN]
  BY DEF StripeGates, Implemented!GATES, HasIdentity, Request, Body, WellFormed, InWindow, Signed
<1>2. (\A gate \in Implemented!GATES : StripeGates(r)[gate]) <=>
        /\ r.secret # EmptySecret
        /\ WellFormed(r.header)
        /\ InWindow(r.now, time, r.tolerance)
        /\ Signed(r.header, r.secret, time, r.body)
        /\ HasIdentity(r.body)
  BY DEF StripeGates, Implemented!GATES
<1>3. r.header = << >> => ~WellFormed(r.header)
  BY DEF WellFormed, TimeParts
<1>. QED BY <1>1, <1>2, <1>3 DEF StripeVerdict, from_body, Rejected, Err, Ok

\* The abstract states before and after the verdict and the consumption.
At(phase, valid, outputs, consumes) ==
  [phase |-> phase, provider |-> "stripe", valid |-> valid,
   outputs |-> outputs, consumes |-> consumes]

LEMMA BoundaryUpdates ==
  ASSUME NEW valid
  PROVE  /\ [At("received", valid, 0, 0) EXCEPT !.phase = "verified", !.outputs = 1]
              = At("verified", valid, 1, 0)
         /\ [At("verified", valid, 1, 0) EXCEPT !.phase = "consumed", !.consumes = 1]
              = At("consumed", valid, 1, 1)
<1>1. [At("received", valid, 0, 0) EXCEPT !.phase = "verified"] = At("verified", valid, 0, 0)
  BY DEF At
<1>2. [At("verified", valid, 0, 0) EXCEPT !.outputs = 1] = At("verified", valid, 1, 0)
  BY DEF At
<1>3. [At("verified", valid, 1, 0) EXCEPT !.phase = "consumed"] = At("consumed", valid, 1, 0)
  BY DEF At
<1>4. [At("consumed", valid, 1, 0) EXCEPT !.consumes = 1] = At("consumed", valid, 1, 1)
  BY DEF At
<1>5. [At("received", valid, 0, 0) EXCEPT !.phase = "verified", !.outputs = 1]
        = [[At("received", valid, 0, 0) EXCEPT !.phase = "verified"] EXCEPT !.outputs = 1]
  BY Zenon
<1>6. [At("verified", valid, 1, 0) EXCEPT !.phase = "consumed", !.consumes = 1]
        = [[At("verified", valid, 1, 0) EXCEPT !.phase = "consumed"] EXCEPT !.consumes = 1]
  BY Zenon
<1>. QED BY <1>1, <1>2, <1>3, <1>4, <1>5, <1>6

\* Every call, with its caller, is a behaviour of the verification boundary of
\* formal/provider_verification.qnt: it accepts exactly when all gates hold and
\* at most once is the event consumed.
THEOREM StripeImplementsBoundary == Spec => ImplementsBoundary
<1>. DEFINE gates == StripeGates(rq)
            abstract == Boundary(gates)
<1>1. Init => Implemented!InitAnyGates
  <2>. SUFFICES ASSUME Init PROVE Implemented!InitAnyGates
    OBVIOUS
  <2>1. gates \in [Implemented!GATES -> BOOLEAN]
    BY AcceptsIffGates, RequestsAssumption DEF Init
  <2>2. abstract = Implemented!Received("stripe", gates)
    BY DEF Init, Boundary, Decided, Implemented!Received
  <2>. QED BY <2>1, <2>2 DEF Implemented!InitAnyGates, Implemented!PROVIDERS
<1>2. IInv /\ IInv' /\ [Next]_vars => [Implemented!step]_(abstract)
  <2>. SUFFICES ASSUME IInv, IInv', [Next]_vars PROVE [Implemented!step]_(abstract)
    OBVIOUS
  <2>0. rq' = rq /\ gates' = gates
    BY DEF Next, verify, CheckSecret, CheckBlank, PartWithoutEquals, TimestampPart, V1Part,
           OtherPart, EndOfHeader, CheckTolerance, CheckSignature, ExtractEvent, Consume,
           Return, Goto, NextPart, vars
  <2>1. StripeVerdict(rq).ok <=> \A gate \in Implemented!GATES : gates[gate]
    BY AcceptsIffGates, RequestsAssumption DEF IInv, TypeOK
  <2>2. CASE ~Decided /\ Decided'
    <3>1. ~consumed /\ consumed' = consumed
      BY <2>2 DEF IInv, ConsumedInv, Next, verify, CheckSecret, CheckBlank, PartWithoutEquals,
           TimestampPart, V1Part, OtherPart, EndOfHeader, CheckTolerance, CheckSignature,
           ExtractEvent, Consume, Return, Goto, NextPart, vars, Decided
    <3>2. result' = StripeVerdict(rq)
      BY <2>0, <2>2 DEF IInv, VerdictCorrect
    <3>3. abstract = At("received", gates, 0, 0)
      BY <2>2, <3>1 DEF Boundary, At
    <3>4. CASE StripeVerdict(rq).ok
      <4>1. abstract' = At("verified", gates, 1, 0)
        BY <2>0, <2>2, <3>1, <3>2, <3>4 DEF Boundary, At
      <4>2. Implemented!verify
        <5>1. abstract.phase = "received" /\ abstract.provider = "stripe" /\ abstract.valid = gates
          BY <3>3 DEF At
        <5>2. abstract' = [abstract EXCEPT !.phase = "verified", !.outputs = 1]
          BY <3>3, <4>1, BoundaryUpdates
        <5>. QED BY <2>1, <3>4, <5>1, <5>2 DEF Implemented!verify,
             Implemented!verification_inputs_valid, Implemented!PROVIDERS
      <4>. QED BY <4>2 DEF Implemented!step
    <3>5. CASE ~StripeVerdict(rq).ok
      <4>1. abstract' = At("rejected", gates, 0, 0)
        BY <2>0, <2>2, <3>1, <3>2, <3>5 DEF Boundary, At
      <4>2. Implemented!reject
        BY <2>1, <3>3, <3>5, <4>1 DEF Implemented!reject, At,
           Implemented!verification_inputs_valid, Implemented!PROVIDERS
      <4>. QED BY <4>2 DEF Implemented!step
    <3>. QED BY <3>4, <3>5
  <2>3. CASE Consume
    <3>1. abstract = At("verified", gates, 1, 0)
      BY <2>3 DEF Consume, Boundary, Decided, At
    <3>2. abstract' = At("consumed", gates, 1, 1)
      BY <2>0, <2>3 DEF Consume, Boundary, Decided, At
    <3>3. Implemented!consume
      <4>1. abstract.phase = "verified" /\ abstract.outputs = 1 /\ abstract.consumes = 0
        BY <3>1 DEF At
      <4>2. abstract' = [abstract EXCEPT !.phase = "consumed", !.consumes = 1]
        BY <3>1, <3>2, BoundaryUpdates
      <4>. QED BY <4>1, <4>2 DEF Implemented!consume
    <3>. QED BY <3>3 DEF Implemented!step
  <2>4. CASE ~Decided /\ ~Decided'
    <3>1. ~consumed /\ ~consumed'
      BY <2>4 DEF IInv, ConsumedInv
    <3>. QED BY <2>0, <2>4, <3>1 DEF Boundary
  <2>5. CASE Decided /\ ~Consume
    <3>1. UNCHANGED vars
      BY <2>5 DEF Next, verify, CheckSecret, CheckBlank, PartWithoutEquals, TimestampPart, V1Part,
           OtherPart, EndOfHeader, CheckTolerance, CheckSignature, ExtractEvent, AtPart, Decided
    <3>. QED BY <2>0, <3>1 DEF vars, Boundary, Decided
  <2>. QED BY <2>2, <2>3, <2>4, <2>5
<1>. QED BY <1>1, <1>2, SpecIInv, PTL DEF Spec, ImplementsBoundary, Implemented!SpecAnyGates
=============================================================================
