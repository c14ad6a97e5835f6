------------------------ MODULE PaypalVerify_proofs ------------------------
(***************************************************************************)
(* Proofs about paypal::verify for fields of every length and every CRC    *)
(* function: the signed message binds every field that does not hold the   *)
(* separator and the checksum of the body, and the call implements the     *)
(* verification boundary.                                                  *)
(***************************************************************************)
EXTENDS PaypalVerify, SequenceTheorems, TLAPS

\* The concatenation of two sequences, and what it holds position by position.
Cat(p, q) == p \o q

IsCat(m, p, q, S) ==
  /\ m \in Seq(S)
  /\ Len(m) = Len(p) + Len(q)
  /\ Len(p) \in Nat /\ Len(q) \in Nat
  /\ \A n \in 1 .. Len(p) : m[n] = p[n]
  /\ \A n \in 1 .. Len(q) : m[Len(p) + n] = q[n]

LEMMA Concatenation ==
  ASSUME NEW S, NEW p \in Seq(S), NEW q \in Seq(S)
  PROVE  IsCat(Cat(p, q), p, q, S)
BY DEF Cat, IsCat

\* The text of field lies in m after offset, and a separator after it.
Holds(m, offset, field) ==
  /\ \A n \in 1 .. Len(field) : m[offset + n] = field[n]
  /\ m[offset + Len(field) + 1] = Bar

\* A first separator can only be at one place.
LEMMA FirstSeparator ==
  ASSUME NEW m, NEW x \in Field, NEW y \in Field, NEW off \in Nat,
         SeparatorFree(x), SeparatorFree(y), Holds(m, off, x), Holds(m, off, y)
  PROVE  x = y
<1>1. Len(x) \in Nat /\ Len(y) \in Nat
  BY DEF Field
<1>2. DOMAIN x = 1 .. Len(x) /\ DOMAIN y = 1 .. Len(y)
  BY DEF Field
<1>3. ~(Len(x) < Len(y))
  <2>. SUFFICES ASSUME Len(x) < Len(y) PROVE FALSE
    OBVIOUS
  <2>1. Len(x) + 1 \in DOMAIN y /\ off + (Len(x) + 1) = off + Len(x) + 1
    BY <1>1, <1>2
  <2>2. y[Len(x) + 1] = Bar
    BY <1>2, <2>1 DEF Holds
  <2>. QED BY <2>1, <2>2 DEF SeparatorFree
<1>4. ~(Len(y) < Len(x))
  <2>. SUFFICES ASSUME Len(y) < Len(x) PROVE FALSE
    OBVIOUS
  <2>1. Len(y) + 1 \in DOMAIN x /\ off + (Len(y) + 1) = off + Len(y) + 1
    BY <1>1, <1>2
  <2>2. x[Len(y) + 1] = Bar
    BY <1>2, <2>1 DEF Holds
  <2>. QED BY <2>1, <2>2 DEF SeparatorFree
<1>5. Len(x) = Len(y)
  BY <1>1, <1>3, <1>4
<1>6. \A n \in 1 .. Len(x) : x[n] = y[n]
  BY <1>1, <1>5 DEF Holds
<1>. QED BY <1>5, <1>6 DEF Field

\* Where each field lies in the signed message.
Layout(m, x, y, z, crc) ==
  /\ Len(m) = Len(x) + Len(y) + Len(z) + 4
  /\ Holds(m, 0, x)
  /\ Holds(m, Len(x) + 1, y)
  /\ Holds(m, Len(x) + Len(y) + 2, z)
  /\ m[Len(x) + Len(y) + Len(z) + 4] = crc

\* m2 goes on where m1 ends.
Extends(m2, m1) == Len(m1) <= Len(m2) /\ \A n \in 1 .. Len(m1) : m2[n] = m1[n]

\* p followed by a field and a separator.
WithField(p, x) == (p \o x) \o <<Bar>>

LEMMA AppendField ==
  ASSUME NEW S, NEW p \in Seq(S), NEW x \in Seq(S), Bar \in S
  PROVE  /\ WithField(p, x) \in Seq(S)
         /\ Len(WithField(p, x)) = Len(p) + Len(x) + 1
         /\ Extends(WithField(p, x), p)
         /\ Holds(WithField(p, x), Len(p), x)
<1>. DEFINE m1 == Cat(p, x)
            m  == WithField(p, x)
<1>1. m1 \in Seq(S) /\ Len(m1) = Len(p) + Len(x) /\ Len(p) \in Nat /\ Len(x) \in Nat
      /\ (\A n \in 1 .. Len(p) : m1[n] = p[n])
      /\ \A n \in 1 .. Len(x) : m1[Len(p) + n] = x[n]
  <2>1. IsCat(m1, p, x, S)
    BY Concatenation
  <2>. HIDE DEF m1
  <2>. QED BY <2>1 DEF IsCat
<1>. HIDE DEF m1
<1>2. <<Bar>> \in Seq(S) /\ Len(<<Bar>>) = 1 /\ <<Bar>>[1] = Bar
  OBVIOUS
<1>3. m \in Seq(S) /\ Len(m) = Len(m1) + 1
      /\ (\A n \in 1 .. Len(m1) : m[n] = m1[n])
      /\ m[Len(m1) + 1] = Bar
  <2>. DEFINE bar == <<Bar>>
  <2>1. bar \in Seq(S) /\ Len(bar) = 1 /\ bar[1] = Bar
    BY <1>2
  <2>2. m = Cat(m1, bar)
    BY DEF m1, WithField, Cat
  <2>. HIDE DEF m, bar
  <2>3. IsCat(m, m1, bar, S)
    BY <1>1, <2>1, <2>2, Concatenation
  <2>. QED BY <2>1, <2>3 DEF IsCat
<1>. HIDE DEF m
<1>4. \A n \in 1 .. Len(p) : m[n] = p[n]
  BY <1>1, <1>3
<1>5. \A n \in 1 .. Len(x) : m[Len(p) + n] = x[n]
  <2>. SUFFICES ASSUME NEW n \in 1 .. Len(x) PROVE m[Len(p) + n] = x[n]
    OBVIOUS
  <2>1. Len(p) + n \in 1 .. Len(m1)
    BY <1>1
  <2>. QED BY <1>1, <1>3, <2>1
<1>6. Len(p) <= Len(m)
  BY <1>1, <1>3
<1>7. m \in Seq(S) /\ Len(m) = Len(p) + Len(x) + 1 /\ Extends(m, p) /\ Holds(m, Len(p), x)
  BY <1>1, <1>3, <1>4, <1>5, <1>6 DEF Holds, Extends
<1>. QED BY <1>7 DEF m

\* What lies in a sequence lies in one that extends it.
LEMMA StillHolds ==
  ASSUME NEW m1, NEW m2, Extends(m2, m1), NEW off \in Nat, NEW x \in Field,
         Holds(m1, off, x), Len(m1) \in Nat, off + Len(x) + 1 <= Len(m1)
  PROVE  Holds(m2, off, x)
<1>1. Len(x) \in Nat
  BY DEF Field
<1>2. ASSUME NEW n \in 1 .. Len(x) PROVE m2[off + n] = x[n]
  <2>1. off + n \in 1 .. Len(m1)
    BY <1>1
  <2>. QED BY <2>1 DEF Holds, Extends
<1>3. off + Len(x) + 1 \in 1 .. Len(m1)
  BY <1>1
<1>. QED BY <1>2, <1>3 DEF Holds, Extends

LEMMA MessageLayout ==
  ASSUME NEW x \in Field, NEW y \in Field, NEW z \in Field, NEW body \in Body,
         NEW m, m = signed_message(x, y, z, body)
  PROVE  Layout(m, x, y, z, Crc[body])
<1>. DEFINE S  == Token \union {Bar} \union Checksum
            m1 == WithField(<< >>, x)
            m2 == WithField(m1, y)
            m3 == WithField(m2, z)
<1>0. x \in Seq(S) /\ y \in Seq(S) /\ z \in Seq(S) /\ Bar \in S /\ Crc[body] \in S
  BY CrcAssumption DEF Field
<1>. HIDE DEF S
<1>1. m1 \in Seq(S) /\ Len(m1) = Len(x) + 1 /\ Holds(m1, 0, x)
  <2>1. << >> \in Seq(S) /\ Len(<< >>) = 0 /\ Len(x) \in Nat
    BY DEF Field
  <2>2. m1 \in Seq(S) /\ Len(m1) = Len(<< >>) + Len(x) + 1 /\ Holds(m1, Len(<< >>), x)
    BY <1>0, <2>1, AppendField
  <2>. HIDE DEF m1
  <2>. QED BY <2>1, <2>2
<1>. HIDE DEF m1
<1>2. m2 \in Seq(S) /\ Len(m2) = Len(m1) + Len(y) + 1 /\ Extends(m2, m1) /\ Holds(m2, Len(m1), y)
  BY <1>0, <1>1, AppendField
<1>. HIDE DEF m2
<1>3. m3 \in Seq(S) /\ Len(m3) = Len(m2) + Len(z) + 1 /\ Extends(m3, m2) /\ Holds(m3, Len(m2), z)
  BY <1>0, <1>2, AppendField
<1>. HIDE DEF m3
<1>4. m = m3 \o <<Crc[body]>>
  <2>1. << >> \o x = x
    BY <1>0, ConcatEmptySeq
  <2>. QED BY <2>1 DEF signed_message, WithField, m1, m2, m3
<1>5. Len(m) = Len(m3) + 1 /\ m[Len(m3) + 1] = Crc[body] /\ Extends(m, m3)
  <2>1. <<Crc[body]>> \in Seq(S) /\ Len(<<Crc[body]>>) = 1 /\ <<Crc[body]>>[1] = Crc[body]
    BY <1>0
  <2>. DEFINE c == <<Crc[body]>>
  <2>2. c \in Seq(S) /\ Len(c) = 1 /\ c[1] = Crc[body]
    BY <2>1
  <2>. HIDE DEF c
  <2>3. m = Cat(m3, c)
    BY <1>4 DEF c, Cat
  <2>4. IsCat(m, m3, c, S)
    BY <1>3, <2>2, <2>3, Concatenation
  <2>. QED BY <2>2, <2>4 DEF IsCat, Extends
<1>6. Len(x) \in Nat /\ Len(y) \in Nat /\ Len(z) \in Nat
  BY DEF Field
<1>7. Len(m1) = Len(x) + 1 /\ Len(m2) = Len(x) + Len(y) + 2 /\ Len(m3) = Len(x) + Len(y) + Len(z) + 3
  BY <1>1, <1>2, <1>3, <1>6
<1>8. Holds(m, 0, x)
  <2>1. Holds(m2, 0, x)
    BY <1>1, <1>2, <1>6, <1>7, StillHolds
  <2>2. Holds(m3, 0, x)
    BY <1>3, <1>6, <1>7, <2>1, StillHolds
  <2>. QED BY <1>5, <1>6, <1>7, <2>2, StillHolds
<1>9. Holds(m, Len(x) + 1, y)
  <2>1. Holds(m3, Len(x) + 1, y)
    BY <1>2, <1>3, <1>6, <1>7, StillHolds
  <2>. QED BY <1>5, <1>6, <1>7, <2>1, StillHolds
<1>10. Holds(m, Len(x) + Len(y) + 2, z)
  BY <1>3, <1>5, <1>6, <1>7, StillHolds
<1>. QED BY <1>5, <1>6, <1>7, <1>8, <1>9, <1>10 DEF Layout

\* Two equal messages carry the same checksum.
LEMMA SameChecksum ==
  ASSUME NEW f \in Fields, NEW g \in Fields, MessageOf(f) = MessageOf(g)
  PROVE  Crc[f.raw_body] = Crc[g.raw_body]
<1>1. f.transmission_id \in Field /\ f.transmission_time \in Field /\ f.webhook_id \in Field
      /\ f.raw_body \in Body
  BY DEF Fields
<1>2. g.transmission_id \in Field /\ g.transmission_time \in Field /\ g.webhook_id \in Field
      /\ g.raw_body \in Body
  BY DEF Fields
<1>3. Layout(MessageOf(f), f.transmission_id, f.transmission_time, f.webhook_id, Crc[f.raw_body])
  BY <1>1, MessageLayout DEF MessageOf
<1>4. Layout(MessageOf(g), g.transmission_id, g.transmission_time, g.webhook_id, Crc[g.raw_body])
  BY <1>2, MessageLayout DEF MessageOf
<1>5. MessageOf(f)[Len(MessageOf(f))] = Crc[f.raw_body]
  BY <1>3 DEF Layout
<1>6. MessageOf(g)[Len(MessageOf(g))] = Crc[g.raw_body]
  BY <1>4 DEF Layout
<1>. QED BY <1>5, <1>6

\* Two equal messages of separator-free fields have equal fields.
LEMMA SameFields ==
  ASSUME NEW f \in Fields, NEW g \in Fields, MessageOf(f) = MessageOf(g),
         SeparatorFree(f.transmission_id), SeparatorFree(f.transmission_time),
         SeparatorFree(f.webhook_id),
         SeparatorFree(g.transmission_id), SeparatorFree(g.transmission_time),
         SeparatorFree(g.webhook_id)
  PROVE  /\ f.transmission_id = g.transmission_id
         /\ f.transmission_time = g.transmission_time
         /\ f.webhook_id = g.webhook_id
<1>. DEFINE m == MessageOf(f)
            fx == f.transmission_id
            fy == f.transmission_time
            fz == f.webhook_id
            gx == g.transmission_id
            gy == g.transmission_time
            gz == g.webhook_id
<1>1. fx \in Field /\ fy \in Field /\ fz \in Field /\ gx \in Field /\ gy \in Field /\ gz \in Field
      /\ f.raw_body \in Body /\ g.raw_body \in Body
  BY DEF Fields
<1>2. /\ SeparatorFree(fx) /\ SeparatorFree(fy) /\ SeparatorFree(fz)
      /\ SeparatorFree(gx) /\ SeparatorFree(gy) /\ SeparatorFree(gz)
  OBVIOUS
<1>3. m = signed_message(fx, fy, fz, f.raw_body) /\ m = signed_message(gx, gy, gz, g.raw_body)
  BY DEF MessageOf
<1>. HIDE DEF m, fx, fy, fz, gx, gy, gz
<1>4. Layout(m, fx, fy, fz, Crc[f.raw_body]) /\ Layout(m, gx, gy, gz, Crc[g.raw_body])
  BY <1>1, <1>3, MessageLayout
<1>5. /\ Holds(m, 0, fx) /\ Holds(m, Len(fx) + 1, fy) /\ Holds(m, Len(fx) + Len(fy) + 2, fz)
      /\ Holds(m, 0, gx) /\ Holds(m, Len(gx) + 1, gy) /\ Holds(m, Len(gx) + Len(gy) + 2, gz)
  BY <1>4 DEF Layout
<1>6. Len(fx) \in Nat /\ Len(fy) \in Nat
  BY <1>1 DEF Field
<1>7. fx = gx
  BY <1>1, <1>2, <1>5, FirstSeparator
<1>8. fy = gy
  <2>1. Len(fx) + 1 \in Nat
    BY <1>6
  <2>. QED BY <1>1, <1>2, <1>5, <1>7, <2>1, FirstSeparator
<1>9. fz = gz
  <2>1. Len(fx) + Len(fy) + 2 \in Nat
    BY <1>6
  <2>. QED BY <1>1, <1>2, <1>5, <1>7, <1>8, <2>1, FirstSeparator
<1>. QED BY <1>7, <1>8, <1>9 DEF fx, fy, fz, gx, gy, gz

-----------------------------------------------------------------------------
\* A returned call returned its verdict; only an accepted one is consumed.
IInv ==
  /\ TypeOK
  /\ result # None => result = PaypalVerdict(rq)
  /\ consumed => Accepted

\* Each way out of the function returns a result.
LEMMA VerdictType ==
  ASSUME NEW r \in Request PROVE PaypalVerdict(r) \in Result /\ PaypalVerdict(r) # None
<1>1. r.raw_body \in Body
  BY DEF Request
<1>2. from_body("paypal", r.raw_body) \in Result
  <2>1. CASE HasIdentity(r.raw_body)
    BY <1>1, <2>1 DEF from_body, HasIdentity, Ok, Result, Event, Provider
  <2>2. CASE ~HasIdentity(r.raw_body)
    BY <2>2 DEF from_body, Rejected, Err, Result
  <2>. QED BY <2>1, <2>2
<1>3. \A kind \in {"InvalidInput", "MalformedSignature", "SignatureMismatch"} :
        Rejected(kind) \in Result
  BY DEF Rejected, Err, Result
<1>4. PaypalVerdict(r) \in Result
  BY <1>2, <1>3 DEF PaypalVerdict
<1>. QED BY <1>4, NoneAssumption

LEMMA SpecIInv == Spec => []IInv
<1>1. Init => IInv
  BY RequestsAssumption DEF Init, IInv, TypeOK
<1>2. IInv /\ [Next]_vars => IInv'
  <2>. SUFFICES ASSUME IInv, [Next]_vars PROVE IInv'
    OBVIOUS
  <2>1. CASE verify
    <3>1. PaypalVerdict(rq) \in Result
      BY VerdictType DEF IInv, TypeOK
    <3>2. ~consumed
      BY <2>1 DEF verify, IInv, Accepted
    <3>. QED BY <2>1, <3>1, <3>2 DEF verify, IInv, TypeOK
  <2>2. CASE Consume
    BY <2>2 DEF Consume, IInv, TypeOK, Accepted
  <2>3. CASE UNCHANGED vars
    BY <2>3 DEF vars, IInv, TypeOK, Accepted
  <2>. QED BY <2>1, <2>2, <2>3 DEF Next
<1>. QED BY <1>1, <1>2, PTL DEF Spec

\* What acceptance says of the arguments.
LEMMA AcceptedFacts ==
  ASSUME NEW r \in Request, PaypalVerdict(r).ok
  PROVE  /\ eq_ignore_ascii_case(r.t.auth_algo)
         /\ cert_url_is_paypal(r.t.cert_url)
         /\ r.webhook_id # << >>
         /\ r.t.signature_b64 \in RsaSignature
         /\ r.cert_pem \in Key
         /\ r.t.signature_b64.key = r.cert_pem
         /\ MessageOf(r.t.signature_b64.signed) = MessageOf(ReceivedFields(r))
         /\ HasIdentity(r.raw_body)
<1>1. r.t.signature_b64 \in RsaSignature \union {NotBase64, NotRsaSignature}
      /\ r.cert_pem \in Key \union {NotACertificate, NotAnRsaKey}
  BY DEF Request, Transmission
<1>. QED BY <1>1 DEF PaypalVerdict, Rejected, Err, RsaVerifies, from_body

\* The signed message binds the certificate's key, the checksum of the body and
\* every field that does not hold the separator, for fields of every length.
THEOREM PaypalBindsFields == Spec => []BindsEveryField
<1>1. IInv => BindsEveryField
  <2>. SUFFICES ASSUME IInv, Accepted PROVE BindsEveryField
    BY DEF BindsEveryField
  <2>. DEFINE received == ReceivedFields(rq)
              signed == rq.t.signature_b64.signed
  <2>1. rq \in Request /\ PaypalVerdict(rq).ok
    BY DEF IInv, TypeOK, Accepted
  <2>2. /\ rq.t.signature_b64 \in RsaSignature
        /\ rq.t.signature_b64.key = rq.cert_pem
        /\ MessageOf(signed) = MessageOf(received)
    BY <2>1, AcceptedFacts
  <2>3. signed \in Fields /\ received \in Fields
    BY <2>1, <2>2 DEF RsaSignature, ReceivedFields, Fields, Request, Transmission
  <2>4. Crc[signed.raw_body] = Crc[received.raw_body]
    BY <2>2, <2>3, SameChecksum
  <2>5. ASSUME SeparatorFree(received.transmission_id), SeparatorFree(received.transmission_time),
               SeparatorFree(received.webhook_id), SeparatorFree(signed.transmission_id),
               SeparatorFree(signed.transmission_time), SeparatorFree(signed.webhook_id)
        PROVE  /\ signed.transmission_id = received.transmission_id
               /\ signed.transmission_time = received.transmission_time
               /\ signed.webhook_id = received.webhook_id
    BY <2>2, <2>3, <2>5, SameFields
  <2>. HIDE DEF received, signed
  <2>. QED BY <2>2, <2>4, <2>5 DEF BindsEveryField, received, signed
<1>. QED BY <1>1, SpecIInv, PTL

-----------------------------------------------------------------------------
LEMMA AcceptsIffGates ==
  ASSUME NEW r \in Request
  PROVE  /\ PaypalGates(r) \in [Implemented!GATES -> BOOLEAN]
         /\ PaypalVerdict(r).ok <=> \A gate \in Implemented!GATES : PaypalGates(r)[gate]
<1>. DEFINE url == r.t.cert_url
            signature == r.t.signature_b64
<1>1. url \in Url \union {NotAUrl} /\ r.raw_body \in Body
  BY DEF Request, Transmission
<1>2. PaypalGates(r) \in [Implemented!GATES -> BOOLEAN]
  BY <1>1 DEF PaypalGates, Implemented!GATES, HasIdentity, Body, eq_ignore_ascii_case
<1>3. ASSUME NEW h \in Seq(Label)
      PROVE  HostIsPaypal(h) <=> \E n \in 2 .. Len(h) : n = Len(h) /\ h[n] = "com" /\ h[n - 1] = "paypal"
  <2>1. Len(h) \in Nat
    OBVIOUS
  <2>2. CASE Len(h) < 2
    BY <2>1, <2>2 DEF HostIsPaypal
  <2>3. CASE Len(h) >= 2
    <3>. DEFINE q == SubSeq(h, Len(h) - 1, Len(h))
    <3>0. q \in Seq(Label) /\ Len(q) = 2 /\ q[1] = h[Len(h) - 1] /\ q[2] = h[Len(h)]
      BY <2>1, <2>3
    <3>1. q = <<h[Len(h) - 1], h[Len(h)]>>
      <4>. HIDE DEF q
      <4>. QED BY <3>0
    <3>2. HostIsPaypal(h) <=> h[Len(h) - 1] = "paypal" /\ h[Len(h)] = "com"
      BY <2>3, <3>1 DEF HostIsPaypal
    <3>. QED BY <2>1, <2>3, <3>2
  <2>. QED BY <2>1, <2>2, <2>3
<1>4. cert_url_is_paypal(url) <=> PaypalGates(r)["provenance"]
  <2>1. CASE url = NotAUrl
    BY <2>1 DEF cert_url_is_paypal, PaypalGates
  <2>2. CASE url # NotAUrl
    <3>1. url.host \in Seq(Label)
      BY <1>1, <2>2 DEF Url
    <3>. QED BY <1>3, <2>2, <3>1 DEF cert_url_is_paypal, PaypalGates
  <2>. QED BY <2>1, <2>2
<1>5. (\A gate \in Implemented!GATES : PaypalGates(r)[gate]) <=>
        /\ eq_ignore_ascii_case(r.t.auth_algo) /\ r.webhook_id # << >>
        /\ signature \notin {NotBase64, NotRsaSignature}
        /\ r.cert_pem \notin {NotACertificate, NotAnRsaKey}
        /\ PaypalGates(r)["provenance"]
        /\ RsaVerifies(r.cert_pem, MessageOf(ReceivedFields(r)), signature)
        /\ HasIdentity(r.raw_body)
  BY DEF PaypalGates, Implemented!GATES, RsaVerifies
<1>. QED BY <1>2, <1>4, <1>5 DEF PaypalVerdict, from_body, Rejected, Err, Ok

\* The abstract states before and after the verdict and the consumption.
At(phase, valid, outputs, consumes) ==
  [phase |-> phase, provider |-> "paypal", valid |-> valid,
   outputs |-> outputs, consumes |-> consumes]

LEMMA BoundaryUpdates ==
  ASSUME NEW valid
  PROVE  /\ [At("received", valid, 0, 0) EXCEPT !.phase = "verified", !.outputs = 1]
              = At("verified", valid, 1, 0)
         /\ [At("verified", valid, 1, 0) EXCEPT !.phase = "consumed", !.consumes = 1]
              = At("consumed", valid, 1, 1)
<1>1. [At("received", valid, 0, 0) EXCEPT !.phase = "verified"] = At("verified", valid, 0, 0)
  BY DEF At
<1>2. [At("verified", valid, 0, 0) EXCEPT !.outputs = 1] = At("verified", valid, 1, 0)
  BY DEF At
<1>3. [At("verified", valid, 1, 0) EXCEPT !.phase = "consumed"] = At("consumed", valid, 1, 0)
  BY DEF At
<1>4. [At("consumed", valid, 1, 0) EXCEPT !.consumes = 1] = At("consumed", valid, 1, 1)
  BY DEF At
<1>5. [At("received", valid, 0, 0) EXCEPT !.phase = "verified", !.outputs = 1]
        = [[At("received", valid, 0, 0) EXCEPT !.phase = "verified"] EXCEPT !.outputs = 1]
  BY Zenon
<1>6. [At("verified", valid, 1, 0) EXCEPT !.phase = "consumed", !.consumes = 1]
        = [[At("verified", valid, 1, 0) EXCEPT !.phase = "consumed"] EXCEPT !.consumes = 1]
  BY Zenon
<1>. QED BY <1>1, <1>2, <1>3, <1>4, <1>5, <1>6

\* Every call of paypal::verify, with its caller, is a behaviour of the
\* verification boundary of formal/provider_verification.qnt.
THEOREM PaypalImplementsBoundary == Spec => ImplementsBoundary
<1>. DEFINE gates == PaypalGates(rq)
            abstract == Boundary(gates)
<1>1. Init => Implemented!InitAnyGates
  <2>. SUFFICES ASSUME Init PROVE Implemented!InitAnyGates
    OBVIOUS
  <2>1. gates \in [Implemented!GATES -> BOOLEAN]
    BY AcceptsIffGates, RequestsAssumption DEF Init
  <2>2. abstract = Implemented!Received("paypal", gates)
    BY DEF Init, Boundary, Accepted, Implemented!Received
  <2>. QED BY <2>1, <2>2 DEF Implemented!InitAnyGates, Implemented!PROVIDERS
<1>2. IInv /\ [Next]_vars => [Implemented!step]_(abstract)
  <2>. SUFFICES ASSUME IInv, [Next]_vars PROVE [Implemented!step]_(abstract)
    OBVIOUS
  <2>0. rq' = rq /\ gates' = gates
    BY DEF Next, verify, Consume, vars
  <2>1. PaypalVerdict(rq) # None
        /\ (PaypalVerdict(rq).ok <=> \A gate \in Implemented!GATES : gates[gate])
    BY AcceptsIffGates, VerdictType DEF IInv, TypeOK
  <2>2. CASE verify
    <3>1. ~consumed /\ consumed' = consumed /\ result = None /\ result' = PaypalVerdict(rq)
      BY <2>2 DEF verify, IInv, Accepted
    <3>2. abstract = At("received", gates, 0, 0)
      BY <3>1 DEF Boundary, Accepted, At
    <3>3. CASE PaypalVerdict(rq).ok
      <4>1. abstract' = At("verified", gates, 1, 0)
        BY <2>0, <2>1, <3>1, <3>3 DEF Boundary, Accepted, At
      <4>2. abstract' = [abstract EXCEPT !.phase = "verified", !.outputs = 1]
        BY <3>2, <4>1, BoundaryUpdates
      <4>3. abstract.phase = "received" /\ abstract.provider = "paypal" /\ abstract.valid = gates
        BY <3>2 DEF At
      <4>4. Implemented!verify
        BY <2>1, <3>3, <4>2, <4>3 DEF Implemented!verify,
           Implemented!verification_inputs_valid, Implemented!PROVIDERS
      <4>. QED BY <4>4 DEF Implemented!step
    <3>4. CASE ~PaypalVerdict(rq).ok
      <4>1. abstract' = At("rejected", gates, 0, 0)
        BY <2>0, <2>1, <3>1, <3>4 DEF Boundary, Accepted, At
      <4>2. Implemented!reject
        BY <2>1, <3>2, <3>4, <4>1 DEF Implemented!reject, At,
           Implemented!verification_inputs_valid, Implemented!PROVIDERS
      <4>. QED BY <4>2 DEF Implemented!step
    <3>. QED BY <3>3, <3>4
  <2>3. CASE Consume
    <3>1. abstract = At("verified", gates, 1, 0)
      BY <2>3 DEF Consume, Boundary, Accepted, At
    <3>2. abstract' = At("consumed", gates, 1, 1)
      BY <2>0, <2>3 DEF Consume, Boundary, Accepted, At
    <3>3. abstract' = [abstract EXCEPT !.phase = "consumed", !.consumes = 1]
      BY <3>1, <3>2, BoundaryUpdates
    <3>4. abstract.phase = "verified" /\ abstract.outputs = 1 /\ abstract.consumes = 0
      BY <3>1 DEF At
    <3>5. Implemented!consume
      BY <3>3, <3>4 DEF Implemented!consume
    <3>. QED BY <3>5 DEF Implemented!step
  <2>4. CASE UNCHANGED vars
    BY <2>0, <2>4 DEF vars, Boundary, Accepted
  <2>. QED BY <2>2, <2>3, <2>4 DEF Next
<1>. QED BY <1>1, <1>2, SpecIInv, PTL DEF Spec, ImplementsBoundary, Implemented!SpecAnyGates

\* Type correctness of a call of paypal::verify and its caller: whatever the
\* request, the result is none yet, an error of the boundary or a whole event.
THEOREM TypeCorrect == Spec => []TypeOK
<1>1. IInv => TypeOK
  BY DEF IInv
<1>. QED BY <1>1, SpecIInv, PTL
=============================================================================
