----------------------- MODULE StripeReceiver_proofs -----------------------
(***************************************************************************)
(* What the receiver accepts, for any number of workers, secrets, events   *)
(* and deliveries, any tolerance and any clock error: only bodies Stripe   *)
(* signed, each within the window, and only those reach the ledger.  The   *)
(* invariant says why: every v1 value that is anywhere, in the network or  *)
(* in the hands of a worker, is the signature of a delivery Stripe sent.   *)
(***************************************************************************)
EXTENDS StripeReceiver, FiniteSetTheorems, TLAPS

\* Every signature in a header is one of a delivery that was sent.
Genuine(header) ==
  \A j \in DOMAIN header : header[j].key = "v1" =>
    \E m \in sent : \E x \in m.secrets :
      header[j].value = Hmac(x, ToText(m.time), m.delivery.body)

JobInv(job) ==
  job.at \in {"received", "answered"} =>
    /\ job.delivery.header \in Seq(Part) /\ Genuine(job.delivery.header)
    /\ job.arrived \in Int /\ job.now \in Int /\ Abs(job.now - job.arrived) <= ClockSkew

\* The event the verdict makes of a body.
EventOf(body) ==
  [provider |-> "stripe", id |-> body.id, event_type |-> TypeMember(body), payload |-> body]

Origin(job) ==
  (job.at = "answered" /\ job.result.ok) =>
    \E m \in sent : /\ job.result.event = EventOf(m.delivery.body)
                    /\ job.secret \in m.secrets
                    /\ Abs(job.arrived - m.time) <= Tolerance + ClockSkew

Emitted(event) == \E m \in sent : event = EventOf(m.delivery.body)

SentInv    == \A m \in sent : m.time \in Int /\ m.delivery.body \in Sendable
NetworkInv == \A d \in network : /\ d = [header |-> d.header, body |-> d.body]
                                 /\ d.header \in Seq(Part) /\ Genuine(d.header)
WorkersInv == /\ workers = [w \in Worker |-> workers[w]]
              /\ \A w \in Worker : JobInv(workers[w]) /\ Origin(workers[w])
LedgerInv  == \A event \in ledger \union conflicts : Emitted(event)

IdentitiesDiffer == \A b1, b2 \in Sendable : b1.id = b2.id => b1 = b2
ConflictInv      == IdentitiesDiffer => conflicts = {}

IInv ==
  /\ now \in Time
  /\ live \subseteq Secret /\ IsFiniteSet(live) /\ configured \in live
  /\ SentInv /\ NetworkInv /\ WorkersInv /\ LedgerInv /\ ConflictInv

\* The constants.
LEMMA ConstantFacts ==
  /\ ClockSkew \in Nat /\ Tolerance \in Nat
  /\ \A t \in Time : t \in Int /\ t \in I64
  /\ \A body \in Sendable : body \in Body
BY SendableAssumption, ToleranceAssumption, ClockAssumption, I64Assumption
   DEF Time, U64, I64, I64Min

\* The elements of a concatenation are those of its two parts.
LEMMA ConcatenationElements ==
  ASSUME NEW p \in Seq(Part), NEW q \in Seq(Part), NEW k \in DOMAIN (p \o q)
  PROVE  (\E j \in DOMAIN p : (p \o q)[k] = p[j]) \/ (\E j \in DOMAIN q : (p \o q)[k] = q[j])
<1>1. /\ Len(p) \in Nat /\ Len(q) \in Nat /\ DOMAIN p = 1 .. Len(p) /\ DOMAIN q = 1 .. Len(q)
      /\ k \in 1 .. (Len(p) + Len(q))
  OBVIOUS
<1>2. CASE k <= Len(p)
  <2>1. (p \o q)[k] = p[k] /\ k \in DOMAIN p
    BY <1>1, <1>2
  <2> QED
    BY <2>1
<1>3. CASE k > Len(p)
  <2>1. (p \o q)[k] = q[k - Len(p)] /\ k - Len(p) \in DOMAIN q
    BY <1>1, <1>3
  <2> QED
    BY <2>1
<1> QED
  BY <1>1, <1>2, <1>3

\* The elements of a slice are elements of the sequence.
LEMMA SliceElements ==
  ASSUME NEW q \in Seq(Part), NEW a \in Nat, NEW b \in Nat, a >= 1, b <= Len(q)
  PROVE  /\ SubSeq(q, a, b) \in Seq(Part)
         /\ \A k \in DOMAIN SubSeq(q, a, b) : \E j \in DOMAIN q : SubSeq(q, a, b)[k] = q[j]
<1>1. Len(q) \in Nat /\ DOMAIN q = 1 .. Len(q) /\ \A j \in 1 .. Len(q) : q[j] \in Part
  OBVIOUS
<1>2. SubSeq(q, a, b) \in Seq(Part)
  BY <1>1
<1>3. ASSUME NEW k \in DOMAIN SubSeq(q, a, b) PROVE \E j \in DOMAIN q : SubSeq(q, a, b)[k] = q[j]
  <2>1. k \in 1 .. (b - a + 1) /\ SubSeq(q, a, b)[k] = q[a + k - 1]
    BY <1>1, <1>3
  <2>2. a + k - 1 \in DOMAIN q
    BY <2>1, <1>1
  <2> QED
    BY <2>1, <2>2
<1> QED
  BY <1>2, <1>3

\* A header that lost a part holds no part it did not hold.
LEMMA DroppedPart ==
  ASSUME NEW header \in Seq(Part), NEW j \in DOMAIN header
  PROVE  /\ DropPart(header, j) \in Seq(Part)
         /\ \A k \in DOMAIN DropPart(header, j) :
              \E n \in DOMAIN header : DropPart(header, j)[k] = header[n]
<1> DEFINE p == SubSeq(header, 1, j - 1)
           q == SubSeq(header, j + 1, Len(header))
<1>1. /\ j \in 1 .. Len(header) /\ Len(header) \in Nat
      /\ 1 \in Nat /\ j - 1 \in Nat /\ 1 >= 1 /\ j - 1 <= Len(header)
      /\ j + 1 \in Nat /\ j + 1 >= 1 /\ Len(header) <= Len(header)
  OBVIOUS
<1>2. p \in Seq(Part) /\ \A k \in DOMAIN p : \E n \in DOMAIN header : p[k] = header[n]
  BY <1>1, SliceElements
<1>3. q \in Seq(Part) /\ \A k \in DOMAIN q : \E n \in DOMAIN header : q[k] = header[n]
  BY <1>1, SliceElements
<1>4. DropPart(header, j) = p \o q
  BY DEF DropPart
<1> HIDE DEF p, q
<1>5. p \o q \in Seq(Part)
  BY <1>2, <1>3
<1>6. ASSUME NEW k \in DOMAIN (p \o q)
      PROVE  \E n \in DOMAIN header : (p \o q)[k] = header[n]
  <2>1. (\E i \in DOMAIN p : (p \o q)[k] = p[i]) \/ (\E i \in DOMAIN q : (p \o q)[k] = q[i])
    BY <1>2, <1>3, ConcatenationElements
  <2> QED
    BY <2>1, <1>2, <1>3, Zenon
<1> QED
  BY <1>4, <1>5, <1>6

\* The header Stripe writes: parts of the right shape, and a v1 value is the
\* signature of the body under one of the ordered secrets.
LEMMA WrittenHeader ==
  ASSUME NEW S, S \subseteq Secret, IsFiniteSet(S), NEW order \in Orders(S),
         NEW time \in I64, NEW body \in Body
  PROVE  /\ Header(time, order, body) \in Seq(Part)
         /\ \A k \in DOMAIN Header(time, order, body) :
              Header(time, order, body)[k].key = "v1" =>
                \E x \in S : Header(time, order, body)[k].value = Hmac(x, ToText(time), body)
<1> DEFINE p == <<[key |-> "t", value |-> ToText(time)]>>
           q == [k \in DOMAIN order |-> [key |-> "v1", value |-> Hmac(order[k], ToText(time), body)]]
<1>1. Cardinality(S) \in Nat /\ order \in [1 .. Cardinality(S) -> S]
  BY FS_CardinalityType DEF Orders
<1>2. ToText(time) \in TimeText
  BY DEF ToText, TimeText
<1>3. [key |-> "t", value |-> ToText(time)] \in Part
  BY <1>2 DEF Part
<1>4. p \in Seq(Part)
  BY <1>3
<1>5. \A k \in DOMAIN order : [key |-> "v1", value |-> Hmac(order[k], ToText(time), body)] \in Part
  BY <1>1, <1>2 DEF Part, Candidate, Hmac
<1>6. q \in [1 .. Cardinality(S) -> Part]
  BY <1>1, <1>5
<1>7. q \in Seq(Part)
  BY <1>1, <1>6
<1>8. Header(time, order, body) = p \o q
  BY DEF Header
<1>9. \A k \in DOMAIN p : p[k].key # "v1"
  OBVIOUS
<1>10. \A k \in DOMAIN q : \E x \in S : q[k].value = Hmac(x, ToText(time), body)
  BY <1>1
<1> HIDE DEF p, q
<1>11. p \o q \in Seq(Part)
  BY <1>4, <1>7
<1>12. ASSUME NEW k \in DOMAIN (p \o q), (p \o q)[k].key = "v1"
       PROVE  \E x \in S : (p \o q)[k].value = Hmac(x, ToText(time), body)
  BY <1>4, <1>7, <1>9, <1>10, <1>12, ConcatenationElements
<1> QED
  BY <1>8, <1>11, <1>12

\* What the verdict accepts is signed, in the window, and returned as it came.
LEMMA AcceptedCall ==
  ASSUME NEW rq, StripeVerdict(rq).ok
  PROVE  LET time == HeaderTime(rq.header)
         IN /\ InWindow(rq.now, time, rq.tolerance)
            /\ Signed(rq.header, rq.secret, time, rq.body)
            /\ StripeVerdict(rq).event = EventOf(rq.body)
BY DEF StripeVerdict, Rejected, Err, Ok, from_body, TimestampError, EventOf

\* A delivery that is sent keeps what was sent before.
LEMMA Monotone ==
  ASSUME sent \subseteq sent'
  PROVE  /\ \A header : Genuine(header) => Genuine(header)'
         /\ \A job : JobInv(job) => JobInv(job)'
         /\ \A job : Origin(job) => Origin(job)'
         /\ \A event : Emitted(event) => Emitted(event)'
<1>1. \A header : Genuine(header) => Genuine(header)'
  BY DEF Genuine
<1> QED
  BY <1>1 DEF JobInv, Origin, Emitted

\* A signature that is both in the header and genuine names the delivery it was
\* made for.
LEMMA GenuineSignature ==
  ASSUME NEW header, Genuine(header), NEW secret, NEW time, NEW body,
         Signed(header, secret, time, body)
  PROVE  \E m \in sent : secret \in m.secrets /\ m.time = time /\ m.delivery.body = body
<1>1. PICK j \in DOMAIN header : header[j].key = "v1" /\ header[j].value = Hmac(secret, ToText(time), body)
  BY DEF Signed
<1>2. PICK m \in sent : \E x \in m.secrets : header[j].value = Hmac(x, ToText(m.time), m.delivery.body)
  BY <1>1 DEF Genuine
<1>3. PICK x \in m.secrets : header[j].value = Hmac(x, ToText(m.time), m.delivery.body)
  BY <1>2
<1>4. x = secret /\ ToText(m.time) = ToText(time) /\ m.delivery.body = body
  BY <1>1, <1>3 DEF Hmac
<1>5. m.time = time
  BY <1>4 DEF ToText
<1> QED
  BY <1>3, <1>4, <1>5

LEMMA InitIInv == Init => IInv
<1> SUFFICES ASSUME Init PROVE IInv
  OBVIOUS
<1>1. now \in Time
  BY ClockAssumption, I64Assumption DEF Init, Time
<1>2. live \subseteq Secret /\ IsFiniteSet(live) /\ configured \in live
  BY FS_Singleton DEF Init
<1>3. SentInv /\ NetworkInv /\ LedgerInv /\ ConflictInv
  BY DEF Init, SentInv, NetworkInv, LedgerInv, ConflictInv
<1>4. WorkersInv
  BY DEF Init, WorkersInv, JobInv, Origin, Idle
<1> QED
  BY <1>1, <1>2, <1>3, <1>4 DEF IInv

\* What a worker holds may change to anything that is itself in order.
LEMMA WorkersStep ==
  ASSUME WorkersInv, UNCHANGED sent, NEW w \in Worker, NEW job,
         JobInv(job), Origin(job), workers' = [workers EXCEPT ![w] = job]
  PROVE  WorkersInv'
<1>1. /\ workers' = [v \in Worker |-> workers'[v]]
      /\ \A v \in Worker : workers'[v] = IF v = w THEN job ELSE workers[v]
  BY DEF WorkersInv
<1>2. ASSUME NEW v \in Worker PROVE JobInv(workers[v])' /\ Origin(workers[v])'
  <2>1. PICK held : held = workers'[v] /\ JobInv(held) /\ Origin(held)
    BY <1>1 DEF WorkersInv
  <2>2. JobInv(workers[v])'
    BY <2>1 DEF JobInv, Genuine
  <2>3. Origin(workers[v])'
    BY <2>1 DEF Origin
  <2> QED
    BY <2>2, <2>3
<1> QED
  BY <1>1, <1>2 DEF WorkersInv

LEMMA IdleInOrder == JobInv(Idle) /\ Origin(Idle)
BY DEF JobInv, Origin, Idle

\* A step that leaves what was sent, and the clock and secrets in range, keeps
\* the parts of the invariant whose variables it leaves alone.
LEMMA Frame ==
  ASSUME IInv, UNCHANGED sent
  PROVE  /\ SentInv'
         /\ UNCHANGED network => NetworkInv'
         /\ UNCHANGED workers => WorkersInv'
         /\ UNCHANGED <<ledger, conflicts>> => LedgerInv' /\ ConflictInv'
<1>1. SentInv'
  BY DEF IInv, SentInv
<1>2. UNCHANGED network => NetworkInv'
  BY Monotone DEF IInv, NetworkInv
<1>3. UNCHANGED workers => WorkersInv'
  BY Monotone DEF IInv, WorkersInv
<1>4. UNCHANGED <<ledger, conflicts>> => LedgerInv' /\ ConflictInv'
  BY Monotone DEF IInv, LedgerInv, ConflictInv
<1> QED
  BY <1>1, <1>2, <1>3, <1>4

LEMMA ClockAndSecrets ==
  ASSUME IInv, Tick \/ AddSecret \/ Reconfigure \/ RetireSecret
  PROVE  IInv'
<1>1. UNCHANGED <<sent, network, workers, ledger, conflicts>>
  BY DEF Tick, AddSecret, Reconfigure, RetireSecret
<1>2. SentInv' /\ NetworkInv' /\ WorkersInv' /\ LedgerInv' /\ ConflictInv'
  BY <1>1, Frame
<1>3. CASE Tick
  <2>1. now' \in Time
    BY <1>3, ClockAssumption, I64Assumption DEF IInv, Tick, Time
  <2> QED
    BY <2>1, <1>2, <1>3 DEF IInv, Tick
<1>4. CASE AddSecret
  BY <1>2, <1>4, FS_AddElement DEF IInv, AddSecret
<1>5. CASE Reconfigure
  BY <1>2, <1>5 DEF IInv, Reconfigure
<1>6. CASE RetireSecret
  <2>1. configured \in live \/ configured \notin live
    OBVIOUS
  <2> QED
    BY <1>2, <1>6, FS_Singleton DEF IInv, RetireSecret
<1> QED
  BY <1>3, <1>4, <1>5, <1>6

\* A new delivery carries signatures of its own body under secrets that are live.
LEMMA SendStep == ASSUME IInv, Send PROVE IInv'
<1>1. PICK body \in Sendable, order \in Orders(live) :
        LET delivery == [header |-> Header(now, order, body), body |-> body]
        IN /\ sent' = sent \union {[time |-> now, secrets |-> live, delivery |-> delivery]}
           /\ network' = network \union {delivery}
  BY DEF Send
<1>2. now \in Int /\ now \in I64 /\ body \in Body
      /\ UNCHANGED <<now, live, configured, workers, ledger, conflicts>>
  BY ConstantFacts DEF IInv, Send
<1>3. /\ Header(now, order, body) \in Seq(Part)
      /\ \A k \in DOMAIN Header(now, order, body) :
           Header(now, order, body)[k].key = "v1" =>
             \E x \in live : Header(now, order, body)[k].value = Hmac(x, ToText(now), body)
  BY <1>2, WrittenHeader DEF IInv
<1>4. PICK d : d = [header |-> Header(now, order, body), body |-> body]
  OBVIOUS
<1>5. PICK m : m = [time |-> now, secrets |-> live, delivery |-> d]
  OBVIOUS
<1>6. /\ d = [header |-> d.header, body |-> d.body] /\ d.header \in Seq(Part)
      /\ m.time \in Int /\ m.delivery.body \in Sendable
      /\ \A k \in DOMAIN d.header : d.header[k].key = "v1" =>
           \E x \in m.secrets : d.header[k].value = Hmac(x, ToText(m.time), m.delivery.body)
  BY <1>2, <1>3, <1>4, <1>5
<1>7. sent' = sent \union {m} /\ network' = network \union {d}
  BY <1>1, <1>4, <1>5
<1>8. Genuine(d.header)'
  BY <1>6, <1>7 DEF Genuine
<1>9. SentInv'
  BY <1>6, <1>7 DEF IInv, SentInv
<1>10. NetworkInv'
  <2> SUFFICES ASSUME NEW e \in network'
               PROVE  /\ e = [header |-> e.header, body |-> e.body]
                      /\ e.header \in Seq(Part) /\ Genuine(e.header)'
    BY DEF NetworkInv
  <2>1. CASE e = d
    BY <2>1, <1>6, <1>8
  <2>2. CASE e \in network
    BY <2>2, <1>7, Monotone DEF IInv, NetworkInv
  <2> QED
    BY <1>7, <2>1, <2>2
<1>11. WorkersInv' /\ LedgerInv' /\ ConflictInv'
  BY <1>2, <1>7, Monotone DEF IInv, WorkersInv, LedgerInv, ConflictInv
<1> QED
  BY <1>2, <1>9, <1>10, <1>11 DEF IInv

\* What the network does to a delivery adds no signature to it.
LEMMA NetworkStep == ASSUME IInv, Lose \/ Garble PROVE IInv'
<1>1. UNCHANGED <<now, live, configured, sent, workers, ledger, conflicts>>
  BY DEF Lose, Garble
<1>2. SentInv' /\ WorkersInv' /\ LedgerInv' /\ ConflictInv'
  BY <1>1, Frame
<1>3. CASE Lose
  BY <1>1, <1>2, <1>3 DEF IInv, NetworkInv, Lose, Genuine
<1>4. CASE Garble
  <2>1. PICK d \in network :
          \E e : /\ network' = (network \ {d}) \union {e}
                 /\ \/ \E body \in Garbled : e = [d EXCEPT !.body = body]
                    \/ \E j \in DOMAIN d.header : e = [d EXCEPT !.header = DropPart(d.header, j)]
    BY <1>4 DEF Garble
  <2>. PICK e : /\ network' = (network \ {d}) \union {e}
                /\ \/ \E body \in Garbled : e = [d EXCEPT !.body = body]
                   \/ \E j \in DOMAIN d.header : e = [d EXCEPT !.header = DropPart(d.header, j)]
    BY <2>1
  <2>2. d = [header |-> d.header, body |-> d.body] /\ d.header \in Seq(Part) /\ Genuine(d.header)
    BY DEF IInv, NetworkInv
  <2>3. e = [header |-> e.header, body |-> e.body] /\ e.header \in Seq(Part) /\ Genuine(e.header)
    <3>1. CASE \E body \in Garbled : e = [d EXCEPT !.body = body]
      <4>1. e.header = d.header /\ e = [header |-> e.header, body |-> e.body]
        BY <3>1, <2>2
      <4> QED
        BY <4>1, <2>2
    <3>2. CASE \E j \in DOMAIN d.header : e = [d EXCEPT !.header = DropPart(d.header, j)]
      <4>1. PICK j \in DOMAIN d.header : e = [d EXCEPT !.header = DropPart(d.header, j)]
        BY <3>2
      <4>2. e.header = DropPart(d.header, j) /\ e = [header |-> e.header, body |-> e.body]
        BY <4>1, <2>2
      <4>3. /\ DropPart(d.header, j) \in Seq(Part)
            /\ \A k \in DOMAIN DropPart(d.header, j) :
                 \E n \in DOMAIN d.header : DropPart(d.header, j)[k] = d.header[n]
        BY <2>2, DroppedPart
      <4> QED
        BY <4>2, <4>3, <2>2 DEF Genuine
    <3> QED
      BY <2>1, <3>1, <3>2
  <2>4. \A f \in network' : /\ f = [header |-> f.header, body |-> f.body]
                           /\ f.header \in Seq(Part) /\ Genuine(f.header)
    BY <2>1, <2>3 DEF IInv, NetworkInv
  <2>5. \A header : Genuine(header) => Genuine(header)'
    BY <1>1 DEF Genuine
  <2>6. NetworkInv'
    BY <2>4, <2>5 DEF NetworkInv
  <2> QED
    BY <1>1, <1>2, <2>6 DEF IInv
<1> QED
  BY <1>3, <1>4

\* A request that arrives holds a delivery of the network and a clock that is
\* off by no more than the skew.
LEMMA ReceiveStep == ASSUME IInv, NEW w \in Worker, Receive(w) PROVE IInv'
<1>1. PICK d \in network, clock \in Time :
        /\ Abs(clock - now) <= ClockSkew
        /\ workers' = [workers EXCEPT ![w] =
                         [at |-> "received", delivery |-> d, arrived |-> now, now |-> clock,
                          secret |-> configured]]
  BY DEF Receive
<1>2. UNCHANGED <<now, live, configured, sent, network, ledger, conflicts>>
  BY DEF Receive
<1>3. PICK job : job = [at |-> "received", delivery |-> d, arrived |-> now, now |-> clock,
                        secret |-> configured]
  OBVIOUS
<1>4. JobInv(job)
  BY <1>1, <1>3, ConstantFacts DEF IInv, NetworkInv, JobInv
<1>5. Origin(job)
  BY <1>3 DEF Origin
<1>6. WorkersInv'
  BY <1>1, <1>2, <1>3, <1>4, <1>5, WorkersStep DEF IInv
<1> QED
  BY <1>2, <1>6, Frame DEF IInv

\* The verdict accepts only what Stripe sent, and within the window.
LEMMA VerifyStep == ASSUME IInv, NEW w \in Worker, Verify(w) PROVE IInv'
<1>1. UNCHANGED <<now, live, configured, sent, network, ledger, conflicts>>
  BY DEF Verify
<1>2. PICK old : old = workers[w] /\ old.at = "received" /\ JobInv(old)
  BY DEF Verify, IInv, WorkersInv
<1>3. PICK job :
        /\ workers' = [workers EXCEPT ![w] = job]
        /\ job = [at |-> "answered", delivery |-> old.delivery, arrived |-> old.arrived,
                  now |-> old.now, secret |-> old.secret,
                  result |-> StripeVerdict(Arguments(old))]
  BY <1>2 DEF Verify
<1>4. JobInv(job)
  BY <1>2, <1>3 DEF JobInv
<1>5. Origin(job)
  <2> SUFFICES ASSUME StripeVerdict(Arguments(old)).ok
               PROVE  \E m \in sent : /\ StripeVerdict(Arguments(old)).event = EventOf(m.delivery.body)
                                      /\ old.secret \in m.secrets
                                      /\ Abs(old.arrived - m.time) <= Tolerance + ClockSkew
    BY <1>3 DEF Origin
  <2>1. PICK rq : /\ rq = Arguments(old)
                  /\ rq.header = old.delivery.header /\ rq.secret = old.secret
                  /\ rq.body = old.delivery.body /\ rq.now = old.now /\ rq.tolerance = Tolerance
    BY DEF Arguments
  <2>2. PICK time : /\ InWindow(old.now, time, Tolerance)
                    /\ Signed(old.delivery.header, old.secret, time, old.delivery.body)
                    /\ StripeVerdict(rq).event = EventOf(old.delivery.body)
    BY <2>1, AcceptedCall
  <2>3. PICK m \in sent : old.secret \in m.secrets /\ m.time = time /\ m.delivery.body = old.delivery.body
    BY <1>2, <2>2, GenuineSignature DEF JobInv
  <2>4. time \in Int
    BY <2>3 DEF IInv, SentInv
  <2>5. Abs(old.arrived - m.time) <= Tolerance + ClockSkew
    BY <1>2, <2>2, <2>3, <2>4, ConstantFacts DEF JobInv, InWindow, Abs
  <2> QED
    BY <2>1, <2>2, <2>3, <2>5
<1>6. WorkersInv'
  BY <1>1, <1>3, <1>4, <1>5, WorkersStep DEF IInv
<1> QED
  BY <1>1, <1>6, Frame DEF IInv

\* Only an accepted event, hence one that was sent, reaches the ledger.
LEMMA ApplyStep == ASSUME IInv, NEW w \in Worker, Apply(w) PROVE IInv'
<1>1. UNCHANGED <<now, live, configured, sent, network>>
  BY DEF Apply
<1>2. PICK job : job = workers[w] /\ job.at = "answered" /\ job.result.ok /\ Origin(job)
  BY DEF Apply, IInv, WorkersInv
<1>3. PICK event : event = job.result.event
  OBVIOUS
<1>4. Emitted(event)
  BY <1>2, <1>3 DEF Origin, Emitted
<1>5. ledger' \subseteq ledger \union {event} /\ conflicts' \subseteq conflicts \union {event}
  BY <1>2, <1>3 DEF Apply
<1>6. LedgerInv'
  BY <1>1, <1>4, <1>5, Monotone DEF IInv, LedgerInv
<1>7. WorkersInv'
  BY <1>1, IdleInOrder, WorkersStep DEF IInv, Apply
<1>8. ConflictInv'
  <2> SUFFICES ASSUME IdentitiesDiffer, Taken(event) PROVE event \in ledger
    BY <1>2, <1>3 DEF Apply, IInv, ConflictInv, IdentitiesDiffer
  <2>1. PICK other \in ledger : other.id = event.id
    BY DEF Taken
  <2>2. PICK m \in sent, n \in sent : event = EventOf(m.delivery.body) /\ other = EventOf(n.delivery.body)
    BY <1>4, <2>1 DEF Emitted, IInv, LedgerInv
  <2>3. m.delivery.body = n.delivery.body
    BY <2>1, <2>2 DEF EventOf, IdentitiesDiffer, IInv, SentInv
  <2> QED
    BY <2>1, <2>2, <2>3
<1> QED
  BY <1>1, <1>6, <1>7, <1>8, Frame DEF IInv

LEMMA IdleStep == ASSUME IInv, NEW w \in Worker, Refuse(w) \/ Crash(w) PROVE IInv'
<1>1. /\ UNCHANGED <<now, live, configured, sent, network, ledger, conflicts>>
      /\ workers' = [workers EXCEPT ![w] = Idle]
  BY DEF Refuse, Crash
<1>2. WorkersInv'
  BY <1>1, IdleInOrder, WorkersStep DEF IInv
<1> QED
  BY <1>1, <1>2, Frame DEF IInv

LEMMA NextIInv == IInv /\ [Next]_vars => IInv'
<1> SUFFICES ASSUME IInv, [Next]_vars PROVE IInv'
  OBVIOUS
<1>1. CASE UNCHANGED vars
  BY <1>1, Frame DEF IInv, vars
<1>2. CASE Environment
  BY <1>2, ClockAndSecrets, SendStep, NetworkStep DEF Environment
<1>3. CASE \E w \in Worker : Step(w) \/ Crash(w)
  BY <1>3, ReceiveStep, VerifyStep, ApplyStep, IdleStep DEF Step
<1> QED
  BY <1>1, <1>2, <1>3 DEF Next

LEMMA Inductive == Spec => []IInv
BY InitIInv, NextIInv, PTL DEF Spec

\* Every accepted event is one Stripe signed, under the secret the service used
\* and within the tolerance plus the error of its clock when it arrived, whatever
\* the network, the rotation, the crashes and the other workers did.
THEOREM SentBeforeAccepted == Spec => []AcceptedWasSent
<1>1. \A body : EventOf(body).payload = body
  BY DEF EventOf
<1>2. IInv => AcceptedWasSent
  BY <1>1 DEF IInv, WorkersInv, Origin, AcceptedWasSent
<1> QED
  BY Inductive, <1>2, PTL

\* The ledger applies, and sets aside as conflicts, only bodies Stripe emitted.
THEOREM LedgerHoldsEmitted == Spec => []OnlyEmittedBodies
<1>1. IInv => OnlyEmittedBodies
  BY DEF IInv, LedgerInv, SentInv, Emitted, EventOf, OnlyEmittedBodies
<1> QED
  BY Inductive, <1>1, PTL

\* Redeliveries signed at other times and under other secrets, in any order and
\* at any number of workers, are never taken for a conflict when emitted bodies
\* have identities of their own.
THEOREM RedeliveriesAreNoConflict == Spec => []RedeliveryNeverConflicts
<1>1. IInv => RedeliveryNeverConflicts
  BY DEF IInv, ConflictInv, IdentitiesDiffer, RedeliveryNeverConflicts
<1> QED
  BY Inductive, <1>1, PTL

-----------------------------------------------------------------------------
(* The overlap of a rotation.  Every delivery that was sent has the header *)
(* Stripe writes, and every answer is the verdict on what the worker       *)
(* received; the rest is the verdict on such a header.                     *)

Written(m) ==
  /\ m.secrets \subseteq Secret /\ IsFiniteSet(m.secrets) /\ m.time \in I64
  /\ \E order \in Orders(m.secrets) : m.delivery.header = Header(m.time, order, m.delivery.body)

Answered(job) == job.at = "answered" => job.result = StripeVerdict(Arguments(job))

OverlapInv == (\A m \in sent : Written(m)) /\ (\A w \in Worker : Answered(workers[w]))

\* The header of a delivery, part by part: the time, then a signature for each secret.
LEMMA HeaderParts ==
  ASSUME NEW S, S \subseteq Secret, IsFiniteSet(S), NEW order \in Orders(S), NEW time \in I64, NEW body
  PROVE  /\ Header(time, order, body)[1] = [key |-> "t", value |-> ToText(time)]
         /\ 1 \in DOMAIN Header(time, order, body)
         /\ \A j \in DOMAIN Header(time, order, body) : j # 1 => Header(time, order, body)[j].key = "v1"
         /\ \A x \in S : \E j \in DOMAIN Header(time, order, body) :
              Header(time, order, body)[j] = [key |-> "v1", value |-> Hmac(x, ToText(time), body)]
<1> DEFINE T == [key |-> "t", value |-> ToText(time)]
           q == [k \in DOMAIN order |-> [key |-> "v1", value |-> Hmac(order[k], ToText(time), body)]]
           n == Cardinality(S)
           P == {T} \union {q[k] : k \in 1 .. n}
<1>1. n \in Nat /\ order \in [1 .. n -> S] /\ \A x \in S : \E k \in DOMAIN order : order[k] = x
  BY FS_CardinalityType DEF Orders
<1>2. q \in [1 .. n -> P] /\ \A k \in 1 .. n : q[k] = [key |-> "v1", value |-> Hmac(order[k], ToText(time), body)]
  BY <1>1
<1>3. Header(time, order, body) = <<T>> \o q
  BY DEF Header
<1>4. T.key = "t" /\ T \in P
  OBVIOUS
<1> HIDE DEF T, q, n, P
<1>5. q \in Seq(P) /\ Len(q) = n
  BY <1>1, <1>2
<1>6. /\ DOMAIN (<<T>> \o q) = 1 .. n + 1 /\ (<<T>> \o q)[1] = T
      /\ \A j \in 2 .. n + 1 : (<<T>> \o q)[j] = q[j - 1]
  BY <1>1, <1>4, <1>5
<1>7. \A j \in 2 .. n + 1 : j - 1 \in 1 .. n
  BY <1>1
<1>8. \A j \in DOMAIN (<<T>> \o q) : j # 1 => (<<T>> \o q)[j].key = "v1"
  BY <1>1, <1>2, <1>6, <1>7
<1>9. ASSUME NEW x \in S
      PROVE  \E j \in DOMAIN (<<T>> \o q) : (<<T>> \o q)[j] = [key |-> "v1", value |-> Hmac(x, ToText(time), body)]
  <2>1. PICK k \in 1 .. n : order[k] = x
    BY <1>1
  <2>2. k + 1 \in 2 .. n + 1 /\ (k + 1) - 1 = k
    BY <1>1
  <2>3. (<<T>> \o q)[k + 1] = q[k]
    BY <2>2, <1>6
  <2>4. q[k] = [key |-> "v1", value |-> Hmac(x, ToText(time), body)]
    BY <2>1, <1>2
  <2>5. k + 1 \in DOMAIN (<<T>> \o q)
    BY <1>1, <1>6
  <2> QED
    BY <2>3, <2>4, <2>5, Zenon
<1>10. 1 \in DOMAIN (<<T>> \o q)
  BY <1>1, <1>6
<1> QED
  BY <1>3, <1>6, <1>8, <1>9, <1>10 DEF T

\* A delivery that arrived as it was sent is well formed, dated and signed.
LEMMA WrittenVerifies ==
  ASSUME NEW m, Written(m), NEW x \in m.secrets
  PROVE  LET h == m.delivery.header
         IN /\ h # <<>> /\ WellFormed(h) /\ HeaderTime(h) = m.time
            /\ Signed(h, x, m.time, m.delivery.body)
<1> DEFINE h == m.delivery.header
           body == m.delivery.body
<1>1. m.secrets \subseteq Secret /\ IsFiniteSet(m.secrets) /\ m.time \in I64
  BY DEF Written
<1>2. /\ h[1] = [key |-> "t", value |-> ToText(m.time)] /\ 1 \in DOMAIN h
      /\ \A j \in DOMAIN h : j # 1 => h[j].key = "v1"
      /\ \A y \in m.secrets : \E j \in DOMAIN h : h[j] = [key |-> "v1", value |-> Hmac(y, ToText(m.time), body)]
  BY <1>1, HeaderParts DEF Written
<1> HIDE DEF h, body
<1>3. h # <<>>
  BY <1>2
<1>4. TimeParts(h) = {1}
  BY <1>2 DEF TimeParts
<1>5. h[1].key = "t" /\ h[1].value = ToText(m.time) /\ h[1].value.number = m.time
  BY <1>2 DEF ToText
<1>6. h[1].value # Unparsable
  <2>1. ToText(m.time) \in TimeText
    BY <1>1 DEF ToText, TimeText
  <2> QED
    BY <2>1, <1>5, UnparsableAssumption
<1>7. PICK j \in DOMAIN h : h[j] = [key |-> "v1", value |-> Hmac(x, ToText(m.time), body)]
  BY <1>2
<1>8. h[j].key = "v1" /\ h[j].value = Hmac(x, ToText(m.time), body)
  BY <1>7
<1>9. WellFormed(h)
  <2>1. \A k \in DOMAIN h : h[k].key # "no_equals"
    BY <1>2, <1>5
  <2> QED
    BY <2>1, <1>4, <1>6, <1>8 DEF WellFormed
<1>10. HeaderTime(h) = m.time
  BY <1>1, <1>4, <1>5 DEF HeaderTime
<1>11. Signed(h, x, m.time, body)
  BY <1>8 DEF Signed
<1> QED
  BY <1>3, <1>9, <1>10, <1>11 DEF h, body

\* The verdict on a well-formed, signed request refuses it for its age or its event only.
LEMMA SignedVerdict ==
  ASSUME NEW rq, rq.secret # EmptySecret, rq.header # <<>>, WellFormed(rq.header),
         Signed(rq.header, rq.secret, HeaderTime(rq.header), rq.body), ~StripeVerdict(rq).ok
  PROVE  StripeVerdict(rq).error.kind \in {"TimestampOutOfTolerance", "MalformedEvent"}
<1>1. CASE ~InWindow(rq.now, HeaderTime(rq.header), rq.tolerance)
  BY <1>1 DEF StripeVerdict, Err, TimestampError
<1>2. CASE InWindow(rq.now, HeaderTime(rq.header), rq.tolerance)
  BY <1>2 DEF StripeVerdict, from_body, Rejected, Err, Ok
<1> QED
  BY <1>1, <1>2

LEMMA OverlapStep == IInv /\ OverlapInv /\ [Next]_vars => OverlapInv'
<1> SUFFICES ASSUME IInv, OverlapInv, [Next]_vars PROVE OverlapInv'
  OBVIOUS
<1>1. \A job : Answered(job) => Answered(job)'
  BY DEF Answered
<1>2. workers = [w \in Worker |-> workers[w]]
  BY DEF IInv, WorkersInv
<1>3. ASSUME NEW m \in sent' PROVE Written(m)'
  <2>1. CASE m \in sent
    BY <2>1 DEF OverlapInv, Written
  <2>2. CASE m \notin sent
    <3>1. Send
      BY <2>2 DEF Next, Environment, Step, vars, Tick, AddSecret, Reconfigure, RetireSecret, Lose, Garble,
                  Receive, Verify, Apply, Refuse, Crash
    <3>2. PICK body \in Sendable, order \in Orders(live) :
            m = [time |-> now, secrets |-> live, delivery |-> [header |-> Header(now, order, body), body |-> body]]
      BY <2>2, <3>1 DEF Send
    <3>3. now \in I64 /\ live \subseteq Secret /\ IsFiniteSet(live)
      BY ConstantFacts DEF IInv
    <3>4. m.time = now /\ m.secrets = live /\ m.delivery.body = body
          /\ m.delivery.header = Header(now, order, body)
      BY <3>2
    <3> QED
      BY <3>3, <3>4 DEF Written
  <2> QED
    BY <2>1, <2>2
<1>4. ASSUME NEW w \in Worker PROVE Answered(workers[w])'
  <2>1. CASE workers'[w] = workers[w]
    BY <2>1, <1>1 DEF OverlapInv, Answered, Arguments
  <2>2. CASE workers'[w] # workers[w]
    <3>1. PICK v \in Worker : Receive(v) \/ Verify(v) \/ Apply(v) \/ Refuse(v) \/ Crash(v)
      BY <2>2 DEF Next, Environment, Step, vars, Tick, AddSecret, Reconfigure, RetireSecret, Send, Lose, Garble
    <3>2. CASE Receive(v)
      <4>1. workers'[w].at = "received"
        BY <3>2, <2>2, <1>2 DEF Receive
      <4> QED
        BY <4>1 DEF Answered
    <3>3. CASE Verify(v)
      <4>1. PICK job : /\ workers' = [workers EXCEPT ![v] = job]
                       /\ job = [at |-> "answered", delivery |-> workers[v].delivery,
                                 arrived |-> workers[v].arrived, now |-> workers[v].now,
                                 secret |-> workers[v].secret, result |-> StripeVerdict(Arguments(workers[v]))]
        BY <3>3 DEF Verify
      <4>2. workers'[w] = job
        BY <4>1, <2>2, <1>2
      <4>3. Arguments(job) = Arguments(workers[v]) /\ job.result = StripeVerdict(Arguments(workers[v]))
        BY <4>1 DEF Arguments
      <4> QED
        BY <4>2, <4>3 DEF Answered
    <3>4. CASE Apply(v) \/ Refuse(v) \/ Crash(v)
      <4>1. workers'[w].at = "idle"
        BY <3>4, <2>2, <1>2 DEF Apply, Refuse, Crash, Idle
      <4> QED
        BY <4>1 DEF Answered
    <3> QED
      BY <3>1, <3>2, <3>3, <3>4
  <2> QED
    BY <2>1, <2>2
<1> QED
  BY <1>3, <1>4 DEF OverlapInv

\* However often the endpoint's secret is rotated, a delivery that arrives as Stripe
\* signed it is refused only for its age or its event while the service's secret was
\* live when it was signed.
THEOREM OverlapLosesNothing == Spec => []OverlapNeverMismatches
<1>1. Init => OverlapInv
  BY DEF Init, OverlapInv, Answered, Idle
<1>2. Spec => []OverlapInv
  BY <1>1, OverlapStep, Inductive, PTL DEF Spec
<1>3. OverlapInv => OverlapNeverMismatches
  <2> SUFFICES ASSUME OverlapInv, NEW w \in Worker, NEW m \in sent,
                      workers[w].at = "answered", ~workers[w].result.ok,
                      m.delivery = workers[w].delivery, workers[w].secret \in m.secrets
               PROVE  workers[w].result.error.kind \in {"TimestampOutOfTolerance", "MalformedEvent"}
    BY DEF OverlapNeverMismatches
  <2>0. PICK rq : rq = Arguments(workers[w])
    OBVIOUS
  <2>1. /\ rq = Arguments(workers[w])
        /\ rq.secret = workers[w].secret /\ rq.header = m.delivery.header
        /\ rq.body = m.delivery.body
    <3>1. rq.header = workers[w].delivery.header /\ rq.body = workers[w].delivery.body
      BY <2>0 DEF Arguments
    <3>2. rq.secret = workers[w].secret
      BY <2>0 DEF Arguments
    <3> QED
      BY <2>0, <3>1, <3>2
  <2>2. workers[w].result = StripeVerdict(rq)
    BY <2>1 DEF OverlapInv, Answered
  <2>3. Written(m) /\ rq.secret # EmptySecret
    BY <2>1, SecretAssumption DEF OverlapInv, Written
  <2>4. /\ rq.header # <<>> /\ WellFormed(rq.header) /\ HeaderTime(rq.header) = m.time
        /\ Signed(rq.header, rq.secret, m.time, rq.body)
    BY <2>1, <2>3, WrittenVerifies
  <2> QED
    BY <2>2, <2>3, <2>4, SignedVerdict
<1> QED
  BY <1>2, <1>3, PTL

-----------------------------------------------------------------------------
(* The types of the receiver, with the invariant above for the set of live *)
(* secrets, which Stripe's header enumerates.                              *)

\* The verdict is a result, whatever the header.
LEMMA VerdictType ==
  ASSUME NEW rq, rq.body \in Body, rq.tolerance \in U64
  PROVE  StripeVerdict(rq) \in Result
<1>1. \A kind \in {"MissingSignature", "MalformedSignature", "SignatureMismatch",
                   "InvalidInput", "MalformedEvent"} : Rejected(kind) \in Result
  BY DEF Rejected, Err, Result, VerifyError
<1>2. \A skew : LoggedSkew(skew) \in I64
  BY I64Assumption DEF LoggedSkew, I64, I64Min
<1>3. Err(TimestampError(rq.now, HeaderTime(rq.header), rq.tolerance)) \in Result
  BY <1>2 DEF TimestampError, Err, Result, VerifyError
<1>4. from_body("stripe", rq.body) \in Result
  <2>1. CASE HasIdentity(rq.body)
    BY <2>1 DEF from_body, HasIdentity, Ok, Result, Event, Provider
  <2>2. CASE ~HasIdentity(rq.body)
    BY <1>1, <2>2 DEF from_body
  <2>. QED BY <2>1, <2>2
<1>. QED BY <1>1, <1>3, <1>4 DEF StripeVerdict

\* A part more or less, or another body, leaves a delivery a delivery.
LEMMA GarbledType ==
  ASSUME NEW d \in Delivery
  PROVE  /\ \A body \in Garbled : [d EXCEPT !.body = body] \in Delivery
         /\ \A j \in DOMAIN d.header : [d EXCEPT !.header = DropPart(@, j)] \in Delivery
<1>1. d.header \in Seq(Part)
  BY DEF Delivery
<1>2. \A j \in DOMAIN d.header : DropPart(d.header, j) \in Seq(Part)
  BY <1>1, DroppedPart
<1>. QED BY <1>2, SendableAssumption DEF Delivery

\* What is delivered may be anything of its type, and so may what a worker holds.
LEMMA WorkerTypes ==
  ASSUME TypeOK, NEW w \in Worker, NEW job \in WorkerState, workers' = [workers EXCEPT ![w] = job]
  PROVE  workers' \in [Worker -> WorkerState]
BY DEF TypeOK

LEMMA TypeStep == IInv /\ TypeOK /\ [Next]_vars => TypeOK'
<1>. SUFFICES ASSUME IInv, TypeOK, [Next]_vars PROVE TypeOK'
  OBVIOUS
<1>0. Idle \in WorkerState
  BY DEF WorkerState
<1>1. CASE Tick
  BY <1>1, ClockAssumption, I64Assumption DEF Tick, TypeOK, Time
<1>2. CASE AddSecret \/ Reconfigure \/ RetireSecret
  BY <1>2 DEF AddSecret, Reconfigure, RetireSecret, TypeOK
<1>3. CASE Send
  <2>1. PICK body \in Sendable, order \in Orders(live) :
          LET delivery == [header |-> Header(now, order, body), body |-> body]
          IN /\ sent' = sent \union {[time |-> now, secrets |-> live, delivery |-> delivery]}
             /\ network' = network \union {delivery}
    BY <1>3 DEF Send
  <2>2. body \in Body /\ now \in I64 /\ live \subseteq Secret /\ IsFiniteSet(live)
    BY ConstantFacts DEF IInv, TypeOK
  <2>3. Header(now, order, body) \in Seq(Part)
    BY <2>2, WrittenHeader
  <2>4. [header |-> Header(now, order, body), body |-> body] \in Delivery
    BY <2>2, <2>3 DEF Delivery
  <2>. QED BY <1>3, <2>1, <2>4 DEF Send, TypeOK, Sent
<1>4. CASE Lose
  BY <1>4 DEF Lose, TypeOK
<1>5. CASE Garble
  <2>1. network' \subseteq Delivery
    BY <1>5, GarbledType DEF Garble, TypeOK
  <2>. QED BY <1>5, <2>1 DEF Garble, TypeOK
<1>6. CASE \E w \in Worker : Receive(w)
  <2>1. PICK w \in Worker, d \in network, clock \in Time :
          workers' = [workers EXCEPT ![w] =
                        [at |-> "received", delivery |-> d, arrived |-> now, now |-> clock,
                         secret |-> configured]]
    BY <1>6 DEF Receive
  <2>2. [at |-> "received", delivery |-> d, arrived |-> now, now |-> clock, secret |-> configured]
          \in WorkerState
    BY DEF TypeOK, WorkerState
  <2>3. workers' \in [Worker -> WorkerState]
    BY <2>1, <2>2, WorkerTypes
  <2>. QED BY <1>6, <2>3 DEF Receive, TypeOK
<1>7. CASE \E w \in Worker : Verify(w)
  <2>1. PICK w \in Worker : Verify(w)
    BY <1>7
  <2>. DEFINE old == workers[w]
              verdict == StripeVerdict(Arguments(old))
              answer == [at |-> "answered", delivery |-> old.delivery, arrived |-> old.arrived,
                         now |-> old.now, secret |-> old.secret, result |-> verdict]
  <2>2. /\ old \in [at : {"received"}, delivery : Delivery, arrived : Time, now : Time, secret : Secret]
        /\ workers' = [workers EXCEPT ![w] = answer]
    BY <2>1 DEF Verify, TypeOK, WorkerState, Idle
  <2>3. verdict \in Result
    <3>1. PICK rq : rq = Arguments(old) /\ rq.body \in Body /\ rq.tolerance \in U64
      BY <2>2, ToleranceAssumption DEF Arguments, Delivery
    <3>. QED BY <3>1, VerdictType
  <2>4. answer \in WorkerState
    <3>. HIDE DEF verdict, old
    <3>. QED BY <2>2, <2>3 DEF WorkerState
  <2>5. workers' \in [Worker -> WorkerState]
    <3>. HIDE DEF answer
    <3>. QED BY <2>2, <2>4, WorkerTypes
  <2>. QED BY <2>1, <2>5 DEF Verify, TypeOK
<1>8. CASE \E w \in Worker : Apply(w)
  <2>1. PICK w \in Worker : Apply(w)
    BY <1>8
  <2>2. workers[w].result.event \in Event
    <3>1. workers[w].result \in Result /\ workers[w].result.ok
      BY <2>1 DEF Apply, TypeOK, WorkerState, Idle
    <3>. QED BY <3>1 DEF Result
  <2>3. ledger' \subseteq Event /\ conflicts' \subseteq Event
    BY <2>1, <2>2 DEF Apply, TypeOK
  <2>4. workers' \in [Worker -> WorkerState]
    BY <1>0, <2>1, WorkerTypes DEF Apply
  <2>. QED BY <2>1, <2>3, <2>4 DEF Apply, TypeOK
<1>9. CASE \E w \in Worker : Refuse(w) \/ Crash(w)
  <2>1. PICK w \in Worker : workers' = [workers EXCEPT ![w] = Idle]
    BY <1>9 DEF Refuse, Crash
  <2>2. workers' \in [Worker -> WorkerState]
    BY <1>0, <2>1, WorkerTypes
  <2>. QED BY <1>9, <2>2 DEF Refuse, Crash, TypeOK
<1>10. CASE UNCHANGED vars
  BY <1>10 DEF vars, TypeOK
<1>. QED BY <1>1, <1>2, <1>3, <1>4, <1>5, <1>6, <1>7, <1>8, <1>9, <1>10 DEF Next, Environment, Step

\* The types of the receiver: the service is configured with a secret that is live,
\* what the network makes of a delivery can still be parsed or refused, and what a
\* worker holds is a result of the crate.
THEOREM TypeCorrect == Spec => []TypeOK
<1>1. Init => TypeOK
  BY ClockAssumption, I64Assumption DEF Init, TypeOK, Time, WorkerState
<1>. QED BY <1>1, TypeStep, Inductive, PTL DEF Spec
=============================================================================
