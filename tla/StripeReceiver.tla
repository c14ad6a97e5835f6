--------------------------- MODULE StripeReceiver ---------------------------
(***************************************************************************)
(* stripe::verify between the parties it stands between: Stripe, which     *)
(* signs an event afresh whenever it sends it again; a network that loses, *)
(* repeats, delays, reorders and garbles deliveries; a service whose       *)
(* workers read the clock and the configured secret when a request         *)
(* arrives, verify it later and hand what is accepted to the billing       *)
(* ledger; the rotation of the endpoint secret while all of this runs; and *)
(* crashes of workers.                                                     *)
(*                                                                         *)
(* Only the decision is this crate's; Stripe, the network, the worker      *)
(* around the call and the ledger are external and are modelled from what  *)
(* the crate's documentation says of them.                                 *)
(***************************************************************************)
EXTENDS StripeSignature, FiniteSets

CONSTANTS Worker,     \* threads or tasks that handle requests
          Sendable,   \* the bodies Stripe emits
          Garbled,    \* what transmission may turn a body into
          Tolerance,  \* tolerance_secs
          ClockSkew,  \* how far the service's clock may be from Stripe's
          MaxTime,    \* bound on the clock
          MaxSent     \* bound on the deliveries Stripe signs

ASSUME SendableAssumption  == Sendable \subseteq Body /\ Garbled \subseteq Body
ASSUME ToleranceAssumption == Tolerance \in U64
ASSUME ClockAssumption     == ClockSkew \in Nat /\ MaxTime \in 0 .. I64Max

VARIABLES now,         \* Stripe's clock, in seconds
          live,        \* the endpoint's secrets at Stripe: two while a rotation overlaps
          configured,  \* the secret the service is configured with
          sent,        \* every signed delivery so far, with its time and secrets
          network,     \* deliveries that may still arrive, once or more often
          workers,     \* what each worker is doing
          ledger,      \* the events whose billing effect was applied
          conflicts    \* the events the ledger refused because their identity was taken

vars == <<now, live, configured, sent, network, workers, ledger, conflicts>>

Time == 0 .. MaxTime

Delivery == [header : Seq(Part), body : Body]

Sent == [time : Time, secrets : SUBSET Secret, delivery : Delivery]

Idle == [at |-> "idle"]

WorkerState ==
  {Idle}
    \union [at : {"received"}, delivery : Delivery, arrived : Time, now : Time, secret : Secret]
    \union [at : {"answered"}, delivery : Delivery, arrived : Time, now : Time, secret : Secret,
            result : Result]

\* The header Stripe writes: the time, and one v1 value for each live secret, in
\* any order.
Header(time, order, body) ==
  <<[key |-> "t", value |-> ToText(time)]>>
    \o [k \in DOMAIN order |-> [key |-> "v1", value |-> Hmac(order[k], ToText(time), body)]]

Orders(S) == {order \in [1 .. Cardinality(S) -> S] : \A x \in S : \E k \in DOMAIN order : order[k] = x}

Init ==
  /\ now = 0
  /\ live \in {{x} : x \in Secret}
  /\ configured \in live
  /\ sent = {}
  /\ network = {}
  /\ workers = [w \in Worker |-> Idle]
  /\ ledger = {}
  /\ conflicts = {}

Tick ==
  /\ now < MaxTime
  /\ now' = now + 1
  /\ UNCHANGED <<live, configured, sent, network, workers, ledger, conflicts>>

\* A rotation: a second secret goes live, the service switches to it, and the
\* first expires once the service no longer uses it.
AddSecret ==
  /\ Cardinality(live) = 1
  /\ \E x \in Secret \ live : live' = live \union {x}
  /\ UNCHANGED <<now, configured, sent, network, workers, ledger, conflicts>>

\* Mutant of Reconfigure: the service switches to a secret that is not live yet.
Reconfigure_early ==
  /\ configured' \in Secret \ {configured}
  /\ UNCHANGED <<now, live, sent, network, workers, ledger, conflicts>>

Reconfigure ==
  /\ configured' \in live \ {configured}
  /\ UNCHANGED <<now, live, sent, network, workers, ledger, conflicts>>

RetireSecret ==
  /\ live # {configured}
  /\ live' = {configured}
  /\ UNCHANGED <<now, configured, sent, network, workers, ledger, conflicts>>

\* Stripe sends an event, or sends it again: every attempt is signed anew.
Send ==
  /\ Cardinality(sent) < MaxSent
  /\ \E body \in Sendable, order \in Orders(live) :
       LET delivery == [header |-> Header(now, order, body), body |-> body]
       IN /\ sent' = sent \union {[time |-> now, secrets |-> live, delivery |-> delivery]}
          /\ network' = network \union {delivery}
  /\ UNCHANGED <<now, live, configured, workers, ledger, conflicts>>

\* The network drops a delivery, or garbles it, once: another body under its
\* header, or the header without one of its parts.
Lose ==
  /\ \E d \in network : network' = network \ {d}
  /\ UNCHANGED <<now, live, configured, sent, workers, ledger, conflicts>>

DropPart(header, j) == SubSeq(header, 1, j - 1) \o SubSeq(header, j + 1, Len(header))

Garble ==
  /\ \E d \in network \intersect {m.delivery : m \in sent} :
       \/ \E body \in Garbled : network' = (network \ {d}) \union {[d EXCEPT !.body = body]}
       \/ \E j \in DOMAIN d.header :
            network' = (network \ {d}) \union {[d EXCEPT !.header = DropPart(@, j)]}
  /\ UNCHANGED <<now, live, configured, sent, workers, ledger, conflicts>>

\* A request arrives; the delivery stays in the network, so it may arrive again.
\* The worker reads its clock and the configuration now, and uses them later.
Receive(w) ==
  /\ workers[w] = Idle
  /\ \E d \in network, clock \in Time :
       /\ Abs(clock - now) <= ClockSkew
       /\ workers' = [workers EXCEPT ![w] =
                        [at |-> "received", delivery |-> d, arrived |-> now, now |-> clock,
                         secret |-> configured]]
  /\ UNCHANGED <<now, live, configured, sent, network, ledger, conflicts>>

Arguments(job) ==
  [secret |-> job.secret, header |-> job.delivery.header, body |-> job.delivery.body,
   now |-> job.now, tolerance |-> Tolerance]

\* stripe::verify, with what the worker read when the request arrived.
Verify(w) ==
  /\ workers[w].at = "received"
  /\ workers' = [workers EXCEPT ![w] =
                   [at |-> "answered", delivery |-> workers[w].delivery, arrived |-> workers[w].arrived,
                    now |-> workers[w].now, secret |-> workers[w].secret,
                    result |-> StripeVerdict(Arguments(workers[w]))]]
  /\ UNCHANGED <<now, live, configured, sent, network, ledger, conflicts>>

Taken(event) == \E e \in ledger : e.provider = event.provider /\ e.id = event.id

\* The ledger's transaction: an identity it has not seen is applied, an identical
\* redelivery is nothing, anything else is a conflict without an effect.
Apply(w) ==
  /\ workers[w].at = "answered"
  /\ workers[w].result.ok
  /\ LET event == workers[w].result.event
     IN /\ ledger' = IF Taken(event) THEN ledger ELSE ledger \union {event}
        /\ conflicts' = IF Taken(event) /\ event \notin ledger THEN conflicts \union {event}
                        ELSE conflicts
  /\ workers' = [workers EXCEPT ![w] = Idle]
  /\ UNCHANGED <<now, live, configured, sent, network>>

Refuse(w) ==
  /\ workers[w].at = "answered"
  /\ ~workers[w].result.ok
  /\ workers' = [workers EXCEPT ![w] = Idle]
  /\ UNCHANGED <<now, live, configured, sent, network, ledger, conflicts>>

Crash(w) ==
  /\ workers[w] # Idle
  /\ workers' = [workers EXCEPT ![w] = Idle]
  /\ UNCHANGED <<now, live, configured, sent, network, ledger, conflicts>>

Environment == Tick \/ AddSecret \/ Reconfigure \/ RetireSecret \/ Send \/ Lose \/ Garble

Step(w) == Receive(w) \/ Verify(w) \/ Apply(w) \/ Refuse(w)

Next == Environment \/ \E w \in Worker : Step(w) \/ Crash(w)

Spec == Init /\ [][Next]_vars

-----------------------------------------------------------------------------
\* Types; in particular the service is always configured with a live secret.
TypeOK ==
  /\ now \in Time
  /\ live \subseteq Secret
  /\ configured \in live
  /\ sent \subseteq Sent
  /\ network \subseteq Delivery
  /\ workers \in [Worker -> WorkerState]
  /\ ledger \subseteq Event
  /\ conflicts \subseteq Event

\* Whatever happened on the way, an accepted event is one Stripe signed: its body
\* is the body of an earlier delivery, signed under the secret the service used,
\* and when it arrived that signature was no further away in time than the
\* tolerance and the error of the service's clock together.
AcceptedWasSent ==
  \A w \in Worker :
    (workers[w].at = "answered" /\ workers[w].result.ok) =>
      \E m \in sent : /\ m.delivery.body = workers[w].result.event.payload
                      /\ workers[w].secret \in m.secrets
                      /\ Abs(workers[w].arrived - m.time) <= Tolerance + ClockSkew

\* The ledger holds, and refuses as conflicts, only bodies Stripe emitted.
OnlyEmittedBodies ==
  \A event \in ledger \union conflicts :
    event.payload \in Sendable /\ \E m \in sent : m.delivery.body = event.payload

\* If no two emitted bodies share an identity, redeliveries signed at other times
\* and under other secrets, in any order and at any number of workers, are never
\* taken for a conflict ("An identical authenticated redelivery is a no-op").
RedeliveryNeverConflicts ==
  (\A b1, b2 \in Sendable : b1.id = b2.id => b1 = b2) => conflicts = {}

\* A delivery that reached the worker as Stripe signed it is never refused for its
\* signature while the service's secret was live at Stripe when it was signed: the
\* overlap of a rotation loses nothing.
OverlapNeverMismatches ==
  \A w \in Worker :
    (workers[w].at = "answered" /\ ~workers[w].result.ok
       /\ \E m \in sent : m.delivery = workers[w].delivery /\ workers[w].secret \in m.secrets)
    => workers[w].result.error.kind \in {"TimestampOutOfTolerance", "MalformedEvent"}

=============================================================================
