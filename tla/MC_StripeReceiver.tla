------------------------- MODULE MC_StripeReceiver -------------------------
(***************************************************************************)
(* A small Stripe receiver: one event, a body with its identity and other  *)
(* contents that transmission may put in its place, and secrets to rotate  *)
(* between.                                                                *)
(***************************************************************************)
EXTENDS StripeReceiver, TLC

CONSTANTS e1, paid, r1, r2

B1 == [json |-> TRUE, id |-> e1, type |-> paid, event_type |-> Absent, rest |-> r1]
SameIdentity == [B1 EXCEPT !.rest = r2]

OneBody       == {B1}
GarbledBodies == {SameIdentity}

\* What is explored: everything while one secret is in use; over a rotation, one worker
\* at a time, a clock that has not moved since the request came, and no garbling.
OneThingAtATime ==
  \/ Cardinality(live \union UNION {m.secrets : m \in sent}) = 1
  \/ /\ now <= 1
     /\ Cardinality({w \in Worker : workers[w] # Idle}) <= 1
     /\ network \subseteq {m.delivery : m \in sent}
     /\ \A w \in Worker : workers[w].at = "idle" \/ workers[w].now = workers[w].arrived

Alike == Permutations(Worker) \union Permutations(Secret)
=============================================================================
