----------------------- MODULE ProviderVerification -----------------------
(***************************************************************************)
(* The verification boundary as the repository specifies it, translated    *)
(* from formal/provider_verification.qnt: one logical provider input, the  *)
(* five authentication gates it passes or fails, the verdict and whether   *)
(* the caller consumed it.  StripeVerify and PaypalVerify are shown to     *)
(* implement it.                                                           *)
(***************************************************************************)
EXTENDS Naturals

PHASES    == {"received", "verified", "rejected", "consumed", "closed"}
PROVIDERS == {"stripe", "paypal"}
GATES     == {"configuration", "envelope", "provenance", "signature", "event"}

VARIABLE s

State == [phase : PHASES, provider : PROVIDERS, valid : [GATES -> BOOLEAN],
          outputs : 0..1, consumes : 0..1]

verification_inputs_valid(state) ==
  state.provider \in PROVIDERS /\ \A gate \in GATES : state.valid[gate]

Received(provider, valid) ==
  [phase |-> "received", provider |-> provider, valid |-> valid,
   outputs |-> 0, consumes |-> 0]

init == \E provider \in PROVIDERS : s = Received(provider, [gate \in GATES |-> TRUE])

\* The received states: what init and invalidate make of one another.
InitAnyGates ==
  \E provider \in PROVIDERS, valid \in [GATES -> BOOLEAN] : s = Received(provider, valid)

\* Mutant: a gate may fail after the decision.
invalidate_late(gate) == s' = [s EXCEPT !.valid[gate] = FALSE]

invalidate(gate) ==
  /\ s.phase = "received"
  /\ s' = [s EXCEPT !.valid[gate] = FALSE]

\* Mutant: the signature is not looked at.
verify_unsigned ==
  /\ s.phase = "received"
  /\ \A gate \in GATES \ {"signature"} : s.valid[gate]
  /\ s' = [s EXCEPT !.phase = "verified", !.outputs = 1]

verify ==
  /\ s.phase = "received"
  /\ verification_inputs_valid(s)
  /\ s' = [s EXCEPT !.phase = "verified", !.outputs = 1]

reject ==
  /\ s.phase = "received"
  /\ ~verification_inputs_valid(s)
  /\ s' = [s EXCEPT !.phase = "rejected"]

\* Mutants: a rejected input is consumed; a consumed value is consumed again.
consume_rejected ==
  /\ s.phase \in {"verified", "rejected"}
  /\ s.consumes = 0
  /\ s' = [s EXCEPT !.phase = "consumed", !.consumes = 1]

consume_again ==
  /\ s.phase \in {"verified", "consumed"}
  /\ s' = [s EXCEPT !.phase = "consumed", !.consumes = @ + 1]

consume ==
  /\ s.phase = "verified"
  /\ s.outputs = 1
  /\ s.consumes = 0
  /\ s' = [s EXCEPT !.phase = "consumed", !.consumes = 1]

retry ==
  /\ s.phase \in {"verified", "rejected", "consumed"}
  /\ s' = s

close ==
  /\ s.phase # "closed"
  /\ s' = [s EXCEPT !.phase = "closed"]

idle == s' = s

step == (\E gate \in GATES : invalidate(gate)) \/ verify \/ reject \/ consume \/ retry \/ close \/ idle

Spec == init /\ [][step]_s

\* The same machine seen once its gates have settled: the specification the
\* two verifiers implement, whose input arrives with its gates already decided.
SpecAnyGates == InitAnyGates /\ [][step]_s

-----------------------------------------------------------------------------
\* The record has the shape the Quint type State gives it, with the counters
\* bounded by one as authentication_safety bounds them.
TypeOK == s \in State

\* authentication_safety of the Quint model: a verdict exists only for an input
\* whose gates all hold, a consumption only of a verdict, and neither for an
\* input that was never decided or was rejected.
authentication_safety ==
  /\ s.consumes <= s.outputs
  /\ s.outputs = 1 => /\ verification_inputs_valid(s)
                      /\ s.phase \in {"verified", "consumed", "closed"}
  /\ s.consumes = 1 => s.phase \in {"consumed", "closed"}
  /\ s.phase \in {"received", "rejected"} => s.outputs = 0 /\ s.consumes = 0

\* "A rejected input cannot be consumed" (formal/README.md): not at the step of
\* the rejection and not at any later one.
RejectedNeverConsumed == [](s.phase = "rejected" => [](s.outputs = 0 /\ s.consumes = 0))

\* A recorded decision does not move: after it neither the gates nor the verdict
\* change, whatever retry, close or idle does ("retries after a recorded
\* decision do not change that decision").
DecisionFinal ==
  [][s.phase # "received" => s'.valid = s.valid /\ s'.outputs = s.outputs]_s
=============================================================================
