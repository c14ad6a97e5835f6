-------------------- MODULE ProviderVerification_proofs --------------------
(***************************************************************************)
(* authentication_safety is inductive, from the initial states of the      *)
(* Quint model and from any received state alike, so both specifications   *)
(* of the boundary have it; and with StripeImplementsBoundary and          *)
(* PaypalImplementsBoundary so do the two verifiers, through the mapping.  *)
(***************************************************************************)
EXTENDS ProviderVerification, TLAPS

Inv == TypeOK /\ authentication_safety

LEMMA ReceivedInv ==
  ASSUME NEW provider \in PROVIDERS, NEW valid \in [GATES -> BOOLEAN],
         s = Received(provider, valid)
  PROVE  Inv
BY DEF Received, Inv, TypeOK, State, PHASES, authentication_safety

LEMMA StepInv == Inv /\ [step]_s => Inv'
<1>. SUFFICES ASSUME Inv, [step]_s PROVE Inv'
  OBVIOUS
<1>. USE DEF Inv, TypeOK, State, PHASES, authentication_safety, verification_inputs_valid
<1>1. CASE \E gate \in GATES : invalidate(gate)
  BY <1>1 DEF invalidate
<1>2. CASE verify
  <2>. DEFINE mid == [s EXCEPT !.phase = "verified"]
  <2>0. mid \in State /\ s' = [mid EXCEPT !.outputs = 1]
    BY <1>2 DEF verify
  <2>1. s' \in State
    <3>. HIDE DEF mid
    <3>. QED BY <2>0
  <2>2. s'.phase = "verified" /\ s'.outputs = 1 /\ s'.consumes = s.consumes /\ s'.valid = s.valid
        /\ s'.provider = s.provider
    BY <1>2 DEF verify
  <2>3. authentication_safety'
    BY <1>2, <2>2 DEF verify
  <2>. QED BY <2>1, <2>3
<1>3. CASE reject
  BY <1>3 DEF reject
<1>4. CASE consume
  <2>1. s' \in State
    BY <1>4 DEF consume
  <2>2. s'.phase = "consumed" /\ s'.consumes = 1 /\ s'.outputs = s.outputs /\ s'.valid = s.valid
        /\ s'.provider = s.provider
    BY <1>4 DEF consume
  <2>3. authentication_safety'
    BY <1>4, <2>2 DEF consume
  <2>. QED BY <2>1, <2>3
<1>5. CASE close
  BY <1>5 DEF close
<1>6. CASE s' = s
  BY <1>6
<1>. QED BY <1>1, <1>2, <1>3, <1>4, <1>5, <1>6 DEF step, retry, idle

\* authentication_safety holds of the boundary whatever gates the input fails.
THEOREM BoundarySafe == SpecAnyGates => [](TypeOK /\ authentication_safety)
<1>1. InitAnyGates => Inv
  BY ReceivedInv DEF InitAnyGates
<1>. QED BY <1>1, StepInv, PTL DEF SpecAnyGates, Inv

\* ... and of the Quint model, which starts with every gate valid.
THEOREM QuintSafe == Spec => [](TypeOK /\ authentication_safety)
<1>1. init => Inv
  <2>1. [gate \in GATES |-> TRUE] \in [GATES -> BOOLEAN]
    OBVIOUS
  <2>. QED BY <2>1, ReceivedInv DEF init
<1>. QED BY <1>1, StepInv, PTL DEF Spec, Inv

\* The types of the Quint model by themselves: no counter ever leaves 0 .. 1.
THEOREM TypeCorrect == Spec => []TypeOK
BY QuintSafe, PTL

\* A recorded decision does not move.
THEOREM DecisionsAreFinal == Spec => DecisionFinal
<1>1. Inv /\ [step]_s => [s.phase # "received" => s'.valid = s.valid /\ s'.outputs = s.outputs]_s
  <2>. SUFFICES ASSUME Inv, step, s.phase # "received"
                PROVE  s'.valid = s.valid /\ s'.outputs = s.outputs
    OBVIOUS
  <2>. USE DEF Inv, TypeOK, State
  <2>1. CASE consume
    BY <2>1 DEF consume
  <2>2. CASE close
    BY <2>2 DEF close
  <2>. QED BY <2>1, <2>2 DEF step, invalidate, verify, reject, retry, idle
<1>. QED BY <1>1, QuintSafe, PTL DEF Spec, DecisionFinal, Inv

\* Without an output, an input that was rejected stays rejected until it is closed.
Refused == s \in State /\ s.phase \in {"rejected", "closed"} /\ s.outputs = 0 /\ s.consumes = 0

\* A rejected input is never consumed, at no later step.
THEOREM RejectionIsFinal == Spec => RejectedNeverConsumed
<1>1. Inv => (s.phase = "rejected" => Refused)
  BY DEF Inv, TypeOK, authentication_safety, Refused
<1>2. Refused /\ [step]_s => Refused'
  <2>. SUFFICES ASSUME Refused, [step]_s PROVE Refused'
    OBVIOUS
  <2>1. CASE close
    BY <2>1 DEF close, Refused, State, PHASES
  <2>. QED BY <2>1 DEF Refused, step, invalidate, verify, reject, consume, retry, idle
<1>3. Refused => s.outputs = 0 /\ s.consumes = 0
  BY DEF Refused
<1>. QED BY <1>1, <1>2, <1>3, QuintSafe, PTL DEF Spec, RejectedNeverConsumed, Inv
=============================================================================
