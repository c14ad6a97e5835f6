SPECIFICATION Spec
INVARIANT TypeOK
INVARIANT authentication_safety
PROPERTY RejectedNeverConsumed
PROPERTY DecisionFinal
