SPECIFICATION Spec
CONSTANTS
  MaxCaptures = 2
  Graphs <- OneStateChanged
INVARIANTS VerdictExact PassIsClosed CountsAreExact CodeLifecyclePasses
PROPERTY Terminates
\* the explorer passes or panics
CHECK_DEADLOCK FALSE
