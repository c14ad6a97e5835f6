SPECIFICATION Spec
CONSTANTS
  Text = {e1, paid}
  e1 = e1
  paid = paid
  Absent = Absent
  NotString = NotString
  Rest = {r1, r2}
  r1 = r1
  r2 = r2
  I64Max = 3
  Secret = {s1, s2}
  s1 = s1
  s2 = s2
  EmptySecret = EmptySecret
  Unparsable = Unparsable
  NotDigest = NotDigest
  NoValue = NoValue
  Worker = {w1, w2}
  Sendable <- OneBody
  Garbled <- GarbledBodies
  Tolerance = 0
  ClockSkew = 1
  MaxTime = 2
  MaxSent = 2
SYMMETRY Alike
CONSTRAINT OneThingAtATime
INVARIANTS TypeOK OverlapNeverMismatches AcceptedWasSent OnlyEmittedBodies RedeliveryNeverConflicts
\* the clock, the deliveries and the rotation are bounded
CHECK_DEADLOCK FALSE
