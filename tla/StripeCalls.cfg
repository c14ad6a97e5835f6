SPECIFICATION Spec
CONSTANTS
  Text = {evt, invoice_paid}
  eventId = evt
  eventType = invoice_paid
  Absent = Absent
  NotString = NotString
  Rest = {r1}
  r1 = r1
  Secret = {s1, s2}
  s1 = s1
  s2 = s2
  EmptySecret = EmptySecret
  Unparsable = Unparsable
  NotDigest = NotDigest
  NoValue = NoValue
  None = None
  I64Max = 3
  MaxParts = 3
  Requests <- AllRequests
INVARIANTS TypeOK VerdictCorrect LoggedSkewFaithful
PROPERTIES ImplementsBoundary 
\* a call that returned, and whose event was consumed or refused, is over
CHECK_DEADLOCK FALSE
