SPECIFICATION Spec
CONSTANTS
  Text = {evt, completed}
  eventId = evt
  eventType = completed
  Absent = Absent
  NotString = NotString
  Rest = {r1, r2}
  r1 = r1
  r2 = r2
  Token = {a, b, w}
  a = a
  b = b
  w = w
  Bar = Bar
  Checksum = {crc1, crc2}
  crc1 = crc1
  crc2 = crc2
  Crc <- CrcValue
  Key = {k1, k2}
  k1 = k1
  k2 = k2
  NotBase64 = NotBase64
  NotRsaSignature = NotRsaSignature
  NotACertificate = NotACertificate
  NotAnRsaKey = NotAnRsaKey
  NotAUrl = NotAUrl
  Label = {"api", "paypal", "com", "notpaypal", "example"}
  None = None
  Requests <- AllRequests
INVARIANTS TypeOK BindsEveryField
PROPERTY ImplementsBoundary
\* a call that returned, and whose event was consumed or refused, is over
CHECK_DEADLOCK FALSE
