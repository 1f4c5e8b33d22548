CONSTANTS
  Chars <- MCChars
  A = A
  C = C
  Space = Space
  HelloLine <- MCHello
  ClearLine <- MCClear
  ConsoleCap = 9
  NL = NL
  BS = BS
  Ack = Ack
  QCap = 2
  LineCap = 2
  MaxKeys = 4
  MaxPackets = 1
SPECIFICATION Spec
INVARIANTS TypeOK LineDelivered
CHECK_DEADLOCK FALSE
