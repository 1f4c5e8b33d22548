CONSTANTS
  Chars <- MCChars
  A = A
  C = C
  Space = Space
  HelloLine <- MCHello
  ClearLine <- MCClear
  ConsoleCap = 9
  NL = NL
  BS = BS
  Ack = Ack
  QCap = 2
  LineCap = 1
  MaxKeys = 3
  MaxPackets = 1
SPECIFICATION Spec
INVARIANT MousePacketsAligned
CHECK_DEADLOCK FALSE
