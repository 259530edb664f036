SPECIFICATION Spec
CONSTANTS
  m = m
  c1 = c1
  Monitor = m
  Creators <- OneCreator
  Buffer = 1
  Lifetime = 2
  MaxTime = 3
  MaxLogin = 2
  MaxSerial = 3
PROPERTY
  ExpiredSkipped
