SPECIFICATION Spec
CONSTANTS
  r1 = r1
  r2 = r2
  us = us
  jp = jp
  Maintain = Maintain
  NoOne = NoOne
  Requests <- OneRequest
  Countries <- TwoCountries
  AsksFor <- AnyCountry
  MaxConns = 1
  MaxStandby = 1
  ChanCap = 1
  MaxSessions = 2
  GeoReports = FALSE
  Drift = FALSE
  Disconnects = FALSE
  Cycles = TRUE
  Rewrites = TRUE
INVARIANTS
  EnableTakesEffect
