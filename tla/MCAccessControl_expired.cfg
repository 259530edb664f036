SPECIFICATION Spec
CONSTANTS
  Calls = {c1, c2}
  Addresses <- McAddresses
  Typed <- McTyped
  Lans <- McLans
  MaxIds <- McMaxIds
  MaxShown = 1
  Overlap = FALSE
SYMMETRY AnyCall
INVARIANTS ExpiredBanEnds
