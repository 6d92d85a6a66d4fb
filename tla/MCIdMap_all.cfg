SPECIFICATION Spec
CONSTANTS
  p1 = p1
  p2 = p2
  nobody = nobody
  Starts = {p1, p2}
  NoOne = nobody
  MaxKills = 2
INVARIANTS TypeOK MapsAreMade
PROPERTIES NobodyWaitsForEver
CHECK_DEADLOCK FALSE
