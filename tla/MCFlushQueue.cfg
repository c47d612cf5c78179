SPECIFICATION FairSpec
CONSTANTS
  p = p
  g = g
  x = x
  h1 = h1
  h2 = h2
  Ref = {p, g, x}
  Present = {p, g}
  Blocked = {p}
  Hook = {h1, h2}
  MaxConsecutive = 1
  MaxLines = 3
INVARIANTS TypeOK HeldUntilLanded
PROPERTIES HealthyRefLands
