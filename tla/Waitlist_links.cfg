SPECIFICATION Spec
CONSTANTS
  Entry = {e1}
  e1 = e1
  e2 = e2
  Quantity <- OneEach
  Release = {r1}
  Order = {o1, o2}
  Worker = {w1}
  NoRelease = NoRelease
  NoOrder = NoOrder
  NoEntry = NoEntry
  MaxStock = 2
  MaxRelease = 3
  MaxBuy = 1
  Excuses <- NoExcuses
SYMMETRY All
INVARIANT LinksAreSound
