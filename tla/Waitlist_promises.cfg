SPECIFICATION Spec
CONSTANTS
  Entry = {e1, e2}
  e1 = e1
  e2 = e2
  Quantity <- TwoAndOne
  Release = {r1, r2}
  Order = {o1}
  Worker = {w1}
  NoRelease = NoRelease
  NoOrder = NoOrder
  NoEntry = NoEntry
  MaxStock = 2
  MaxRelease = 2
  MaxBuy = 2
  Excuses <- AllExcuses
SYMMETRY ButEntries
CONSTRAINT Unexcused
INVARIANTS InviteesAreAdmitted NoReleaseIsOverdrawn
