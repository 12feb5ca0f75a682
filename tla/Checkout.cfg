SPECIFICATION Spec
CONSTANTS
  b1 = b1
  b2 = b2
  k1 = k1
  k2 = k2
  k3 = k3
  e1 = e1
  Worker = {w1, w2}
  Book = {b1, b2}
  Key = {k1, k2, k3}
  Entry = {e1}
  NoEntry = NoEntry
  Request <- All
  NoRequest = NoRequest
  Wants <- TwoOfA
  MaxUses = 1
  MaxLine = 2
  MaxStock = 2
  MaxEvents = 4
INVARIANTS CheckoutTypeOK HoldsAreCovered CardReadsTheHistory
PROPERTIES IsATill NobodyWaitsForever
