SPECIFICATION RollupSpec
CONSTANTS
  Order = {o1}
  Book = {b1}
  Worker = {w1, w2}
  Cart <- OneCart
  Key = {k1}
  Receipt = {}
  k1 = k1
  b1 = b1
  NoReceipt = NoReceipt
  NoOrder = NoOrder
  NoCart = NoCart
  Printed <- OneCopy
  MaxHistory = 4
  MaxWithheld = 1
  MaxReconciles = 1
  Excuses <- Hazards
SYMMETRY Workers
INVARIANT RollupIsExact
