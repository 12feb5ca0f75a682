SPECIFICATION PaymentsSpec
CONSTANTS
  Order = {o1}
  Book = {b1}
  Worker = {w1, w2}
  Cart <- OneCart
  Key = {k1}
  Receipt = {}
  k1 = k1
  b1 = b1
  NoReceipt = NoReceipt
  NoOrder = NoOrder
  NoCart = NoCart
  Printed <- OneCopy
  MaxHistory = 5
  MaxWithheld = 1
  Roles = {"desk", "packing"}
  Outcomes = {"SUCCEEDED", "FAILED"}
  MayCrash = TRUE
SYMMETRY Workers
INVARIANTS RowsAreSound PackersOnlyGoForward OrdersInv
PROPERTIES VoidsWithTheWithdrawal LedgerSpec
