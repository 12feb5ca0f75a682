SPECIFICATION Spec
CONSTANTS
  Order = {o1, o2}
  Book = {b1}
  Worker = {w1, w2}
  Cart <- OneReceipt
  Key = {k1, k2}
  Receipt = {r1}
  k1 = k1
  k2 = k2
  b1 = b1
  r1 = r1
  NoReceipt = NoReceipt
  NoOrder = NoOrder
  NoCart = NoCart
  Printed <- TwoCopies
  MaxHistory = 3
  MaxWithheld = 1
SYMMETRY WorkersAndOrders
INVARIANTS ClaimsAreExclusive CopiesAreConserved
