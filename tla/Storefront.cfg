SPECIFICATION Spec
CONSTANTS
  a = a
  b = b
  inside = inside
  outside = outside
  Book = {a, b}
  Zone = {inside, outside}
  NoZone = NoZone
  NoQuote = NoQuote
  NoReceipt = NoReceipt
  Invited = a
  Prices = {1, 2}
  Flat = 2
  Threshold = 2
  FirstZone = inside
  MaxQuantity = 1
  MaxEdits = 1
  MaxQuotes = 1
  MaxPresses = 2
INVARIANTS TransferIsTheTotal ReceiptsAreSound
PROPERTIES OnlyTheBoughtIsCleared EveryPressIsAnswered
