SPECIFICATION Spec
CONSTANTS
  Order = {o1, o2}
  Receipt = {r1}
  NoReceipt = NoReceipt
  Stages = {"PROCESSING"}
  MaxWithdrawn = 1
  MaxCopies = 2
  MaxReleases = 2
  MaxMoves = 2
  e1 = e1
  e2 = e2
  Queue <- TwoEntries
  Quantity = {1, 2}
  Book = {b1}
  NoBook = NoBook
  Load = {l1}
  Tabs = {"WAITING", "CANCELLED"}
  MaxRelease = 2
  MaxTurns = 2
  MaxChanges = 2
  Title = {o1, o2}
  NoTitle = NoTitle
  Clerk = {p1, p2}
  MaxPrint = 1
  MaxEdits = 1
  Review = {o1, o2}
  NoReview = NoReview
  ReviewTabs = {"PENDING", "APPROVED"}
  MaxActs = 2
  Manager = {p1, p2}
  Nobody = Nobody
  Shelf = {o1}
  MaxTyped = 1
  MaxClock = 2
SYMMETRY Symmetry
INVARIANTS WellFormed OnePaidOrderPerReceipt BatchTicksAreShown CatalogueIsSound TheLogTellsTheRow
PROPERTIES AutoGrantsWerePaid TheShelfIsAsDrawn WavesKeepTheQueue VerdictsStand
CHECK_DEADLOCK FALSE
