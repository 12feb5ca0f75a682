SPECIFICATION Spec
CONSTANTS
  Text = {t1}
  NoText = NoText
  Call = {c1, c2}
  MaxChanges = 2
  Parcel = {o1}
  o1 = o1
  Filters <- OneOrder
  Load = {l1, l2}
  MaxMoves = 2
INVARIANTS WellFormed ReportedShippedIsShipped RouteIsRight 
PROPERTIES AnswersShowTheAction ReasonsAreKept WhatBeginsEnds
CHECK_DEADLOCK FALSE
