\* Three changes of two levels, up to three updates, three receive times.
CONSTANTS
  Levels = {l1, l2}
  MaxQty = 1
  MaxChanges = 3
  MaxDeliveries = 3
  MaxStaleness = 1
  SendsPrevious = TRUE
  NoId = NoId
SYMMETRY LevelSymmetry
SPECIFICATION Spec
INVARIANTS
  TypeOK
  BookIsVenueBook
  ResyncIffGap
  ReadersAgree
