SPECIFICATION ListingSpec
CONSTANTS
  MaxRows = 4
  MaxTime = 2
  Limits = {1, 2}
  MaxAge = 1
  MaxEvents = 2
INVARIANTS ListingTypeOK PagesAreExact NeverPrunedEarly
CHECK_DEADLOCK FALSE
