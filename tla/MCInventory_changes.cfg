SPECIFICATION FairSpec
CONSTANTS
  v1 = v1
  NoRow = NoRow
  Asset = {1, 2}
  Day <- FourDays
  Vendor = {v1}
  Window = {w1}
  Booking = {b1}
  Client = {c1}
  AssetData <- Departures
  WindowData <- Windows
  BookingData <- Stays
  Query <- Filtered
  Limit = {1, 2}
  MAX_PAGE_LIMIT = 1
  MaxTime = 0
  TxnSpan = 1
INVARIANTS
  NothingSkippedNorInvented
  DateFilterAgreesWithConstraint
PROPERTIES
  DeliveredIsOnOffer
  TraversalEnds
