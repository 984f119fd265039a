SPECIFICATION MarketSpec
CONSTANTS
  v1 = v1
  NoRow = NoRow
  NoBooking = NoBooking
  Asset = {1}
  Day <- ThreeDays
  Vendor = {v1}
  Window = {}
  Booking = {b1, b2}
  Client = {c1}
  AssetData <- OneListing
  WindowData <- NoData
  BookingData <- Rows
  Query <- DatedOrNot
  Limit = {1}
  MAX_PAGE_LIMIT = 1
  MaxTime = 0
  TxnSpan = 0
  Session = {s1, s2}
  Status <- PendingOrConfirmed
  Stay <- TwoStays
SYMMETRY Symmetry
INVARIANTS
  BookingsReferToAssets
PROPERTIES
  ImplementsInventory
  RefusedOnlyIfHidden
