SPECIFICATION Spec
CONSTANTS
  v1 = v1
  NoRow = NoRow
  Asset = {1, 2, 3, 4}
  Day <- TwoDays
  Vendor = {v1}
  Window = {}
  Booking = {}
  Client = {c1}
  AssetData <- ShownOrPaused
  WindowData <- NoData
  BookingData <- NoData
  Query <- Unfiltered
  Limit = {1, 2, 3}
  MAX_PAGE_LIMIT = 2
  MaxTime = 2
  TxnSpan = 1
INVARIANTS
  TypeOK
  NothingSkippedNorInvented
  NoDuplicates
  CursorSplits
