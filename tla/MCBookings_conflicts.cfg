SPECIFICATION FairSpec
CONSTANTS
  a1 = a1  b1 = b1  b2 = b2  s1 = s1  s2 = s2
  NoRow = NoRow
  NoBooking = NoBooking
  Asset <- OneAsset
  Day <- ThreeDays
  Status <- AllReserving
  Stay <- Stays
  Booking = {b1, b2}
  Session = {s1, s2}
INVARIANTS
  TypeOK
  NoDoubleBooking
  CommitNeedsNoCheck
PROPERTIES
  StatementsResolve
  ImplementsReservation
