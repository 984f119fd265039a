SPECIFICATION Spec
CONSTANTS
  b1 = b1
  b2 = b2
  p1 = p1
  s1 = s1
  s2 = s2
  vendor = vendor
  renter = renter
  other = other
  None = None
  User = {vendor, renter, other}
  Booking = {b1, b2}
  Payment = {p1}
  Session = {s1, s2}
  Party <- ChangingParties
  Form <- Forms
  Progress <- InAndOutOfDispute
SYMMETRY Symmetry
CONSTRAINT FewRecords
INVARIANTS
  TypeOK
  SignedByItsParties
  CompletedReturnsCount
PROPERTIES
  PayoutFollowsReturn
  MilestonesAreKept
