SPECIFICATION Spec
CONSTANTS
  NoJob = NoJob
  NoStamp = NoStamp
  Migrator = {m1}
  Asset = {a1}
  ListingStatus <- DraftOrActive
INVARIANTS
  HeadIsDeclared
