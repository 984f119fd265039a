SPECIFICATION FairSpec
CONSTANTS
  NoJob = NoJob
  NoStamp = NoStamp
  Migrator = {m1, m2}
  Asset = {a1}
  ListingStatus <- DraftOrActive
INVARIANTS
  TypeOK
  SchemaMatchesVersion
  CommandsWorkAlone
  NeverPublishedUnreviewed
PROPERTIES
  CommandsEnd
  ImplementsSchemaRevision
