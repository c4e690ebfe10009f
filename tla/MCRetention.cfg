CONSTANTS
  Record = {1, 2, 3, 4, 5, 6}
  Table <- MCTable
  Refs <- MCRefs
  Cites <- MCCites
  Rank <- MCRank
  Tenant <- MCTenant
  RawLocal = 1
  DerivedFinding = 2
  BatchSize = 2
  MaxInsert = 2
  MaxTime = 4
  MaxRestarts = 1
SPECIFICATION Spec
INVARIANTS RawContentTagged ReferencedRowsKept NothingStranded GuardOutlivesPayload
PROPERTY RawContentExpires
