SPECIFICATION FairSpec
CONSTANTS
  Paths <- MCPaths
  AncestorsOrSame <- MCAncestorsOrSame
  StartsWith <- MCStartsWith
  Workers = {w1, w2, w3}
  MaxSeqnum = 4
  NoPath = NoPath
INVARIANTS TypeOK InOnePlace PrerequisiteOutstanding NoLostWakeup
PROPERTY AllHandled
