SPECIFICATION SingleFileSpec
CONSTANTS
  Paths <- MCPaths
  AncestorsOrSame <- MCAncestorsOrSame
  StartsWith <- MCStartsWith
  Workers = {w1, w2}
  MaxSeqnum = 4
  NoPath = NoPath
INVARIANT OrderRespected
PROPERTY ImplementsEventOrder
