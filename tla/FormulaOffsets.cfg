SPECIFICATION Spec
CONSTANTS
  MaxStaticPeriod = 6
  Periods <- MCPeriods
  WindowValue = 3
  MaxDepth = 2
INVARIANTS
  OffsetsAreExact
  CanonicalReadsAlike
  MissingWindowIsUnresolved
