SPECIFICATION Spec
CONSTANTS
  Windows = {w1, w2}
  MaxTechnicalRetries = 1
SYMMETRY Symmetry
INVARIANTS
  AcceptedIsTrue
  AcceptedIsOneRefresh
  LatenessIsNoContradiction
  WholeIsAccepted
