SPECIFICATION Spec
CONSTANTS
  Threads = {t1, t2}
  Levels <- MCLevels
  Booted = 100
  None = None
  Empty = Empty
  Torn = Torn
  MaxRequests = 2
  MaxTroubles = 2
SYMMETRY MCSymmetry
INVARIANTS TypeOK Remembered Settled
