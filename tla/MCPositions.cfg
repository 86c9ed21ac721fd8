SPECIFICATION FairSpec
CONSTANTS
  Devices = {d1}
  Offsets = {1, 2}
  End = 2
  Seqs = {0, 1, 2, 3, 4, 5}
  Stamps = {0, 1, 2}
  None = None
  MaxSaves = 2
  MaxFailures = 1
INVARIANTS
  SeekNotForgotten
PROPERTIES
  MergesAtomically
  ProgressKept
  UnseenNeverOverwritten
  UrgentIsUploaded
CHECK_DEADLOCK FALSE
