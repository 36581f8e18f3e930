CONSTANTS
  Copies = {c1, c2}
  Nobody = nobody
  MaxChanges = 3
SPECIFICATION Spec
SYMMETRY Twins
CONSTRAINT NotYetCrowded
INVARIANTS
  SavedIsKept
  FileIsWhatRuns
