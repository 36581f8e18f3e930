CONSTANTS
  Capacity = 7
  Tags <- MCTags
  Readers = {r1}
  Cutoffs <- MCCutoffs
  MaxSeq = 5
SPECIFICATION Spec
INVARIANTS
  SeqsAreConsecutive
  IndexedTagsAreIntact
  ReadsAreWhole
  KeyframesAreIndexed
  IndexedBytesIsExact
PROPERTIES
  ImplementsTagWindow
