\* Blocks of 4 bytes that overlap by 2, in logs of up to five blocks; runs of at
\* most 5 bytes and seeks of at most 2, in saves of 6 bytes; three recorded
\* actions and a checkpoint after each in which time passed.
SPECIFICATION Spec
CONSTANTS
  Block = 4
  Overlap = 2
  MaxSize = 20
  Byte = {0, 1}
  Zero = 0
  Tags <- MCTags
  Parents <- MCParents
  Field = 6
  Aln = 2
  MaxLen = 6
  MaxAction = 3
  Distance = 0
INVARIANTS FindsInShortLog Accepted RoundTrip ShownIsRecorded ArrivesWhereAsked
CHECK_DEADLOCK FALSE
