\* The smallest recording in which a second failure meets no frame to return to.
SPECIFICATION Spec
CONSTANTS
  Block = 4
  Overlap = 2
  MaxSize = 20
  Byte = {0, 1}
  Zero = 0
  Tags <- MCTags
  Parents <- MCParents
  Field = 6
  Aln = 2
  MaxLen = 6
  MaxAction = 2
  Distance = 0
INVARIANT SurvivesFailure
CHECK_DEADLOCK FALSE
