SPECIFICATION OggSpec
CONSTANTS
  Files = {1}
  Sound = {1}
  Layout <- CutWav
  MaxEntries = 3
  MaxRead = 4
  Lace = 3
  PageSegments = 2
  MaxIdent = 4
  MaxKeptComment = 2
  MaxComments = 2
  MaxPages = 5
CHECK_DEADLOCK FALSE
INVARIANTS
  OnlyCleanEndIsUntagged
