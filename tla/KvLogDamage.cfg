SPECIFICATION Spec
CONSTANTS
  k1 = k1
  k2 = k2
  v1 = v1
  v2 = v2
  Keys = {k1, k2}
  Vals = {v1}
  NoVal = NoVal
  NoFile = NoFile
  InitFiles <- LegacyFiles
  CompactRatio = 2
  CompactFloor = 3
  MaxFrames = 3
  MaxForeign = 1
  ChecksumMayFail = TRUE
  DirSyncMayFail = FALSE
PROPERTIES
  NothingCutUnseen
  OutsideKept
