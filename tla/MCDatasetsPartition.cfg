SPECIFICATION DatasetsSpec
CONSTANTS
  Worlds = {1, 2, 3}
  Tables = {"empty", "small", "copy", "large"}
  Tokens <- MCTokens
  Fingerprint <- MCFingerprint
  Requests = {0, 1, 2, 4, 5}
  RoundsDown <- MCRoundsDown
CHECK_DEADLOCK FALSE
INVARIANT EachSampleOnce
