\* The host programs: two tasks, two attributes, bytes of three bits.
CONSTANTS
  t1 = t1
  t2 = t2
  author = author
  origin = origin
  Tasks = {t1, t2}
  AttrNames = {author, origin}
  Values <- SomeValues
  FileSizes = {0, 1}
  Width = 8
  Inputs <- PackInputs
  Strings <- ShortStrings
  BlockSizes = {1, 2, 3, 4}
  XorBytes <- BitXor
  Samples <- SomeSamples
  Memories <- SomeMemories
  NameLengths <- SomeLengths
SPECIFICATION FairSpec
CHECK_DEADLOCK FALSE
INVARIANTS RunwayTellsOutcome PassIsHonest StreamsUnpack BytesAllCovered ScoresOrdered
PROPERTIES RunwayFollowsToEnd SamplingGoesOn
