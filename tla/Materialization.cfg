SPECIFICATION FairSpec
CONSTANTS
  Claims = {1, 2}
  Targets <- MCTargets
  Earlier <- MCEarlier
  ForkFrom = 2
  Threads = {1}
  NoEntry = NoEntry
  Failed = Failed
  ChunkSize = 1
  Concurrency = 2
  Builds = {1, 2}
  NoFile = NoFile
  Cut = Cut
INVARIANTS
  TypeOK
  EvidenceIsOfOneBlock
  CurrentWitnessIsWhole
  ChunksAuthenticateReferences
PROPERTIES
  NothingIsAskedTwice
  RerunsFinish
