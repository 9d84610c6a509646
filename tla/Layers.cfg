CONSTANTS
  Consumer = {1, 2, 3, 4}
  Topic = {1, 2}
  Clusters <- TheClusters
  MaxGeneration = 3
  Modes <- TheModes
  ByteBits = 3
  RecordModes <- TheRecordModes
  Timestamps <- TheTimes
  MaxRecords = 3
  Messages <- TheMessages
  Following <- TheRests
  t1 = t1
  t2 = t2
  g1 = g1
  g2 = g2
  Brokers <- TheBrokers
  Topics <- TheTopics
  ConsumerGroups <- TheGroups
  Foreign <- TheForeign
  Calls <- TheCalls
  Starts <- TheStarts
  MaxCalls = 2
  MaxMoves = 1
  a1 = a1
  a2 = a2
  Threads <- TheThreads
  minconn = 1
  maxconn = 2
  Connections <- TheConnections
  MaxKeys = 3
SPECIFICATION LayersSpec
INVARIANTS AssignmentsComplete StickyAndBalanced BatchesReadBack WireFaithful AdminCallsSound PoolSound
PROPERTY MovesNarrow
CHECK_DEADLOCK FALSE
