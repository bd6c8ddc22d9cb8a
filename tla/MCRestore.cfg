SPECIFICATION RestoreFairSpec
CONSTANTS
  c1 = c1
  c2 = c2
  p = p
  q = q
  Clients = {c1, c2}
  Nobody = Nobody
  All = All
  Invocations <- MCInvocations
  Byte = {0, 1}
  ChunkSize = 2
  Headers <- MCHeaders
  Contents <- MCContents
  Streams <- MCStreams
  FirstIndex <- MCFirstIndex
  FirstData <- MCFirstData
  NewContents <- MCNewContents
  Restarted = FALSE
  MaxVersions = 4
  MaxFaults = 1
CHECK_DEADLOCK FALSE
INVARIANTS
  RestoreTypeOK
  VerifiedIsGenuine
  AnswerCoversRequest
  IntactVersionsRestore
PROPERTIES
  ClientsReturn
