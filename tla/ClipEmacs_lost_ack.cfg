\* The answer to document-saved is lost.
SPECIFICATION ESpec
CONSTANTS
  t1 = t1
  t2 = t2
  b1 = b1
  b2 = b2
  r1 = r1
  c1 = c1
  c2 = c2
  NoTx = NoTx
  Txs <- OneTx
  Buffers <- OneBuffer
  Roots <- OneRoot
  Contents <- TwoContents
  Home <- OneHome
  Root <- OneBufferRoot
  Payload <- OnePayload
  PreExisting <- UserFile
  Faults = {"kill", "lost-ack"}
  MaxFaults = 1
  MaxSaveFaults = 0
  Ways = {}
INVARIANT SavedAssetsFinal
CHECK_DEADLOCK FALSE
