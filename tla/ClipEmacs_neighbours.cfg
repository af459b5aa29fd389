\* Two documents with one asset directory and a content both paste; one fault of any kind, saves that are quit, crashes.
SPECIFICATION ESpec
CONSTANTS
  t1 = t1
  t2 = t2
  b1 = b1
  b2 = b2
  r1 = r1
  c1 = c1
  c2 = c2
  NoTx = NoTx
  Txs <- TwoTxs
  Buffers <- TwoBuffers
  Roots <- OneRoot
  Contents <- TwoContents
  Home <- OwnHomes
  Root <- SharedRoot
  Payload <- CommonPayloads
  PreExisting <- NoFiles
  Faults = {"publish", "write", "remove", "kill"}
  MaxFaults = 1
  MaxSaveFaults = 1
  Ways = {"quit", "crash"}
PROPERTY CommittedAssetsStay
CHECK_DEADLOCK FALSE
