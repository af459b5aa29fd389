\* Fair saves settle every paste whatever single fault happens.
SPECIFICATION EFairSpec
CONSTANTS
  t1 = t1
  t2 = t2
  b1 = b1
  b2 = b2
  r1 = r1
  c1 = c1
  c2 = c2
  NoTx = NoTx
  Txs <- TwoTxs
  Buffers <- OneBuffer
  Roots <- OneRoot
  Contents <- TwoContents
  Home <- SameHome
  Root <- OneBufferRoot
  Payload <- OwnPayloads
  PreExisting <- NoFiles
  Faults = {"publish", "write", "remove", "kill", "lost-ack"}
  MaxFaults = 1
  MaxSaveFaults = 1
  Ways = {"save-buffer", "crash"}
PROPERTY Converges
CHECK_DEADLOCK FALSE
