\* Saves that fail and are tried again before the buffer is killed, which may be quit and tried again too.
SPECIFICATION ESpec
CONSTANTS
  t1 = t1
  t2 = t2
  b1 = b1
  b2 = b2
  r1 = r1
  c1 = c1
  c2 = c2
  NoTx = NoTx
  Txs <- TwoTxs
  Buffers <- OneBuffer
  Roots <- OneRoot
  Contents <- TwoContents
  Home <- SameHome
  Root <- OneBufferRoot
  Payload <- OwnPayloads
  PreExisting <- NoFiles
  Faults = {"write"}
  MaxFaults = 2
  MaxSaveFaults = 1
  Ways = {"edit-out", "quit-kill"}
INVARIANT AbortLeavesNothing
CHECK_DEADLOCK FALSE
