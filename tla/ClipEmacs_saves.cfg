\* Named before it is saved, and no answer to document-saved is lost.
SPECIFICATION ESpec
CONSTANTS
  t1 = t1
  t2 = t2
  b1 = b1
  b2 = b2
  r1 = r1
  c1 = c1
  c2 = c2
  NoTx = NoTx
  Txs <- TwoTxs
  Buffers <- OneBuffer
  Roots <- OneRoot
  Contents <- TwoContents
  Home <- SameHome
  Root <- OneBufferRoot
  Payload <- OwnPayloads
  PreExisting <- NoFiles
  Faults = {"publish", "write", "kill"}
  MaxFaults = 1
  MaxSaveFaults = 1
  Ways = {"edit-out", "quit", "crash"}
INVARIANT SavedAssetsFinal
PROPERTY CommitsMentionedAssets
CHECK_DEADLOCK FALSE
