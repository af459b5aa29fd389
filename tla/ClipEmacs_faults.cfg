\* One paste of two contents, one of them already a file of the user; two faults of any kind.
SPECIFICATION ESpec
CONSTANTS
  t1 = t1
  t2 = t2
  b1 = b1
  b2 = b2
  r1 = r1
  c1 = c1
  c2 = c2
  NoTx = NoTx
  Txs <- OneTx
  Buffers <- OneBuffer
  Roots <- OneRoot
  Contents <- TwoContents
  Home <- OneHome
  Root <- OneBufferRoot
  Payload <- OnePayload
  PreExisting <- UserFile
  Faults = {"publish", "write", "remove", "kill", "lost-ack"}
  MaxFaults = 2
  MaxSaveFaults = 1
  Ways = {"save-buffer", "name-while-pending", "edit-out", "quit", "crash"}
INVARIANT PayloadKept
INVARIANT SavedLinksKept
PROPERTY HelperSpec
CHECK_DEADLOCK FALSE
