\* One transaction, any client, two faults: the user's file stays, every helper answers.
SPECIFICATION FairSpec
CONSTANTS
  t1 = t1
  b1 = b1
  r1 = r1
  c1 = c1
  c2 = c2
  Txs <- OneTx
  Buffers <- OneBuffer
  Roots <- OneRoot
  Contents <- TwoContents
  Home <- OneHome
  Root <- BufferRoot
  Payload <- BothContents
  PreExisting <- UserFile
  Faults = {"publish", "write", "remove", "kill", "lost-ack"}
  MaxFaults = 2
INVARIANT TypeOK
INVARIANT UserFilesKept
PROPERTY Lifecycle
PROPERTY Answered
