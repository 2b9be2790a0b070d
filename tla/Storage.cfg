SPECIFICATION Spec
CONSTANTS
  alice = alice
  bob = bob
  chat = chat
  data1 = data1
  data2 = data2
  Users <- MCUsers
  Accessors = {chat}
  Hashes <- MCHashes
  Size <- MCSize
  Sizes = {1, 2}
  ByteLimit = 2
  MaxBatch = 2
  MaxFiles = 2
  MaxUserCalls = 3
  MaxRejections = 1
CHECK_DEADLOCK FALSE
INVARIANTS
  BlobsMatchFiles
  BytesUsedExact
  QuietCopiesAgree
CONSTRAINT FewWrongSizes
SYMMETRY Symmetry
