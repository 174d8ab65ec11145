SPECIFICATION RegistrySpec
CONSTANTS
  Address = {alice, bob}
  ZeroAddress = ZeroAddress
  ChainId = {base, fork}
  MaxTime = 1
  Cid = {c1, c2}
  ZeroCid = ZeroCid
  Flags = {0, 128}
  Reserved = {128}
  MaxSigned = 3
SYMMETRY Interchangeable
CHECK_DEADLOCK FALSE
INVARIANTS
  RecordsSound
PROPERTIES
  RecordsFinal
