\* Too few descriptors, and enough for everything.
CONSTANTS
  Limits = {3, 8}
  MaxOther = 2
  MaxArrive = 4
  Errors = {"EINTR", "other"}
SPECIFICATION FairSpec
INVARIANTS NoDescriptorLost AmpleDrains
PROPERTY ConnectionsAccepted
\* An accept that throws ends the process.
CHECK_DEADLOCK FALSE
