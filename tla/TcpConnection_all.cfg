\* Buffers of two bytes, responses of three, a send buffer of two.
CONSTANTS
  BufSize = 2
  RespLen = 3
  RxMax = 4
  TxMax = 2
  MaxIn = 6
SPECIFICATION FairSpec
INVARIANTS NoStrandedInput NoStrandedOutput OneContinuation OnlyWholeBuffersLost
PROPERTIES InputDelivered CloseEndsChain StoppedCloses OwnedWhileClosing ExchangeSpec
\* A connection whose peer has gone, or says nothing more, does nothing.
CHECK_DEADLOCK FALSE
