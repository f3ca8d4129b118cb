\* The same sizes, a peer that ends its stream after a request.
CONSTANTS
  BufSize = 2
  RespLen = 3
  RxMax = 3
  TxMax = 2
  MaxIn = 5
SPECIFICATION FairSpec
PROPERTY PeerCloseNoticed
\* A connection whose peer has gone, or says nothing more, does nothing.
CHECK_DEADLOCK FALSE
