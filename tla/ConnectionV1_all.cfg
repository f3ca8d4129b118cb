\* A response of three bytes in two packets, a send buffer of two, words of eight values.
CONSTANTS
  t1 = t1
  t2 = t2
  WordSize = 8
  Bytes = {0, 1}
  Delimiter <- TwoBytes
  ReadMax = 2
  CompactAt = 2
  RespLen = 3
  HeaderLen = 1
  RxMax = 2
  TxMax = 2
  MaxIn = 3
  OtherTasks = {t1}
  OwnTasks = {t2}
SPECIFICATION FairSpec
INVARIANTS OneHolder InputIntact LinesWhole SlicesInside WrittenToTheEnd
PROPERTIES AddReplacesNone NothingSkipped PeerCloseNoticed TasksRun
\* A connection whose peer has gone, or says nothing more, does nothing.
CHECK_DEADLOCK FALSE
