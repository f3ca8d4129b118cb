\* Up to two then() on each of five futures.
CONSTANTS
  Futures = {f1, f2, f3, f4, f5}
  None = None
  MaxThen = 2
SPECIFICATION FairSpec
INVARIANTS NoSecondSet ValueIntact
PROPERTY ContinuationSpec
\* A program that has used all its futures stops.
CHECK_DEADLOCK FALSE
