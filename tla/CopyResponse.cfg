\* A copy of any kind to or from two pages.
CONSTANTS
  PageSize = 4
  WordSize = 2
  MaxPages = 3
  HeaderSize = 3
  Addrs = {0, 1}
  Totals = {2, 5}
  FrameMaps <- Tables
SPECIFICATION FairSpec
INVARIANTS RespBufPopulated
