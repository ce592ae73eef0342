\* Allocations of nothing and of part of a page.
CONSTANTS
  PageSize = 4
  WordSize = 2
  MaxPages = 3
  HeaderSize = 3
  Addrs = {0, 1}
  Totals = {0, 2}
  FrameMaps <- Tables
SPECIFICATION FairSpec
INVARIANTS HostAllocIsBacked
