\* Pages of four bytes (two words), three pages to a batch, up to three batches; a copy of
\* nothing, within a page, ending on and just past page and batch boundaries.
CONSTANTS
  PageSize = 4
  WordSize = 2
  MaxPages = 3
  HeaderSize = 3
  Addrs = {0, 1, 2, 6}
  Totals = {0, 1, 4, 5, 11, 12, 16, 25}
  FrameMaps <- Tables
SPECIFICATION FairSpec
INVARIANTS MovesPrefix DescriptorsInsidePins EmbeddedPointersFound
PROPERTIES ImplementsTransfer Terminates
