\* Two threads, a careful program, two words, two operations queued.
CONSTANTS
  Threads = {t1, t2}
  Size = 2
  Careful = TRUE
  MaxVersion = 3
  MaxQueued = 2
  MaxEntries = 2
SPECIFICATION Spec
SYMMETRY Symmetry
INVARIANTS HostMemInv LookupFindsOwn KernelReadsNewest CopyReadsNewest CpuReadsNewest
