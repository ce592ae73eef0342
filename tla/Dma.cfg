\* Two threads, the NULL stream and one other, up to two queued operations on each.
CONSTANTS
  Threads = {t1, t2}
  NoThread = NoThread
  Streams = {s1}
  MaxQueued = 2
SPECIFICATION Spec
SYMMETRY Symmetry
INVARIANTS DmaInv CudaMemcpyDtoHDone
PROPERTIES StreamSyncMakesValid EventSyncMakesValid
