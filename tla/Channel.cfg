\* Two threads, copies of up to two batches.
CONSTANTS
  Threads = {t1, t2}
  NoThread = NoThread
  MaxBatches = 2
SPECIFICATION FairSpec
INVARIANTS ReapsOwnAnswer BuffersOutliveHost PinsBalanced ChannelInv
PROPERTIES ImplementsRpc CallReturns
