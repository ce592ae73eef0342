CONSTANTS
  t1 = t1  t2 = t2  t3 = t3  p1 = p1  p2 = p2
  Processes = {p1, p2}
  Threads = {t1, t2, t3}
  ProcessOf <- Belongs
  None = None
  MaxProbes = 2
  MaxExits = 2
SPECIFICATION FairSpec
INVARIANTS DeviceOutlivesCalls NothingLeftBehind LifecycleInv
PROPERTIES ServedWhileConnected
