CONSTANTS
  t1 = t1  t2 = t2  p1 = p1  p2 = p2
  Processes = {p1, p2}
  Threads = {t1, t2}
  ProcessOf <- Belongs
  Functions = {f1}
  Images = {i1, i2}
  Grids = {g1, g2}
  None = None
  MaxHandle = 2
  MaxStack = 2
SPECIFICATION Spec
SYMMETRY Symmetric
INVARIANTS LaunchInv
