CONSTANTS
  Device = {d1, d2}
  Cells = {0, 1}
  Plain = {h}
  Pinned = {b}
  Values = {Zero, v}
  Zero = Zero
  Response = v
  Kinds = {3}
SPECIFICATION Spec
SYMMETRY Symmetric
INVARIANTS DeviceToDeviceServed
