\* Two pointers of each kind, two bytes of device memory, two handles.
CONSTANTS
  Pointers = {p1, p2}
  Addresses = {1, 2}
  Stubs = {f1}
  MaxHandles = 2
  MaxFunctions = 1
SPECIFICATION Spec
SYMMETRY Symmetry
INVARIANTS OnlyLiveGivenToCuda
