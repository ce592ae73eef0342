\* Every command; nothing, one, two and many bytes or descriptors; texts
\* of nothing, of a NUL, of some length, and around the 256 bytes of the buffers.
CONSTANTS
  Scopes <- ScopesUsed
  Arguments <- ArgumentsUsed
  Types <- TypesUsed
  MaxParams = 2
  Counts = {0, 1, 2, 9, 300}
  Texts = {0, 1, 30, 255, 256, 300}
SPECIFICATION Spec
INVARIANTS TextDelivered
