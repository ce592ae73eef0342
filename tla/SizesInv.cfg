\* What the proofs start from: the lengths at each step, on the instance of
\* Sizes.cfg.
CONSTANTS
  Scopes <- ScopesUsed
  Arguments <- ArgumentsUsed
  Types <- TypesUsed
  MaxParams = 2
  Counts = {0, 1, 2, 9, 300}
  Texts = {0, 1, 30, 255, 256, 300}
SPECIFICATION Spec
INVARIANTS SizesInv
