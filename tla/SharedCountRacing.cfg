SPECIFICATION Spec
CONSTANTS
  Handles = {h1, h2, h3}
  MaxRefs = 3
INVARIANT CountIsHard
