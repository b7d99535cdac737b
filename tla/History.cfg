SPECIFICATION Spec
CONSTANTS
  h1 = h1  h2 = h2
  Handlers <- TwoHandlers
  NFiles = 2
  MaxLost = 1
  MaxRestarts = 1
SYMMETRY Symmetry
CHECK_DEADLOCK FALSE
 
INVARIANT CompleteIsShown
 
 
