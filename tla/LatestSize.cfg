SPECIFICATION Spec
\* A guest that says nothing and a window that keeps its size: nothing is left to do.
CHECK_DEADLOCK FALSE
CONSTANTS
  Heights = {3, 5}
  MaxResizes = 2
  Chunks = {}
PROPERTY
  LatestSizeArrives
