SPECIFICATION Spec
CONSTANTS
  a = a
  b = b
  c = c
  Cells <- MC_Cells
  Place <- MC_Place
  Graphs <- MC_Graphs
  WaveLimits = {1, 2}
  Windows = {0, 1}
INVARIANT StoppedRunIsNotVerified
