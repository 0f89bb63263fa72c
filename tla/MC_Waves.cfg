SPECIFICATION FairSpec
CONSTANTS
  a = a
  b = b
  c = c
  Cells <- MC_Cells
  Place <- MC_Place
  Graphs <- MC_Graphs
  WaveLimits = {1, 2}
  Windows = {0, 1}
INVARIANTS WriterAlone DependenciesFirst VerifyOnlyComplete NoOrphans
PROPERTIES HungRunReturns StopFreesHungRun
