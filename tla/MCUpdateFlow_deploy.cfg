SPECIFICATION LiveSpec
CONSTANTS
  Tab = {t1, t2}
  MaxBuild = 3
  Chunk <- Chunks
INVARIANTS
  OldTabsKeepChunks
  
PROPERTY
  UpdatesArrive
CHECK_DEADLOCK FALSE
