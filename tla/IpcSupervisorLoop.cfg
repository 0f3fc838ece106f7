CONSTANT Workers = {w1, w2}
SPECIFICATION FairSpawnSpec
PROPERTY LoopEnds
\* the parent stops
CHECK_DEADLOCK FALSE
