CONSTANT Workers = {w1, w2, w3}
SPECIFICATION FairSpawnSpec
INVARIANT ExitsAccounted
PROPERTY StopsIfOrderly
\* the parent stops
CHECK_DEADLOCK FALSE
