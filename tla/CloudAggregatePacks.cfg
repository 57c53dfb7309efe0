CONSTANTS CloudPoints = {p1, p2} AggMax = 2 PackSize = 1 MaxTokens = 1 MaxSwitches = 0
SPECIFICATION AggSpec
PROPERTY EveryPointPublished
CHECK_DEADLOCK FALSE
