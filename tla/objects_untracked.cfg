SPECIFICATION ObjectsOnlySpec
CONSTANTS
    \* four callbacks, some added or removed while the others are called
    MaxTokens = 4
    MaxPackages = 2
    SizeT = 8
    \* one progress callback: they share only the calls of one update()
    MaxCommits = 2
    MaxDown = 1
    MaxRegistered = 1
    \* two transactions of two instructions each on a list of three entries
    StartSize = 3
    MaxSize = 4
    MaxInserts = 2
    MaxInstructions = 2
    MaxMerges = 2
    \* two objects and a third, observed from three versions
    Keys = {1, 2, 3}
    Cols = {"a", "b"}
    Start = {1, 2}
    MaxSpans = 3
    MaxSteps = 4
    \* two rows that link to two objects; searches cut at three and four links
    Rows = {1, 2}
    Others = {3, 4}
    Limits = {3, 4}
    OutgoingLinks <- LinkColumns
    Graphs <- LinkGraphs
    Modified <- OneObject
INVARIANT
    SeeComplete
CHECK_DEADLOCK FALSE
