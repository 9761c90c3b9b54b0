SPECIFICATION Spec
CONSTANTS
    w1 = w1
    w2 = w2
    Operators = {w1, w2}
    Commands <- Pair
    N = 3
    Graphs <- Inverted
    Bundles = {{1, 2, 3}}
    MaxCommands = 6
    MaxFaults = 1
INVARIANTS
    TypeOK
    ScheduleSound
    DependenciesFirst
    StatusTruthful
    NothingForgotten
    ApplyExhaustive
PROPERTIES
    TerminalItemsStay
    FailureSpreads
    RollbackRestores
\* When the commands are used up the bounded system stops.
CHECK_DEADLOCK FALSE
