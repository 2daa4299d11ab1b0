SPECIFICATION Spec
CONSTANTS
    Environments <- MCEnvironments
    CommandLines <- MCCommandLines
    MaxGen = 1
    MaxGraces = 3
INVARIANT ExitTruthful DrainsTogether ReadyServes
PROPERTY StopsWhenTold
CHECK_DEADLOCK FALSE
