CONSTANTS
    Limit <- MCLimit
    Sizes <- MCSizes
    StartOffset = 8
    MaxParams = 2
    MaxNodes = 5
    MaxStmts = 2
SPECIFICATION Spec
INVARIANTS NoOverlap SpilledBelow SecondPassAgrees RegisterIsFree CodeIsRight
