SPECIFICATION Spec
CONSTANTS
    Dimension = 3
    Operands = {1, 2, 3}
    Expressions <- UpToThree
    MaxDuplicates = 2
    Usage = {}
INVARIANTS LoopsComputeExpression AppendsAscending LoadsInside ExactHasCase IterationAdvances
