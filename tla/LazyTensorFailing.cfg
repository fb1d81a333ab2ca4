SPECIFICATION Spec
CONSTANTS
    a = a
    b = b
    c = c
    None = None
    Tensors <- ThreeTensors
    Expressions <- SomeFailing
    ByHand = {}
    Usage = {}
    Scalars = {}
    Rejected <- RejectedSets
    Unlowerable <- UnlowerableSets
    Uncompilable <- UncompilableSets
    Clock = 3
INVARIANTS FailureIsIsolated PendingIsCurrent
PROPERTIES CallReturns
