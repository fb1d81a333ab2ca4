SPECIFICATION Spec
CONSTANTS
    a = a
    b = b
    c = c
    None = None
    Tensors <- ThreeTensors
    Expressions <- ThreeExpressions
    ByHand = {}
    Usage = {}
    Scalars <- ThreeTensors
    Rejected = {}
    Unlowerable = {}
    Uncompilable = {}
    Clock = 4
INVARIANTS TypeOK ReadIsEager PendingIsCurrent PendingAcyclic KernelIsCurrent
PROPERTIES ImplementsEager
SYMMETRY Symmetric
