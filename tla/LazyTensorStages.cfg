SPECIFICATION Spec
CONSTANTS
    a = a
    b = b
    c = c
    None = None
    Tensors <- TwoTensors
    Expressions <- TwoExpressions
    ByHand = {a, b}
    Usage = {}
    Scalars = {}
    Rejected = {}
    Unlowerable = {}
    Uncompilable = {}
    Clock = 3
INVARIANTS ReadIsEager ComputeHasSpace
PROPERTIES ComputedOnce
