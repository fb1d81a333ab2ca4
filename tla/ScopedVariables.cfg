CONSTANTS
    MaxDepth = 4
    MaxObjects = 4
    MaxFns = 2
SPECIFICATION Spec
INVARIANTS TypeOK ExceptionDestroysLive JumpDestroysLeft TreeIsCurrent
