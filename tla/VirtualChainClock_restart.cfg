CONSTANTS
    BlockInterval = 3
    MaxTime = 6
SPECIFICATION Spec
INVARIANT RestartWaitsInterval
