CONSTANT MaxMisfortunes = 2
SPECIFICATION BootSpec
INVARIANT FailureKeepsWal
