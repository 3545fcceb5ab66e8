SPECIFICATION Spec
CONSTANTS
    Stream <- MCStream
    MaxCancelled = 3
INVARIANTS NeverPolledAgain ReadInOrder NoLostWakeup
PROPERTIES EndReported
CHECK_DEADLOCK FALSE
