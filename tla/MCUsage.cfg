CONSTANTS
    None = None
    FlushCommand = FlushCommand
    BucketLen = 2
    MaxTime = 3
    MaxBatchSize = 2
    Budgets <- MCBudgets
    Billers = {b1, b2}
SPECIFICATION Spec
CHECK_DEADLOCK FALSE
INVARIANTS TypeOK MetersWithinUse FinalUsageReported 
PROPERTY QueueDrains
