SPECIFICATION Spec
CONSTANTS
    Written = {"w1", "w2"}
    MaxRuns = 2
INVARIANTS
    SeedIsRepeatable
    DoneIsSample
CHECK_DEADLOCK FALSE
