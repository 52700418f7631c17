CONSTANTS
    Budget = 3
    Migrations = 2
    LateBreaks = FALSE
    Kinds = {"text", "quiet", "several", "garbage"}
SPECIFICATION MigrationSpec
CHECK_DEADLOCK FALSE
INVARIANT BudgetKept
PROPERTY OneUninterruptedStream
