CONSTANTS
    Budget = 3
    Migrations = 2
    LateBreaks = TRUE
    Kinds = {"text", "other", "quiet", "several", "garbage"}
SPECIFICATION MigrationSpec
CHECK_DEADLOCK FALSE
INVARIANT IdsCoverRead
