SPECIFICATION MigrationSpec
INVARIANTS HeadServesServices
CHECK_DEADLOCK FALSE
