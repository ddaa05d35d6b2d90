SPECIFICATION SuiteFairSpec
CONSTANT Parts = {"lite", "sessions", "exams", "sources", "notices", "http"}
PROPERTY WorkEnds
CHECK_DEADLOCK FALSE
