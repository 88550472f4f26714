CONSTANT MaxTime = 6
SPECIFICATION EngineSpec
CONSTRAINT SumsBounded
VIEW WithoutRecords
INVARIANTS SegmentsFillSession NeverUndercounted
PROPERTIES DriftOnlyFromLateCut DisplayFollowsClock
