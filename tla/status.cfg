SPECIFICATION Spec
CONSTANTS
    Reports <- MCReports
    MaxPackets = 3
    MaxOwed = 2
INVARIANTS TypeOK AnswerIsExact NewestIsShown ShownIsReported CutLosesOnly
