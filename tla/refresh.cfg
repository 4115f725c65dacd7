SPECIFICATION FairSpec
CONSTANTS
    Refresher = Refresher
    Writers = {w1, w2}
    MaxVersion = 3
    MaxOwed = 3
    MaxInbox = 3
INVARIANTS TypeOK QuietIsFresh
PROPERTY WritesShow
