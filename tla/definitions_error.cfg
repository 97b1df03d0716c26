CONSTANTS
    c1 = c1
    c2 = c2
    c3 = c3
    c4 = c4
    Gone = Gone
    Callers <- Four
    Answers <- ServedOrFailed
SPECIFICATION FairSpec
PROPERTY SettlesAfterErrors
\* After a failed download everybody may wait for the lock.
CHECK_DEADLOCK FALSE
