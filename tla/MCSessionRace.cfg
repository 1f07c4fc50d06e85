SPECIFICATION Spec
CONSTANTS
    t1 = t1
    t2 = t2
    Threads = {t1, t2}
    Timeout = 2
    Speeds <- MCSpeeds
    Deltas = {0, 3}
    Starts = {0, 4}
    MaxReal = 4
    MaxNow = 7
PROPERTY
    LostOnlyByExpiryOrLogout
