SPECIFICATION Spec
CONSTANTS
    t1 = t1
    t2 = t2
    aapl = aapl
    unknown = unknown
    NoConid = NoConid
    Threads = {t1, t2}
    Chain <- MCChain
    External = {"yahoo", "stooq"}
    Conids = {aapl, unknown}
    Contracts = {aapl}
    Serves <- MCServes
    TTL <- MCTTL
    MaxTime = 2
INVARIANTS
    TypeOK
PROPERTIES
    DataIsFresh
    FallbackOnlyAfterOutage
    
SYMMETRY Symmetry
