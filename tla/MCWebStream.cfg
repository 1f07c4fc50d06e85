SPECIFICATION FairSpec
CONSTANTS
    aapl = aapl
    unknown = unknown
    Conids = {aapl, unknown}
    Served = {aapl}
    Reports = {"sor", "spl"}
    PositionReports = {"spl"}
    Messages <- MCMessages
    MaxInbox = 2
    Second = 2
    MaxBack = 1
INVARIANTS
    TypeOK
    EndsForAReason
PROPERTIES
    WantedIsServed
    ClientIsHeard
