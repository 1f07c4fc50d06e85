SPECIFICATION Spec
CONSTANTS
    acc = acc
    ibm = ibm
    es = es
    Dollar = 1
    Accounts = {acc}
    Conids = {ibm, es}
    Multiplier <- MCMultiplier
    InitialCash = 100
    Quantities = {0, 1, 2}
    Prices = {2, 5}
    MaxTrades = 3
INVARIANT
    RealizedReachesSnapshot
CHECK_DEADLOCK FALSE
