SPECIFICATION FairProcessSpec
CONSTANTS
    t1 = t1
    t2 = t2
    acc = acc
    ibm = ibm
    Dollar = 1
    Threads = {t1, t2}
    TwsThreads = {t2}
    Accounts = {acc}
    Conids = {ibm}
    Tickets <- ThreadTickets
    Batches <- ThreadBatches
    Quotes <- MCQuotes
    NoQuote = NoQuote
    NoTicket = NoTicket
    Multiplier <- MCMultiplier
    InitialCash = 10000
    ListLimit = 1000
    ConfirmTTL = 1
    MaxLog = 3
    MaxTime = 0
INVARIANTS
    StopsNeedConfirmation
    
    
PROPERTIES
    CallsReturn
