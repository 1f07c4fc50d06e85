SPECIFICATION Spec
CONSTANTS
    t1 = t1
    t2 = t2
    acc = acc
    ibm = ibm
    Dollar = 1
    Threads = {t1}
    Accounts = {acc}
    Conids = {ibm}
    Tickets <- SerialTickets
    Batches <- SerialBatches
    Quotes <- MCQuotes
    NoQuote = NoQuote
    NoTicket = NoTicket
    Multiplier <- MCMultiplier
    InitialCash = 10000
    ListLimit = 1000
    ConfirmTTL = 1
    MaxLog = 4
    MaxTime = 2
PROPERTY
    GuardrailOnEveryTicket
