------------------------------- MODULE MCOrders -------------------------------
(***************************************************************************)
(* The instances of Orders that TLC checks.  One stock, an account of       *)
(* $10,000, prices near $10: 200 shares pass the risk check, a stop order    *)
(* needs a confirmation; 900 shares need one at $10 and are refused at $13.  *)
(***************************************************************************)
EXTENDS OrderProperties

CONSTANTS t1, t2, acc, ibm

Ticket(side, type, tif, quantity, price, aux) ==
    [conid |-> ibm, side |-> side, type |-> type, tif |-> tif,
     quantity |-> quantity, price |-> price, aux |-> aux]

BuyLimit == Ticket("BUY", "LMT", "DAY", 200, 10, None)
BuyStop == Ticket("BUY", "STP", "GTC", 100, None, 12)
SellLimitIOC == Ticket("SELL", "LMT", "IOC", 200, 12, None)
MostOfIt == Ticket("BUY", "MKT", "DAY", 900, None, None)

Calm == [bid |-> 9, ask |-> 10, last |-> 10, bidSize |-> 200, askSize |-> 100]
Rally == [bid |-> 12, ask |-> 13, last |-> 12, bidSize |-> 100, askSize |-> 400]

MCQuotes == {Calm, Rally}
MCMultiplier == [c \in Conids |-> 1]

\* One thread: every way a ticket can go.
SerialTickets == {BuyLimit, BuyStop, SellLimitIOC, MostOfIt}
\* Three lists, one of them with a second ticket that asks or is refused.
SerialBatches == {<<BuyLimit>>, <<BuyStop>>, <<SellLimitIOC, MostOfIt>>}

\* Enough questions for the event list to be longer than ListLimit.
StopBatches == {<<BuyStop>>}

===============================================================================
