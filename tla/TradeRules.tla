------------------------------ MODULE TradeRules ------------------------------
(***************************************************************************)
(* The pure rules of the simulator: what an order ticket is, when the risk *)
(* engine refuses it or asks for a confirmation (risk.py), when and at     *)
(* what price it executes (OrderService._try_fill, orders.py), and what    *)
(* one execution does to cash, position and market value (accounts.py).    *)
(*                                                                         *)
(* Money, prices and quantities are naturals; Dollar is the number of      *)
(* money units in one dollar, the only place where the code names an       *)
(* absolute amount.  Fractions of the code (0.95, 0.25, 10%) are compared  *)
(* after multiplying out, so no comparison is rounded.                     *)
(*                                                                         *)
(* Here and in the other modules an operator named ...Mutant is a bug the  *)
(* code could have had at that place.  No specification uses it: putting   *)
(* it in the place of the definition it precedes must make a property fail. *)
(***************************************************************************)
EXTENDS Integers

CONSTANT Dollar

ASSUME DollarAssumption == Dollar \in Nat \ {0}

Larger(a, b) == IF a >= b THEN a ELSE b
Smaller(a, b) == IF a <= b THEN a ELSE b
Absolute(a) == IF a >= 0 THEN a ELSE -a

-------------------------------------------------------------------------------
(* Tickets and quotes                                                        *)

\* An absent optional price of a ticket.
None == -1

Sides == {"BUY", "SELL"}
OrderTypes == {"MKT", "LMT", "STP", "STP LMT"}
LimitTypes == {"LMT", "STP LMT"}
StopTypes == {"STP", "STP LMT"}

\* What OrderTicket.validate_order_fields lets through, for a set of contracts.
WellFormedTickets(conids) ==
    {t \in [conid : conids, side : Sides, type : OrderTypes, tif : {"DAY", "GTC", "IOC"},
            quantity : Nat \ {0}, price : Nat \cup {None}, aux : Nat \cup {None}] :
        /\ t.type \in LimitTypes => t.price # None
        /\ t.type \in StopTypes => t.aux # None}

QuoteRecords ==
    [bid : Nat, ask : Nat, last : Nat, bidSize : Nat, askSize : Nat]

\* The price a taker pays or receives now.
Touch(side, quote) == IF side = "BUY" THEN quote.ask ELSE quote.bid
VisibleSize(side, quote) == IF side = "BUY" THEN quote.askSize ELSE quote.bidSize

-------------------------------------------------------------------------------
(* RiskEngine                                                                *)

\* Half a cent a share, at most 1% of the notional, at least one dollar.
EstimateCommission(quantity, price) ==
    Larger(Dollar, Smaller((quantity * Dollar) \div 200, (quantity * price) \div 100))

MarkPrice(ticket, quote) ==
    IF ticket.price # None THEN ticket.price ELSE Touch(ticket.side, quote)

Notional(ticket, quote) == MarkPrice(ticket, quote) * ticket.quantity

\* notional / max(net_liquidation, 1.0) >= percent / 100
AtLeastFraction(percent, ticket, netLiq, quote) ==
    100 * Notional(ticket, quote) >= percent * Larger(netLiq, Dollar)

\* check_order answers accepted = False: the order would commit the account.
AllIn(ticket, netLiq, quote) == AtLeastFraction(95, ticket, netLiq, quote)

FarFromMarket(ticket, quote) ==
    /\ ticket.type \in LimitTypes
    /\ ticket.price # None
    /\ IF ticket.side = "BUY" THEN 10 * ticket.price > 11 * quote.last
                              ELSE 10 * ticket.price < 9 * quote.last

\* Warns about the size and the limit price only.
RequiresConfirmationMutant(ticket, netLiq, quote) ==
    AtLeastFraction(25, ticket, netLiq, quote) \/ FarFromMarket(ticket, quote)

\* check_order accepts, with warnings the client has to confirm.
RequiresConfirmation(ticket, netLiq, quote) ==
    \/ AtLeastFraction(25, ticket, netLiq, quote)
    \/ ticket.type \in StopTypes
    \/ FarFromMarket(ticket, quote)

-------------------------------------------------------------------------------
(* OrderService._try_fill: the price rules                                   *)

StopTriggered(ticket, last) ==
    /\ ticket.aux # None
    /\ IF ticket.side = "BUY" THEN last >= ticket.aux ELSE last <= ticket.aux

\* The opposite side of the book is within the limit.
Marketable(ticket, quote) ==
    IF ticket.side = "BUY" THEN ticket.price >= quote.ask ELSE ticket.price <= quote.bid

Executes(ticket, quote) ==
    /\ ticket.type \in LimitTypes => ticket.price # None /\ Marketable(ticket, quote)
    /\ ticket.type \in StopTypes => StopTriggered(ticket, quote.last)

\* Meaningful when Executes(ticket, quote).
FillPrice(ticket, quote) ==
    LET touch == Touch(ticket.side, quote) IN
    IF ticket.type \notin LimitTypes THEN touch
    ELSE IF ticket.side = "BUY" THEN Smaller(ticket.price, touch)
                                ELSE Larger(ticket.price, touch)

\* Trades the displayed size, whatever is left.
FillQuantityMutant(remaining, ticket, quote) ==
    Larger(1, VisibleSize(ticket.side, quote))

\* Never more than is left, and the displayed size, or one unit if less is shown.
FillQuantity(remaining, ticket, quote) ==
    Smaller(remaining, Larger(1, VisibleSize(ticket.side, quote)))

-------------------------------------------------------------------------------
(* AccountService.apply_execution: what one execution moves                  *)

SignedQuantity(side, quantity) == IF side = "BUY" THEN quantity ELSE -quantity

\* The commission of a sale is paid out.
CashDeltaMutant(side, quantity, price, commission) ==
    IF side = "BUY" THEN -(quantity * price + commission)
                    ELSE quantity * price + commission

\* The change of total_cash_value.
CashDelta(side, quantity, price, commission) ==
    IF side = "BUY" THEN -(quantity * price + commission)
                    ELSE quantity * price - commission

===============================================================================
