------------------------------ MODULE MCWebStream ------------------------------
(***************************************************************************)
(* The instance of WebStream that TLC checks: a contract with quotes, one   *)
(* without, the order and P&L streams, every kind of message, two on the way*)
(***************************************************************************)
EXTENDS WebStream

CONSTANTS aapl, unknown

Message(kind, topic) == [kind |-> kind, topic |-> topic]

MCMessages ==
    {Message("other", aapl), Message("malformed", aapl),
     Message("subscribe", aapl), Message("unsubscribe", aapl),
     Message("subscribe", unknown),
     Message("subscribe", "sor"), Message("unsubscribe", "sor"),
     Message("subscribe", "spl")}

===============================================================================
