---------------------------- MODULE MCOrderProcess ----------------------------
(***************************************************************************)
(* The instance of OrderProcess that TLC checks: a web and a TWS caller, with *)
(* a stop that asks and orders of both sides that execute in part; the web    *)
(* caller sends a list of two.                                              *)
(***************************************************************************)
EXTENDS MCOrders, OrderProcess

ThreadTickets == {BuyLimit, BuyStop, SellLimitIOC}
ThreadBatches == {<<BuyStop, SellLimitIOC>>}

===============================================================================
