---------------------------- MODULE MCOrderBook -----------------------------
(* Small instances of OrderBook. *)
EXTENDS OrderBook

CONSTANTS a, b, c
=============================================================================
