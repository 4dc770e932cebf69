-------------------------------- MODULE MCGateway ------------------------------
(* Gateway for TLC: two tasks of the server, two signals, two calls.       *)
EXTENDS Gateway
================================================================================
