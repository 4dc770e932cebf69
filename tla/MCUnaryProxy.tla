----------------------------- MODULE MCUnaryProxy ------------------------------
(* UnaryProxy for TLC: two calls that compete for one slot.                *)
EXTENDS UnaryProxy

CONSTANTS t1, t2

Headers == {<<>>, <<t1>>, <<t2, t1>>}
================================================================================
