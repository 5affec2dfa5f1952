------------------------------- MODULE MCServer -------------------------------
(* Instances of Server for TLC. *)
EXTENDS Server

CONSTANTS c1, c2

TwoConns == {c1, c2}
===============================================================================
