------------------------------ MODULE MCHttp1Conn ------------------------------
(* Instances of Http1Conn for TLC. *)
EXTENDS Http1Conn, TLC

CONSTANTS c1, c2, q1, q2, q3

TwoConns == {c1, c2}
ThreeRequests == {q1, q2, q3}

Asking(k1, k2, k3) == q1 :> k1 @@ q2 :> k2 @@ q3 :> k3
Times(n1, n2, n3) == q1 :> n1 @@ q2 :> n2 @@ q3 :> n3

(* Two requests pipelined on one connection, sent again when unanswered. *)
Pipelining ==
  {[kind |-> Asking("messages", k, "other"), tries |-> Times(2, 2, 0),
    conns |-> {c1}, ways |-> Ways, ahead |-> 2, eras |-> 0] : k \in {"messages", "other", "head"}}

(* A request sent again on another connection while the first try may still *)
(* be served, next to another one; the server may crash once. *)
Retrying ==
  {[kind |-> Asking("messages", "messages", "other"), tries |-> Times(2, 1, 0),
    conns |-> TwoConns, ways |-> {"whole"}, ahead |-> 1, eras |-> 1]}

(* Three requests on two connections. *)
Mixing ==
  {[kind |-> Asking("messages", "reset", "captures"), tries |-> Times(1, 1, 1),
    conns |-> TwoConns, ways |-> {"whole"}, ahead |-> 1, eras |-> 0]}

ThreeLoads == Pipelining \cup Retrying \cup Mixing
===============================================================================
