---------------------------- MODULE MCHttpServer ----------------------------
(* Either one client that sends up to three units, or two clients, one more *)
(* than the dispatches allowed at a time, that send one each.               *)
EXTENDS HttpServer

CONSTANTS a, b
MCConns == {a, b}
MCBudgets == {[c \in MCConns |-> IF c = a THEN 3 ELSE 0], [c \in MCConns |-> 1]}
====
