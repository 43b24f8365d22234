----------------------------- MODULE MCHttpClients -----------------------------
(* HttpClients on a small instance: two calls for one resource and one file. *)
EXTENDS HttpClients, TLC

CONSTANTS c1, c2, f1, res

OneResource == [c \in {c1, c2} |-> res]
===============================================================================
