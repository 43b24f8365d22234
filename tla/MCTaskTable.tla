------------------------------ MODULE MCTaskTable ------------------------------
(* TaskTable with a download and a call that waits for it. *)
EXTENDS TaskTable, TLC

CONSTANTS t1, w1

OneWaiter == w1 :> t1
===============================================================================
