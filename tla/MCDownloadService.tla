--------------------------- MODULE MCDownloadService ---------------------------
(* DownloadService on small instances: two tasks, for one path or for two. *)
EXTENDS DownloadService, TLC

CONSTANTS t1, t2, d1, d2, ra, rb

SameDest == [t \in {t1, t2} |-> d1]
OwnDest == (t1 :> d1) @@ (t2 :> d2)
SameResource == [t \in {t1, t2} |-> ra]
OneDest == (t1 :> d1)
OneResource == (t1 :> ra)
OwnResource == (t1 :> ra) @@ (t2 :> rb)
===============================================================================
