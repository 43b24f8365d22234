--------------------------- MODULE MCDownloadClient ---------------------------
(* Clients of the download service beside another process that waits for it. *)
EXTENDS DownloadClient, TLC

CONSTANTS t1, w1

WaitsForT1 == w1 :> t1
SomeLines == {<<"cancel0", "word", "cancel">>, <<"word", "dir">>,
              <<"word", "empty", "word", "empty">>}
===============================================================================
