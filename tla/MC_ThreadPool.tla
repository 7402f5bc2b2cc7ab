---------------------------- MODULE MC_ThreadPool ----------------------------
(* Two workers, as WORKER_ENABLE has it.                                   *)
EXTENDS ThreadPool

CONSTANTS w1, w2

TwoWorkers == {w1, w2}
===============================================================================
