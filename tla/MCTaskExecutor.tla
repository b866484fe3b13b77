--------------------------- MODULE MCTaskExecutor ---------------------------
(***************************************************************************)
(* Small instances of TaskExecutor: a worker w that executes and cancels,  *)
(* and a thread c that may block the task, too.                            *)
(***************************************************************************)
EXTENDS TaskExecutor

CONSTANTS w, c

TwoThreads == [th \in Threads |-> {"execute", "cancel"} \cup IF th = c THEN {"block"} ELSE {}]
=============================================================================
