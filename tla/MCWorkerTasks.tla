--------------------------- MODULE MCWorkerTasks ---------------------------
(* Instances of WorkerTasks. *)
EXTENDS WorkerTasks

MCWallet == {"w1", "w2", "w3"}
MCOneWallet == {"w1"}
=============================================================================
