--------------------------- MODULE MCWorkerProcess ---------------------------
(* Instances of WorkerProcess for TLC. *)
EXTENDS WorkerProcess

MCDefault == [q \in Types |-> 1]
=============================================================================
