------------------------------ MODULE MCWorker ------------------------------
(* A small worker: a protocol thread and three tasks for two fetches at a time. *)
EXTENDS Worker
=============================================================================
