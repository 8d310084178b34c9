------------------------------ MODULE MCBroker ------------------------------
(* Model-checking instance of SessionBroker; the .cfg file gives the bounds. *)
EXTENDS SessionBroker
=============================================================================
