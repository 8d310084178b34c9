--------------------------------- MODULE MCRpc ---------------------------------
(* Model-checking instance of RpcSystem; the .cfg files give the bounds. *)
EXTENDS RpcSystem
=============================================================================
