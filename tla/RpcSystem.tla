------------------------------- MODULE RpcSystem -------------------------------
(***************************************************************************)
(* The JSON-RPC server at work: with the Node client, whose processes may  *)
(* die, or with any other client, which may use ids twice, send what is no *)
(* message, close its end, and stop reading.                               *)
(***************************************************************************)
EXTENDS NodeClient

VARIABLE peer     \* "node" or "any", for ever

vars == <<peer, pipes, server, node>>

RpcInit ==
  /\ peer \in {"node", "any"}
  /\ stdin = <<>> /\ stdinOpen = TRUE /\ stdout = <<>> /\ stdoutOpen = TRUE
  /\ Fresh /\ NodeInit

Served == peer = "node" => child = "running"

\* Nothing left to do: the server has returned, or the user of the client is done.
Finished ==
  /\ \/ peer = "any" /\ main = "down"
     \/ peer = "node" /\ \A i \in Calls : calls[i].state \notin Unsettled
  /\ UNCHANGED vars

RpcNext ==
  \/ Served /\ ServerStep /\ UNCHANGED <<peer, node>>
  \/ peer = "any" /\ AnyClient /\ UNCHANGED <<peer, server, node>>
  \/ peer = "node" /\ NodeStep /\ UNCHANGED peer
  \/ Finished

Spec == RpcInit /\ [][RpcNext]_vars

\* The runtime schedules the loop and every task; an operation ends, because
\* pages have a timeout; the client's events are delivered, its consumer goes on, and
\* the other client reads what is written to it. Nobody has to call or to close.
Fairness ==
  /\ WF_vars(Served /\ Read /\ UNCHANGED <<peer, node>>)
  /\ WF_vars(Served /\ (EndOfInput \/ Return) /\ UNCHANGED <<peer, node>>)
  /\ \A t \in Tasks :
       WF_vars(Served /\ (TaskStep(t) /\ ~Progress(t)) /\ UNCHANGED <<peer, node>>)
  /\ WF_vars(peer = "node" /\ EventStep /\ UNCHANGED peer)

FairSpec == Spec /\ Fairness

\* Every request the server accepted is answered, on every path of its handler, unless
\* the client stops reading or the process dies; so at end of input nothing is cut off.
RequestAnswered ==
  []<>(~stdoutOpen \/ \A t \in Tasks : tpc[t] = "none" \/ (tpc[t] = "done" /\ out[t] # "none"))

\* Every promise of the client settles and every consumer gets its next value or the
\* end, though the process may die, the client be shut down, or the call be aborted at
\* any moment. (Calls are bounded, so that they settle is that at last none is open.)
CallSettles == []<>(\A i \in Calls : calls[i].state \notin {"pending", "waiting"})
=============================================================================
