----------------------------- MODULE MCShutdown -----------------------------
(***************************************************************************)
(* The two coordinators that shut many connections down, and one HTTP/2     *)
(* server connection that is shut down, by them or otherwise.  They meet    *)
(* only in the call of graceful_shutdown() (Trigger and GracefulCall there, *)
(* BeginShutdown here), which waits for nothing a coordinator holds, and in *)
(* the end of the serve loop (ServeEnds and DriverEnds there, LoopOver      *)
(* here), so a behaviour of this model is one of one of them, with the      *)
(* others left as they began.  In an idle one no action with a fairness     *)
(* condition is enabled.                                                    *)
(***************************************************************************)
EXTENDS Graceful, ServerConns, H2Server

VARIABLE part       \* the part that runs

Scene(e, max, n) == [env |-> e, maxConcurrent |-> max, frames |-> n]

\* Each kind of trouble with as many frames as it needs, and all together with few.
MCScenes ==
    {Scene({"reset", "eof"}, 2, 4),
     Scene({"bad", "reset", "shutdown"}, 1, 2),
     Scene({"reset", "shutdown"}, 2, 3),
     Scene({"goaway", "shutdown"}, 2, 2),
     Scene({"shutdown", "eof", "broken", "leave"}, 2, 1)}

Idle == Scene({"goaway", "shutdown"}, 2, 2)

Init ==
    /\ part \in {"graceful", "conns", "server"}
    /\ GracefulInit /\ ConnsInit /\ ServerInit
    /\ part = "server" \/ scene = Idle
    /\ part = "conns" \/ (timed /\ jammed = {})

Next ==
    \/ part = "graceful" /\ GracefulNext /\ UNCHANGED <<part, connsVars, serverVars>>
    \/ part = "conns" /\ ConnsNext /\ UNCHANGED <<part, gracefulVars, serverVars>>
    \/ part = "server" /\ ServerNext /\ UNCHANGED <<part, gracefulVars, connsVars>>

LiveSpec ==
    /\ Init /\ [][Next]_<<part, gracefulVars, connsVars, serverVars>>
    /\ GracefulFair /\ ConnsFair /\ ServerFair
=============================================================================
