------------------------------ MODULE MCH1Server ------------------------------
EXTENDS H1Server

Scene(k, m, t, e) == [kinds |-> k, modes |-> m, threads |-> t, env |-> e]

\* Asyncio under a shutdown and the head-read deadline; threads, with streamed answers
\* and a caller that leaves; upgrades, detached transports and malformed heads.
SafeScenarios ==
    {Scene({"plain", "expect"}, {"bytes", "push"}, FALSE, {"shutdown", "deadline"}),
     Scene({"plain", "body"}, {"bytes", "async"}, TRUE, {"leave"}),
     Scene({"upgrade", "body", "bad"}, {"bytes", "error", "detach"}, FALSE, {"reset", "leave"})}

\* Threads, with everything that may end the connection.
LiveScenarios ==
    {Scene({"plain", "expect"}, {"bytes", "push"}, TRUE,
           {"shutdown", "deadline", "leave", "reset", "late"})}
=============================================================================
