------------------------------ MODULE ServerConns ------------------------------
(***************************************************************************)
(* The reusable server protocols of httpunk.asyncio (httpunk/asyncio.py)    *)
(* and their registry: a protocol's serve task sniffs HTTP/1 or HTTP/2      *)
(* (httpunk/util/auto.py), builds the driver, serves and closes;            *)
(* ServerConnections.shutdown() asks every live one to drain, in rounds,    *)
(* and past its deadline closes and cancels what is left.                   *)
(*                                                                         *)
(* asyncio: an action is what a task does from one suspension to the next.  *)
(* The driver is external: it serves until its client, an error or a        *)
(* graceful shutdown ends it, and its handlers may hang.                    *)
(***************************************************************************)
EXTENDS FiniteSets

CONSTANTS
    Protocols,      \* the protocols the listener may make
    Sniffing,       \* those of them that are AutoServerProtocols
    Jamming,        \* those whose peer may never take the last batch
    Hosts           \* the callers of shutdown()

ASSUME ServerConnsConstants == Sniffing \cup Jamming \subseteq Protocols

VARIABLES
    timed,          \* shutdown() was given a timeout
    jammed,         \* those whose peer does not
    serve,          \* [Protocols -> where the serve task is]
    registry,       \* _live
    sniffCancel,    \* the protocols whose _sniff_cancel is set
    requested,      \* those with _graceful_requested
    applied,        \* those with _graceful_applied
    cancelling,     \* those whose serve task was told to cancel, and has not yet been
    host,           \* [Hosts -> where the caller of shutdown() is]
    drained,        \* [Hosts -> its `drained`]
    round,          \* [Hosts -> the connections of its round that it waits for]
    calls,          \* [Hosts -> those of the round whose graceful_shutdown() is due]
    expired         \* the hosts whose deadline has passed

serveVars == <<serve, registry, sniffCancel, requested, applied, cancelling>>
hostVars == <<host, drained, round, calls, expired>>
connsVars == <<timed, jammed, serveVars, hostVars>>

ConnsTypeOK ==
    /\ serve \in [Protocols ->
                    {"new", "started", "sniffing", "serving", "closing", "over"}]
    /\ {jammed, registry, sniffCancel, requested, applied, cancelling} \subseteq SUBSET Protocols
    /\ host \in [Hosts -> {"idle", "calling", "wait", "forced", "returned"}]
    /\ {drained, round, calls} \subseteq [Hosts -> SUBSET Protocols]
    /\ expired \subseteq Hosts /\ timed \in BOOLEAN

ConnsInit ==
    /\ timed \in BOOLEAN /\ jammed \in SUBSET Jamming
    /\ serve = [p \in Protocols |-> "new"]
    /\ registry = {} /\ sniffCancel = {} /\ requested = {} /\ applied = {} /\ cancelling = {}
    /\ host = [h \in Hosts |-> "idle"] /\ expired = {}
    /\ drained = [h \in Hosts |-> {}] /\ round = drained /\ calls = drained

-----------------------------------------------------------------------------
(* A protocol and its serve task                                             *)

ServeAt(p, place) == serve' = [serve EXCEPT ![p] = place]

\* connection_made: the serve task is created, and the connection registered.
ConnectionMade(p) ==
    /\ serve[p] = "new"
    /\ ServeAt(p, "started")
    /\ registry' = registry \cup {p}
    /\ UNCHANGED <<timed, jammed, sniffCancel, requested, applied, cancelling, hostVars>>

\* _serve has its driver: a shutdown requested before it existed is applied now.
DriverMadeMutant(p) == ServeAt(p, "serving") /\ UNCHANGED applied
DriverMade(p) ==
    /\ ServeAt(p, "serving")
    /\ applied' = applied \cup ({p} \cap requested)

\* The serve task's first step: an AutoServerProtocol has to read the preface first.
ServeStarts(p) ==
    /\ serve[p] = "started" /\ p \notin cancelling
    /\ IF p \in Sniffing
       THEN ServeAt(p, "sniffing") /\ UNCHANGED applied
       ELSE DriverMade(p)
    /\ UNCHANGED <<timed, jammed, registry, sniffCancel, requested, cancelling, hostVars>>

\* The bytes that arrived decide, or the end of them.
Sniffed(p) ==
    /\ serve[p] = "sniffing" /\ p \notin cancelling /\ p \notin sniffCancel
    /\ DriverMade(p)
    /\ UNCHANGED <<timed, jammed, registry, sniffCancel, requested, cancelling, hostVars>>

\* SniffCancelledError: the signal is asked for after every wait, ahead of the bytes.
SniffGivenUp(p) ==
    /\ serve[p] = "sniffing" /\ p \notin cancelling /\ p \in sniffCancel
    /\ ServeAt(p, "over")
    /\ UNCHANGED <<timed, jammed, registry, sniffCancel, requested, applied, cancelling, hostVars>>

\* The accept loop ends and its handlers are joined, or an error leaves it.
DriverEnds(p) ==
    /\ serve[p] = "serving" /\ p \notin cancelling
    /\ ServeAt(p, "closing")
    /\ UNCHANGED <<timed, jammed, registry, sniffCancel, requested, applied, cancelling, hostVars>>

\* The driver's close() returns. HTTP/2's joins its write pump.
DriverClosed(p) ==
    /\ serve[p] = "closing" /\ p \notin cancelling
    /\ ServeAt(p, "over")
    /\ UNCHANGED <<timed, jammed, registry, sniffCancel, requested, applied, cancelling, hostVars>>

\* The cancellation arrives where the task is parked: the handlers are cancelled and
\* the driver closes (or, in its handshake, aborts); in close(), what it joins is
\* cancelled with it.
ServeCancelled(p) ==
    /\ p \in cancelling
    /\ ServeAt(p, "over") \/ (serve[p] = "serving" /\ ServeAt(p, "closing"))
    /\ cancelling' = cancelling \ {p}
    /\ UNCHANGED <<timed, jammed, registry, sniffCancel, requested, applied, hostVars>>

\* The task's done callback, a turn of the loop later.
Deregistered(p) ==
    /\ serve[p] = "over" /\ p \in registry
    /\ registry' = registry \ {p}
    /\ UNCHANGED <<timed, jammed, serve, sniffCancel, requested, applied, cancelling, hostVars>>

-----------------------------------------------------------------------------
(* ServerConnections.shutdown()                                              *)

\* The next round takes the live connections no earlier round took, or ends the call.
NextRoundMutant(h, done) ==
    IF done # {}
    THEN host' = [host EXCEPT ![h] = "returned"] /\ UNCHANGED <<drained, round, calls>>
    ELSE /\ host' = [host EXCEPT ![h] = IF registry = {} THEN "returned" ELSE "calling"]
         /\ drained' = [drained EXCEPT ![h] = registry]
         /\ round' = [round EXCEPT ![h] = registry]
         /\ calls' = [calls EXCEPT ![h] = registry]
NextRound(h, done) ==
    LET conns == registry \ done IN
    IF conns = {}
    THEN host' = [host EXCEPT ![h] = "returned"] /\ UNCHANGED <<drained, round, calls>>
    ELSE /\ host' = [host EXCEPT ![h] = "calling"]
         /\ drained' = [drained EXCEPT ![h] = @ \cup conns]
         /\ round' = [round EXCEPT ![h] = conns]
         /\ calls' = [calls EXCEPT ![h] = conns]

ShutdownBegins(h) ==
    /\ host[h] = "idle"
    /\ NextRound(h, {})
    /\ UNCHANGED <<timed, jammed, serveVars, expired>>

\* graceful_shutdown(), a task of its own in the gather: the sniff's signal, the request,
\* and, once, the driver's own shutdown, if there is a driver yet.
GracefulCall(h, p) ==
    /\ p \in calls[h]
    /\ sniffCancel' = sniffCancel \cup ({p} \cap Sniffing)
    /\ requested' = requested \cup {p}
    /\ applied' = applied \cup {q \in {p} : serve[q] \in {"serving", "closing", "over"}}
    /\ calls' = [calls EXCEPT ![h] = @ \ {p}]
    /\ UNCHANGED <<timed, jammed, serve, registry, cancelling, host, drained, round, expired>>

CallsGathered(h) ==
    /\ host[h] = "calling" /\ calls[h] = {}
    /\ host' = [host EXCEPT ![h] = "wait"]
    /\ UNCHANGED <<timed, jammed, serveVars, drained, round, calls, expired>>

DeadlinePasses(h) ==
    /\ timed /\ host[h] \in {"calling", "wait"} /\ h \notin expired
    /\ expired' = expired \cup {h}
    /\ UNCHANGED <<timed, jammed, serveVars, host, drained, round, calls>>

Pending(h) == {p \in round[h] : serve[p] # "over"}

\* Every wait_closed() of the round has returned, before or after the force-close.
RoundOver(h) ==
    /\ host[h] \in {"wait", "forced"} /\ Pending(h) = {}
    /\ NextRound(h, drained[h])
    /\ UNCHANGED <<timed, jammed, serveVars, expired>>

\* Past the deadline: close() and cancel the whole round, then wait for what was pending.
ForceCloseMutant(h) ==
    /\ host[h] = "wait" /\ h \in expired /\ Pending(h) # {}
    /\ host' = [host EXCEPT ![h] = "forced"]
    /\ round' = [round EXCEPT ![h] = Pending(h)]
    /\ UNCHANGED <<timed, jammed, serveVars, drained, calls, expired>>
ForceClose(h) ==
    /\ host[h] = "wait" /\ h \in expired /\ Pending(h) # {}
    /\ host' = [host EXCEPT ![h] = "forced"]
    /\ round' = [round EXCEPT ![h] = Pending(h)]
    /\ cancelling' = cancelling \cup Pending(h)
    /\ UNCHANGED <<timed, jammed, serve, registry, sniffCancel, requested, applied,
                   drained, calls, expired>>

-----------------------------------------------------------------------------

\* What a serve task does without its client.
ServeSteps(p) == ServeStarts(p) \/ SniffGivenUp(p) \/ ServeCancelled(p) \/ Deregistered(p)

HostSteps(h) ==
    \/ \E p \in Protocols : GracefulCall(h, p)
    \/ CallsGathered(h) \/ RoundOver(h) \/ ForceClose(h)

\* Every caller has returned, and every connection is over.
ConnsFinished ==
    /\ \A h \in Hosts : host[h] = "returned"
    /\ \A p \in Protocols : serve[p] = "over" /\ p \notin registry
    /\ UNCHANGED connsVars

ConnsNext ==
    \/ \E p \in Protocols :
         ConnectionMade(p) \/ ServeSteps(p) \/ Sniffed(p) \/ DriverEnds(p) \/ DriverClosed(p)
    \/ \E h \in Hosts : ShutdownBegins(h) \/ HostSteps(h) \/ DeadlinePasses(h)
    \/ ConnsFinished

ConnsSpec == ConnsInit /\ [][ConnsNext]_connsVars

\* Tasks that are ready run, and a deadline passes. Nothing is assumed of a client or a
\* handler, except that a shutdown without a deadline relies on the drivers it told, and
\* that a close() ends unless the peer jams it. No task runs for ever here, so fairness
\* to all of them together is fairness to each.
ReadySteps ==
    \/ \E p \in Protocols :
         \/ ServeSteps(p)
         \/ (p \notin jammed /\ DriverClosed(p))
         \/ (~timed /\ p \in applied /\ DriverEnds(p))
    \/ \E h \in Hosts : HostSteps(h) \/ DeadlinePasses(h)

ConnsFair == WF_connsVars(ReadySteps)

ConnsLive == ConnsSpec /\ ConnsFair

-----------------------------------------------------------------------------
(* Properties.                                                               *)

\* "Requested before the driver exists ... is remembered and applied once it is built"
\* (graceful_shutdown): no driver serves on unaware of a shutdown requested of it, and no
\* sniff runs on that the request should have ended, whichever came first.
NoneUnaware ==
    \A p \in requested :
        /\ serve[p] \in {"serving", "closing"} => p \in applied
        /\ serve[p] = "sniffing" => p \in sniffCancel

\* "loop until no new live connection appears" (shutdown): when shutdown() returns, the
\* serve task of every connection made so far is over, those included that registered
\* during its rounds; before its deadline it cancels nobody, and it leaves none unaware.
DrainsEveryone ==
    [][/\ NoneUnaware'
       /\ (\E h \in Hosts : host[h] # "returned" /\ host'[h] = "returned") =>
             \A p \in Protocols : serve[p] \in {"new", "over"}
       /\ cancelling' \subseteq cancelling \/ expired # {}]_connsVars

\* What shutdown() says of its deadline ("so this always returns"), which the join of a
\* jammed write pump breaks (README, known divergences).
AlwaysReturns == <>[](timed => \A h \in Hosts : host[h] \in {"idle", "returned"})

\* With a deadline shutdown() returns whatever clients and handlers do, and without one
\* once the drivers it told have drained, unless a close() is left with a peer that
\* never takes the last batch. (Every task takes finitely many steps.)
ConnsShutdownEnds ==
    <>[](\A h \in Hosts :
            \/ host[h] \in {"idle", "returned"}
            \/ \E p \in jammed : serve[p] = "closing")

=============================================================================
