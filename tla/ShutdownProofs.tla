--------------------------- MODULE ShutdownProofs ---------------------------
(***************************************************************************)
(* Proofs about the two coordinators of a shutdown: that of Graceful, for  *)
(* any finite set of watchers and any number of callers of shutdown(),     *)
(* and the connections of a server (ServerConns), for any sets of          *)
(* protocols and callers.                                                  *)
(***************************************************************************)
EXTENDS Graceful, ServerConns, FiniteSetTheorems, TLAPS

-----------------------------------------------------------------------------
(* The coordinator of watched connections.                                  *)

\* Whoever registered before a signal has a place in the lifecycle, and has left by
\* the time shutdown() is past its wait.
WaitedFor ==
    \A s \in Closers :
        /\ \A w \in before[s] : wpc[w] # "new"
        /\ spc[s] \in {"woken", "returned"} => before[s] \cap Unreleased = {}

GracefulInv == GracefulTypeOK /\ CountExact /\ WaitedFor

-----------------------------------------------------------------------------

\* The watchers that have not released can be counted.
LEMMA UnreleasedFinite == IsFiniteSet(Unreleased) /\ Cardinality(Unreleased) \in Nat
<1>1. Unreleased \subseteq Watchers
    BY DEF Unreleased, Watching
<1> QED
    BY <1>1, GracefulConstants, FS_Subset, FS_CardinalityType

\* Nobody is registered yet.
LEMMA InitInv == ASSUME GracefulInit PROVE GracefulInv
<1>1. Unreleased = {}
    BY DEF GracefulInit, Unreleased, Watching
<1>2. CountExact
    BY <1>1, FS_EmptySet DEF GracefulInit, CountExact
<1> QED
    BY <1>2 DEF GracefulInit, GracefulInv, GracefulTypeOK, WaitedFor

\* A new watcher is counted, in one step with the clearing of the event.
LEMMA RegisterInv == ASSUME GracefulInv, NEW w \in Watchers, Register(w) PROVE GracefulInv'
<1>1. Unreleased' = Unreleased \cup {w} /\ w \notin Unreleased
    BY DEF GracefulInv, GracefulTypeOK, Register, WatcherAt, Unreleased, Watching
<1>2. Cardinality(Unreleased') = Cardinality(Unreleased) + 1
    BY <1>1, UnreleasedFinite, FS_AddElement
<1>3. CountExact'
    BY <1>2, UnreleasedFinite DEF GracefulInv, GracefulTypeOK, CountExact, Register
<1>4. GracefulTypeOK'
  <2>1. live' \in Nat
      BY DEF GracefulInv, GracefulTypeOK, Register
  <2>3. allDone' \in BOOLEAN
      BY Zenon DEF Register
  <2>2. wpc' \in [Watchers -> {"new", "registered", "serving", "joining", "leaving", "left", "lost"}]
      BY DEF GracefulInv, GracefulTypeOK, Register, WatcherAt
  <2> QED
      BY <2>1, <2>2, <2>3 DEF GracefulInv, GracefulTypeOK, Register
<1>5. WaitedFor'
  <2> SUFFICES ASSUME NEW s \in Closers
               PROVE  /\ \A v \in before[s] : wpc'[v] # "new"
                      /\ spc[s] \in {"woken", "returned"} => before[s] \cap Unreleased' = {}
      BY DEF WaitedFor, Register
  <2>1. w \notin before[s]
      BY DEF GracefulInv, WaitedFor, Register
  <2> QED
      BY <2>1, <1>1 DEF GracefulInv, GracefulTypeOK, WaitedFor, Register, WatcherAt
<1> QED
    BY <1>3, <1>4, <1>5 DEF GracefulInv

\* The last watcher to leave finds the count at one, and wakes shutdown() when nobody
\* is left that it could have waited for.
LEMMA ReleaseInv == ASSUME GracefulInv, NEW w \in Watchers, Release(w) PROVE GracefulInv'
<1>1. Unreleased' = Unreleased \ {w} /\ w \in Unreleased
    BY DEF GracefulInv, GracefulTypeOK, Release, WatcherAt, Unreleased, Watching
<1>2. Cardinality(Unreleased') = Cardinality(Unreleased) - 1
    BY <1>1, UnreleasedFinite, FS_RemoveElement
<1>3. Cardinality(Unreleased) > 0
    BY <1>1, UnreleasedFinite, FS_EmptySet
<1>4. live' = Cardinality(Unreleased') /\ live' \in Nat
    BY <1>2, <1>3, UnreleasedFinite DEF GracefulInv, CountExact, Release
<1>5. live' = 0 => Unreleased' = {}
    BY <1>1, <1>4, UnreleasedFinite, FS_RemoveElement, FS_EmptySet
<1>6. CountExact'
    BY <1>3, <1>4, UnreleasedFinite DEF GracefulInv, CountExact, Release
<1>7. GracefulTypeOK'
    BY <1>4 DEF GracefulInv, GracefulTypeOK, Release, WatcherAt
<1>8. WaitedFor'
    BY <1>1, <1>5 DEF GracefulInv, GracefulTypeOK, WaitedFor, Release, WatcherAt
<1> QED
    BY <1>6, <1>7, <1>8 DEF GracefulInv

\* The other steps of a watcher keep it counted.
LEMMA WatchInv ==
    ASSUME GracefulInv, NEW w \in Watchers,
           \/ Start(w) \/ Trigger(w) \/ TriggerOver(w) \/ TriggerCancelled(w)
           \/ ServeEnds(w) \/ Join(w) \/ CancelledUnstarted(w)
    PROVE  GracefulInv'
<1>1. Unreleased' = Unreleased
    BY DEF GracefulInv, GracefulTypeOK, Start, Trigger, TriggerOver, TriggerCancelled, ServeEnds, Join,
           CancelledUnstarted, WatcherAt, Unreleased, Watching
<1>2. UNCHANGED <<live, allDone, spc, before>>
    BY DEF Start, Trigger, TriggerOver, TriggerCancelled, ServeEnds, Join, CancelledUnstarted
<1>3. \A v \in Watchers : wpc'[v] = "new" <=> wpc[v] = "new"
    BY DEF GracefulInv, GracefulTypeOK, Start, Trigger, TriggerOver, TriggerCancelled, ServeEnds, Join,
           CancelledUnstarted, WatcherAt
<1>4. GracefulTypeOK'
    BY DEF GracefulInv, GracefulTypeOK, Start, Trigger, TriggerOver, TriggerCancelled, ServeEnds, Join,
           CancelledUnstarted, WatcherAt
<1>5. CountExact'
    BY <1>1, <1>2 DEF GracefulInv, CountExact
<1>6. WaitedFor'
    BY <1>1, <1>2, <1>3 DEF GracefulInv, GracefulTypeOK, WaitedFor
<1> QED
    BY <1>4, <1>5, <1>6 DEF GracefulInv

\* shutdown() gets past its wait only when the count was zero.
LEMMA CloseInv == ASSUME GracefulInv, NEW s \in Closers, Close(s) PROVE GracefulInv'
<1>1. UNCHANGED <<live, allDone, wpc>> /\ Unreleased' = Unreleased
    BY DEF Close, Shutdown, WaitAllDone, Woken, Unreleased, Watching
<1>2. live = 0 => Unreleased = {}
    BY UnreleasedFinite, FS_EmptySet DEF GracefulInv, CountExact
<1>3. GracefulTypeOK'
  <2>1. CASE Shutdown(s)
      BY <2>1 DEF GracefulInv, GracefulTypeOK, Shutdown, Watching
  <2>2. CASE WaitAllDone(s)
      BY <2>2 DEF GracefulInv, GracefulTypeOK, WaitAllDone
  <2>3. CASE Woken(s)
      BY <2>3 DEF GracefulInv, GracefulTypeOK, Woken
  <2> QED
      BY <2>1, <2>2, <2>3 DEF Close
<1>4. CountExact'
    BY <1>1 DEF GracefulInv, CountExact
<1>5. WaitedFor'
  <2>1. CASE Shutdown(s)
      BY <2>1, <1>1, <1>2 DEF GracefulInv, GracefulTypeOK, WaitedFor, Shutdown, Watching
  <2>2. CASE WaitAllDone(s)
      BY <2>2, <1>1, <1>2 DEF GracefulInv, GracefulTypeOK, CountExact, WaitedFor, WaitAllDone
  <2>3. CASE Woken(s)
      BY <2>3, <1>1 DEF GracefulInv, GracefulTypeOK, WaitedFor, Woken
  <2> QED
      BY <2>1, <2>2, <2>3 DEF Close
<1> QED
    BY <1>3, <1>4, <1>5 DEF GracefulInv

\* Every step of the coordinator keeps the invariant.
LEMMA NextInv == ASSUME GracefulInv, [GracefulNext]_gracefulVars PROVE GracefulInv'
<1>1. CASE UNCHANGED gracefulVars
    BY <1>1 DEF GracefulInv, GracefulTypeOK, CountExact, WaitedFor, Unreleased, Watching, gracefulVars
<1>2. ASSUME NEW w \in Watchers, Watch(w) \/ CancelledUnstarted(w) PROVE GracefulInv'
    BY <1>2, RegisterInv, ReleaseInv, WatchInv DEF Watch
<1>3. ASSUME NEW s \in Closers, Close(s) PROVE GracefulInv'
    BY <1>3, CloseInv
<1> QED
    BY <1>1, <1>2, <1>3 DEF GracefulNext, GracefulFinished

\* The inductive invariant of the coordinator.
THEOREM GracefulInvariant == GracefulSpec => []GracefulInv
<1>1. GracefulInit => GracefulInv
    BY InitInv
<1>2. GracefulInv /\ [GracefulNext]_gracefulVars => GracefulInv'
    BY NextInv
<1> QED
    BY <1>1, <1>2, PTL DEF GracefulSpec

\* shutdown() never returns before every watcher registered ahead of its signal has
\* left, however registrations, endings and other shutdowns interleave.
THEOREM GracefulShutdownWaits == GracefulSpec => []ShutdownWaits
<1>1. GracefulInv => ShutdownWaits
    BY DEF GracefulInv, WaitedFor, ShutdownWaits, Unreleased, Watching
<1> QED
    BY <1>1, GracefulInvariant, PTL

\* The count and its event are exact for every interleaving of registrations, endings
\* and cancellations: no watcher is counted twice and none is dropped twice.
THEOREM GracefulCountExact == GracefulSpec => []CountExact
<1>1. GracefulInv => CountExact
    BY DEF GracefulInv
<1> QED
    BY <1>1, GracefulInvariant, PTL

\* The safety of the coordinator as a whole: the count is exact and shutdown() leaves
\* nobody behind.
THEOREM GracefulIsSafe == GracefulSpec => []GracefulSafe
<1>1. CountExact /\ ShutdownWaits => GracefulSafe
    BY DEF GracefulSafe
<1> QED
    BY <1>1, GracefulCountExact, GracefulShutdownWaits, PTL

-----------------------------------------------------------------------------
(* ServerConnections: who has been told, and whom a caller of shutdown()    *)
(* still waits for.                                                         *)

\* A request to shut down has signalled the sniff, if the protocol has one.
SniffTold ==
    /\ requested \cap Sniffing \subseteq sniffCancel
    /\ \A p \in Protocols : serve[p] = "sniffing" => p \in Sniffing

\* A connection that is neither to come nor over is registered.
LiveRegistered == \A p \in Protocols : serve[p] \in {"new", "over"} \/ p \in registry

\* What a caller took in its rounds is over, but for its last round.
RoundsDone ==
    \A h \in Hosts :
        /\ host[h] = "idle" => drained[h] = {}
        /\ \A p \in drained[h] \ round[h] : serve[p] = "over"

ConnsInv == ConnsTypeOK /\ NoneUnaware /\ SniffTold /\ LiveRegistered /\ RoundsDone

\* No connection is there yet.
LEMMA ConnsInitInv == ASSUME ConnsInit PROVE ConnsInv
<1>1. timed \in BOOLEAN
    BY Zenon DEF ConnsInit
<1> QED
    BY <1>1, ServerConnsConstants DEF ConnsInit, ConnsInv, ConnsTypeOK, NoneUnaware, SniffTold, LiveRegistered, RoundsDone

\* A step of a serve task keeps what is known: it moves forward, and it tells its driver.
LEMMA ServeInv ==
    ASSUME ConnsInv, NEW p \in Protocols,
           \/ ConnectionMade(p) \/ ServeSteps(p) \/ Sniffed(p)
           \/ DriverEnds(p) \/ DriverClosed(p)
    PROVE  ConnsInv'
<1> USE DEF ConnsInv, ConnsTypeOK, hostVars, ServeAt
<1>1. CASE ConnectionMade(p)
    BY <1>1 DEF ConnectionMade, NoneUnaware, SniffTold, LiveRegistered, RoundsDone
<1>2. CASE ServeStarts(p)
    BY <1>2 DEF ServeStarts, DriverMade, NoneUnaware, SniffTold, LiveRegistered, RoundsDone
<1>3. CASE SniffGivenUp(p)
    BY <1>3 DEF SniffGivenUp, NoneUnaware, SniffTold, LiveRegistered, RoundsDone
<1>4. CASE ServeCancelled(p)
    BY <1>4 DEF ServeCancelled, NoneUnaware, SniffTold, LiveRegistered, RoundsDone
<1>5. CASE Deregistered(p)
    BY <1>5 DEF Deregistered, NoneUnaware, SniffTold, LiveRegistered, RoundsDone
<1>6. CASE Sniffed(p)
    BY <1>6 DEF Sniffed, DriverMade, NoneUnaware, SniffTold, LiveRegistered, RoundsDone
<1>7. CASE DriverEnds(p)
    BY <1>7 DEF DriverEnds, NoneUnaware, SniffTold, LiveRegistered, RoundsDone
<1>8. CASE DriverClosed(p)
    BY <1>8 DEF DriverClosed, NoneUnaware, SniffTold, LiveRegistered, RoundsDone
<1> QED
    BY <1>1, <1>2, <1>3, <1>4, <1>5, <1>6, <1>7, <1>8 DEF ServeSteps

\* A call of graceful_shutdown() leaves its connection told, whatever the serve task is at.
LEMMA GracefulCallInv ==
    ASSUME ConnsInv, NEW h \in Hosts, NEW p \in Protocols, GracefulCall(h, p) PROVE ConnsInv'
BY DEF ConnsInv, ConnsTypeOK, GracefulCall, NoneUnaware, SniffTold, LiveRegistered, RoundsDone

\* The next round begins when what the rounds before it took is over.
LEMMA NextRoundInv ==
    ASSUME ConnsInv, NEW h \in Hosts, NextRound(h, drained[h]),
           \A p \in drained[h] : serve[p] = "over",
           UNCHANGED <<timed, jammed, serveVars, expired>>
    PROVE  ConnsInv'
<1>1. ConnsTypeOK'
    BY DEF ConnsInv, ConnsTypeOK, NextRound, serveVars
<1>2. NoneUnaware' /\ SniffTold' /\ LiveRegistered'
    BY DEF ConnsInv, NoneUnaware, SniffTold, LiveRegistered, serveVars
<1>3. RoundsDone'
    BY DEF ConnsInv, ConnsTypeOK, RoundsDone, NextRound, serveVars
<1> QED
    BY <1>1, <1>2, <1>3 DEF ConnsInv

\* shutdown() takes a round: the connections it tells are registered, and it waits for each.
LEMMA RoundTaken ==
    ASSUME ConnsInv, NEW h \in Hosts, RoundOver(h) PROVE \A p \in drained[h] : serve[p] = "over"
BY DEF ConnsInv, RoundsDone, RoundOver, Pending

\* The other steps of a caller.
LEMMA HostInv ==
    ASSUME ConnsInv, NEW h \in Hosts,
           ShutdownBegins(h) \/ HostSteps(h) \/ DeadlinePasses(h)
    PROVE  ConnsInv'
<1>1. CASE ShutdownBegins(h)
  <2>1. drained[h] = {}
      BY <1>1 DEF ConnsInv, RoundsDone, ShutdownBegins
  <2> QED
      BY <1>1, <2>1, NextRoundInv DEF ShutdownBegins
<1>2. CASE \E p \in Protocols : GracefulCall(h, p)
    BY <1>2, GracefulCallInv
<1>3. CASE RoundOver(h)
    BY <1>3, RoundTaken, NextRoundInv DEF RoundOver
<1>4. CASE CallsGathered(h)
    BY <1>4 DEF ConnsInv, ConnsTypeOK, CallsGathered, NoneUnaware, SniffTold, LiveRegistered, RoundsDone,
       serveVars
<1>5. CASE DeadlinePasses(h)
    BY <1>5 DEF ConnsInv, ConnsTypeOK, DeadlinePasses, NoneUnaware, SniffTold, LiveRegistered, RoundsDone,
       serveVars
<1>6. CASE ForceClose(h)
    BY <1>6 DEF ConnsInv, ConnsTypeOK, ForceClose, Pending, NoneUnaware, SniffTold, LiveRegistered,
       RoundsDone
<1> QED
    BY <1>1, <1>2, <1>3, <1>4, <1>5, <1>6 DEF HostSteps

\* A step of anything else leaves the connections as they were.
LEMMA ConnsStutterInv == ASSUME ConnsInv, UNCHANGED connsVars PROVE ConnsInv'
BY DEF ConnsInv, ConnsTypeOK, NoneUnaware, SniffTold, LiveRegistered, RoundsDone, connsVars, serveVars,
   hostVars

\* The inductive invariant of the connections of a server.
LEMMA ConnsInvariant == ConnsSpec => []ConnsInv
<1>1. ConnsInit => ConnsInv
    BY ConnsInitInv
<1>2. ConnsInv /\ [ConnsNext]_connsVars => ConnsInv'
    BY ServeInv, HostInv, ConnsStutterInv DEF ConnsNext, ConnsFinished
<1> QED
    BY <1>1, <1>2, PTL DEF ConnsSpec

\* The steps that are not a caller's own decision to return leave it where it is, or waiting.
LEMMA NotReturning ==
    ASSUME ConnsInv, NEW h \in Hosts, host[h] # "returned", [ConnsNext]_connsVars,
           ~ShutdownBegins(h), ~RoundOver(h)
    PROVE  host'[h] # "returned"
<1> USE DEF ConnsInv, ConnsTypeOK
<1>1. ASSUME NEW p \in Protocols,
             ConnectionMade(p) \/ ServeSteps(p) \/ Sniffed(p) \/ DriverEnds(p) \/ DriverClosed(p)
      PROVE  host' = host
    BY <1>1 DEF ConnectionMade, ServeSteps, ServeStarts, SniffGivenUp, ServeCancelled, Deregistered,
       Sniffed, DriverEnds, DriverClosed, hostVars
<1>2. ASSUME NEW g \in Hosts, ShutdownBegins(g) \/ RoundOver(g)
      PROVE  host'[h] = host[h]
    BY <1>2 DEF ShutdownBegins, RoundOver, NextRound
<1>3. ASSUME NEW g \in Hosts,
             CallsGathered(g) \/ ForceClose(g) \/ DeadlinePasses(g)
             \/ \E p \in Protocols : GracefulCall(g, p)
      PROVE  host'[h] # "returned"
    BY <1>3 DEF CallsGathered, ForceClose, DeadlinePasses, GracefulCall
<1>4. CASE UNCHANGED connsVars
    BY <1>4 DEF connsVars, hostVars
<1> QED
    BY <1>1, <1>2, <1>3, <1>4 DEF ConnsNext, HostSteps, ConnsFinished

\* A caller returns from shutdown() only when every connection made is over.
LEMMA ReturnsDrained ==
    ASSUME ConnsInv, NEW h \in Hosts, host[h] # "returned", host'[h] = "returned",
           [ConnsNext]_connsVars
    PROVE  \A p \in Protocols : serve[p] \in {"new", "over"}
<1>1. ShutdownBegins(h) \/ RoundOver(h)
    BY NotReturning
<1>2. /\ NextRound(h, drained[h])
      /\ \A p \in drained[h] : serve[p] = "over"
    BY <1>1, RoundTaken DEF ShutdownBegins, RoundOver, ConnsInv, RoundsDone
<1>3. registry \subseteq drained[h]
    BY <1>2 DEF ConnsInv, ConnsTypeOK, NextRound
<1> QED
    BY <1>2, <1>3 DEF ConnsInv, LiveRegistered

\* A serve task is cancelled only by a caller whose deadline has passed.
LEMMA CancelsAfterDeadline ==
    ASSUME ConnsInv, [ConnsNext]_connsVars
    PROVE  cancelling' \subseteq cancelling \/ expired # {}
<1>1. ASSUME NEW p \in Protocols,
             ConnectionMade(p) \/ ServeSteps(p) \/ Sniffed(p) \/ DriverEnds(p) \/ DriverClosed(p)
      PROVE  cancelling' \subseteq cancelling
    BY <1>1 DEF ConnectionMade, ServeSteps, ServeStarts, SniffGivenUp, ServeCancelled, Deregistered,
       Sniffed, DriverEnds, DriverClosed
<1>2. ASSUME NEW h \in Hosts, ShutdownBegins(h) \/ HostSteps(h) \/ DeadlinePasses(h)
      PROVE  cancelling' = cancelling \/ expired # {}
    BY <1>2 DEF ShutdownBegins, HostSteps, GracefulCall, CallsGathered, RoundOver, ForceClose,
       DeadlinePasses, serveVars
<1>3. CASE UNCHANGED connsVars
    BY <1>3 DEF connsVars, serveVars
<1> QED
    BY <1>1, <1>2, <1>3 DEF ConnsNext, ConnsFinished

\* DrainsEveryone: for any number of connections and of callers of shutdown(), a call
\* returns only when the serve task of every connection made so far is over, those
\* included that registered during its rounds (the loop of ServerConnections.shutdown);
\* nobody is cancelled before a deadline, and every driver that serves and every sniff
\* that runs knows of the shutdown requested of it.
THEOREM ConnsDrainEveryone == ConnsSpec => DrainsEveryone
<1>1. ConnsInv /\ ConnsInv' /\ [ConnsNext]_connsVars =>
        [/\ NoneUnaware'
         /\ (\E h \in Hosts : host[h] # "returned" /\ host'[h] = "returned") =>
               \A p \in Protocols : serve[p] \in {"new", "over"}
         /\ cancelling' \subseteq cancelling \/ expired # {}]_connsVars
    BY ReturnsDrained, CancelsAfterDeadline DEF ConnsInv
<1> QED
    BY <1>1, ConnsInvariant, PTL DEF ConnsSpec, DrainsEveryone

=============================================================================
