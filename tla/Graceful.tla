------------------------------- MODULE Graceful -------------------------------
(***************************************************************************)
(* httpunk.util.GracefulShutdown (httpunk/util/graceful.py): watchers of    *)
(* server connections register with the coordinator, drive their connection *)
(* to its end and then leave; shutdown() raises a signal on which every     *)
(* watcher asks its server to drain, and waits until all have left.         *)
(*                                                                         *)
(* An action is one critical section of _lock, one act on an event or one   *)
(* await. The server is external: it may end at any time (the peer closes,  *)
(* serve() raises or is cancelled), and ends once it drains.                *)
(***************************************************************************)
EXTENDS Naturals, FiniteSets

CONSTANTS
    Watchers,           \* the watchers that may register
    Closers             \* the tasks that call shutdown()

ASSUME GracefulConstants == IsFiniteSet(Watchers)

VARIABLES
    signal,     \* _signal
    live,       \* _live
    allDone,    \* _all_done
    wpc,        \* [Watchers -> where the watcher is]
    trigger,    \* [Watchers -> where its _trigger task is]
    told,       \* the watchers whose server was asked to drain
    spc,        \* [Closers -> where the caller of shutdown() is]
    before      \* [Closers -> history: the watchers registered when it raised the signal]

gracefulVars == <<signal, live, allDone, wpc, trigger, told, spc, before>>

\* Registered, and its task is not over.
Watching == {w \in Watchers : wpc[w] \in {"registered", "serving", "joining", "leaving"}}

\* Registered and never released: `_release` is a watcher's last step, which one
\* cancelled before its first step never reaches.
Unreleased == Watching \cup {w \in Watchers : wpc[w] = "lost"}

GracefulTypeOK ==
    /\ signal \in BOOLEAN /\ live \in Nat /\ allDone \in BOOLEAN
    /\ wpc \in [Watchers -> {"new", "registered", "serving", "joining", "leaving", "left", "lost"}]
    /\ trigger \in [Watchers -> {"none", "parked", "calling", "over"}]
    /\ told \subseteq Watchers
    /\ spc \in [Closers -> {"idle", "wait", "parked", "woken", "returned"}]
    /\ before \in [Closers -> SUBSET Watchers]

GracefulInit ==
    /\ signal = FALSE /\ live = 0 /\ allDone = TRUE
    /\ wpc = [w \in Watchers |-> "new"] /\ trigger = [w \in Watchers |-> "none"]
    /\ told = {}
    /\ spc = [s \in Closers |-> "idle"] /\ before = [s \in Closers |-> {}]

WatcherAt(w, place) == wpc' = [wpc EXCEPT ![w] = place]

-----------------------------------------------------------------------------
(* A watcher                                                                 *)

\* watcher(): the count is raised on the caller's task, before the spawn.
RegisterMutant(w) ==
    /\ wpc[w] = "new"
    /\ live' = live + 1 /\ UNCHANGED allDone
    /\ WatcherAt(w, "registered")
    /\ UNCHANGED <<signal, trigger, told, spc, before>>
Register(w) ==
    /\ wpc[w] = "new"
    /\ live' = live + 1 /\ allDone' = FALSE
    /\ WatcherAt(w, "registered")
    /\ UNCHANGED <<signal, trigger, told, spc, before>>

\* watch() starts to run: its trigger waits beside serve().
Start(w) ==
    /\ wpc[w] = "registered"
    /\ WatcherAt(w, "serving")
    /\ trigger' = [trigger EXCEPT ![w] = "parked"]
    /\ UNCHANGED <<signal, live, allDone, told, spc, before>>

\* The task that should run watch() is cancelled before its first step: the coroutine
\* is never entered, so neither is its `finally`.
CancelledUnstarted(w) ==
    /\ wpc[w] = "registered"
    /\ WatcherAt(w, "lost")
    /\ UNCHANGED <<signal, live, allDone, trigger, told, spc, before>>

\* _trigger: the signal is up, the server is asked to drain.
TriggerMutant(w) ==
    /\ trigger[w] = "parked" /\ signal
    /\ trigger' = [trigger EXCEPT ![w] = "over"]
    /\ UNCHANGED <<signal, live, allDone, wpc, told, spc, before>>
Trigger(w) ==
    /\ trigger[w] = "parked" /\ signal
    /\ trigger' = [trigger EXCEPT ![w] = "calling"]
    /\ told' = told \cup {w}
    /\ UNCHANGED <<signal, live, allDone, wpc, spc, before>>

TriggerOver(w) ==
    /\ trigger[w] = "calling"
    /\ trigger' = [trigger EXCEPT ![w] = "over"]
    /\ UNCHANGED <<signal, live, allDone, wpc, told, spc, before>>

\* serve() ends, in whatever way; the scope is cancelled and then joined.
ServeEnds(w) ==
    /\ wpc[w] = "serving"
    /\ WatcherAt(w, "joining")
    /\ UNCHANGED <<signal, live, allDone, trigger, told, spc, before>>

\* The cancelled trigger ends, unless it got past its wait first.
TriggerCancelledMutant(w) ==
    /\ wpc[w] = "joining" /\ trigger[w] = "calling"
    /\ trigger' = [trigger EXCEPT ![w] = "over"]
    /\ UNCHANGED <<signal, live, allDone, wpc, told, spc, before>>
TriggerCancelled(w) ==
    /\ wpc[w] = "joining" /\ trigger[w] \in {"parked", "calling"}
    /\ trigger' = [trigger EXCEPT ![w] = "over"]
    /\ UNCHANGED <<signal, live, allDone, wpc, told, spc, before>>

\* The scope is joined: the trigger has ended.
Join(w) ==
    /\ wpc[w] = "joining" /\ trigger[w] = "over"
    /\ WatcherAt(w, "leaving")
    /\ UNCHANGED <<signal, live, allDone, trigger, told, spc, before>>

\* _release: the last one to leave sets the event; every parked shutdown() wakes.
ReleaseMutant(w) ==
    /\ wpc[w] = "leaving"
    /\ live' = live - 1
    /\ allDone' = TRUE
    /\ spc' = [s \in Closers |-> IF spc[s] = "parked" THEN "woken" ELSE spc[s]]
    /\ WatcherAt(w, "left")
    /\ UNCHANGED <<signal, trigger, told, before>>
Release(w) ==
    /\ wpc[w] = "leaving"
    /\ live' = live - 1
    /\ IF live' = 0
       THEN /\ allDone' = TRUE
            /\ spc' = [s \in Closers |-> IF spc[s] = "parked" THEN "woken" ELSE spc[s]]
       ELSE UNCHANGED <<allDone, spc>>
    /\ WatcherAt(w, "left")
    /\ UNCHANGED <<signal, trigger, told, before>>

-----------------------------------------------------------------------------
(* shutdown()                                                                *)

\* The signal and the sample of the count are one step.
Shutdown(s) ==
    /\ spc[s] = "idle"
    /\ signal' = TRUE
    /\ before' = [before EXCEPT ![s] = Watching]
    /\ spc' = [spc EXCEPT ![s] = IF live > 0 THEN "wait" ELSE "returned"]
    /\ UNCHANGED <<live, allDone, wpc, trigger, told>>

\* _all_done.wait(): returns at once if the event is set, else parks until it is.
WaitAllDone(s) ==
    /\ spc[s] = "wait"
    /\ spc' = [spc EXCEPT ![s] = IF allDone THEN "returned" ELSE "parked"]
    /\ UNCHANGED <<signal, live, allDone, wpc, trigger, told, before>>

Woken(s) ==
    /\ spc[s] = "woken"
    /\ spc' = [spc EXCEPT ![s] = "returned"]
    /\ UNCHANGED <<signal, live, allDone, wpc, trigger, told, before>>

-----------------------------------------------------------------------------

Watch(w) ==
    \/ Register(w) \/ Start(w)
    \/ Trigger(w) \/ TriggerOver(w) \/ TriggerCancelled(w)
    \/ ServeEnds(w) \/ Join(w) \/ Release(w)

Close(s) == Shutdown(s) \/ WaitAllDone(s) \/ Woken(s)

\* Everybody is done.
GracefulFinished ==
    /\ \A w \in Watchers : wpc[w] \in {"left", "lost"}
    /\ \A s \in Closers : spc[s] \in {"returned", "parked"}
    /\ UNCHANGED gracefulVars

GracefulNext ==
    \/ \E w \in Watchers : Watch(w)
    \/ \E w \in Watchers : CancelledUnstarted(w)
    \/ \E s \in Closers : Close(s)
    \/ GracefulFinished

GracefulSpec == GracefulInit /\ [][GracefulNext]_gracefulVars

\* A registered watcher is spawned and runs, and so does its trigger; a server asked to
\* drain ends (its graceful_shutdown contract); shutdown() goes on. A watcher takes only
\* finitely many steps, so fairness to them together is fairness to each.
WatcherSteps(w) ==
    \/ Start(w) \/ Trigger(w) \/ TriggerOver(w) \/ TriggerCancelled(w)
    \/ (w \in told /\ ServeEnds(w)) \/ Join(w) \/ Release(w)

GracefulFair ==
    /\ \A w \in Watchers : WF_gracefulVars(WatcherSteps(w))
    /\ \A s \in Closers : WF_gracefulVars(WaitAllDone(s) \/ Woken(s))

GracefulLive == GracefulSpec /\ GracefulFair

-----------------------------------------------------------------------------
(* Properties.                                                               *)

\* The count is the number of watchers that registered and did not release, and the
\* event is set exactly when it is zero, so that shutdown() can rely on either.
CountExact ==
    /\ live = Cardinality(Unreleased)
    /\ allDone <=> live = 0

\* "a watch registered right before the signal is always waited for" (shutdown): when
\* shutdown() has returned, every watcher registered before its signal has left.
ShutdownWaits ==
    \A s \in Closers : spc[s] = "returned" => before[s] \cap Watching = {}

\* The safety of the coordinator: its count is exact, and nobody is left behind.
GracefulSafe == CountExact /\ ShutdownWaits

\* shutdown() returns: every server that runs on is told, drains and ends. Only a
\* watcher cancelled before its first step, whose count nobody drops, keeps it waiting.
ShutdownReturned ==
    \A s \in Closers :
        spc[s] \in {"idle", "returned"} \/ \E w \in Watchers : wpc[w] = "lost"

\* "If serve() raises ... skipping this leaves _trigger parked on the signal forever"
\* (watch): a watcher whose connection ended leaves, signal or no signal.
EndedLeft == \A w \in Watchers : wpc[w] \notin {"joining", "leaving"}

\* Nobody waits for ever, in shutdown() or in a watcher whose connection ended. (Every
\* task takes finitely many steps: what is not so in the end was waited for in vain.)
GracefulEnds == <>[](ShutdownReturned /\ EndedLeft)

\* What _Watcher says of the count ("drops the count when it ends, however it ends"),
\* which CancelledUnstarted breaks (README, known divergences).
CountDrops == live = Cardinality(Watching)

=============================================================================
