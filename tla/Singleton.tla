------------------------------ MODULE Singleton ------------------------------
(***************************************************************************)
(* httpunk.util.Singleton (httpunk/util/pool.py): one connection shared by  *)
(* every caller, made by the first caller that finds none (the driver of a  *)
(* round) while the others wait for the round's outcome; retain() evicts it, *)
(* aclose() closes it and ditches a round in flight.                        *)
(*                                                                         *)
(* A connection has the name of the round that made it. An action is one    *)
(* critical section of _lock, one act on a round's event, or one await.     *)
(* The connector, the handshake and the peer are external: they succeed,    *)
(* fail or are cancelled as they like.                                      *)
(***************************************************************************)
EXTENDS Naturals, FiniteSets

CONSTANTS
    Tasks,      \* the tasks that call the pool
    Rounds,     \* the numbers of the rounds, and of their connections
    None,       \* no round, no connection
    MaxCalls    \* how many calls the tasks make in all

ASSUME SingletonConstants == None \notin Rounds /\ MaxCalls \in Nat
ASSUME RoundsNumbered == Rounds \subseteq Nat

VARIABLES
    state,      \* "empty", "making", "made"
    conn,       \* _conn
    rnd,        \* _rnd, the round in flight
    res,        \* [Rounds -> the outcome the round's members read]
    ready,      \* [Rounds -> BOOLEAN]: the round's event
    life,       \* [Rounds -> what became of the round's connection]
    pc,         \* [Tasks -> where the task is]
    my,         \* [Tasks -> the round the task drives, waits for or drops]
    held,       \* [Tasks -> a connection the task took out of the pool or looks at]
    out,        \* [Tasks -> what its last get() did]
    ditched,    \* history: the rounds started before the latest aclose()
    left        \* calls left, a bound

poolVars == <<state, conn, rnd>>
roundVars == <<res, ready>>
taskVars == <<pc, my, held, out>>
singletonVars == <<poolVars, roundVars, life, taskVars, ditched, left>>

\* Where a round's driver is before it has reported the outcome.
Driving == {"stale", "dial", "enter", "install", "installed", "refused",
            "raise", "abandon", "failed"}
\* Where a task holds a connection it took out of the pool, to close it.
Closing == {"stale", "ditch", "evict"}

SingletonTypeOK ==
    /\ state \in {"empty", "making", "made"}
    /\ conn \in Rounds \cup {None} /\ rnd \in Rounds \cup {None}
    /\ res \in [Rounds -> {"unused", "open", "conn", "error", "abandoned"}]
    /\ ready \in [Rounds -> BOOLEAN]
    /\ life \in [Rounds -> {"none", "dialed", "open", "dead", "closed"}]
    /\ pc \in [Tasks -> Driving \cup Closing \cup {"idle", "again", "wait", "close", "judge"}]
    /\ my \in [Tasks -> Rounds \cup {None}] /\ held \in [Tasks -> Rounds \cup {None}]
    /\ out \in [Tasks -> {"none", "conn", "error", "canceled", "cancelled"}]
    /\ ditched \subseteq Rounds /\ left \in Nat

SingletonInit ==
    /\ state = "empty" /\ conn = None /\ rnd = None
    /\ res = [r \in Rounds |-> "unused"] /\ ready = [r \in Rounds |-> FALSE]
    /\ life = [r \in Rounds |-> "none"]
    /\ pc = [t \in Tasks |-> "idle"] /\ my = [t \in Tasks |-> None]
    /\ held = [t \in Tasks |-> None] /\ out = [t \in Tasks |-> "none"]
    /\ ditched = {} /\ left = MaxCalls

Goto(t, place) == pc' = [pc EXCEPT ![t] = place]

\* A new call of an idle task uses up one of the calls; the retry of get() does not.
Calls(t) ==
    \/ pc[t] = "idle" /\ left > 0 /\ left' = left - 1
    \/ pc[t] = "again" /\ UNCHANGED left

-----------------------------------------------------------------------------
(* get()                                                                     *)

\* The shared connection, if it is alive.
GetMade(t) ==
    /\ Calls(t)
    /\ state = "made" /\ life[conn] = "open"
    /\ Goto(t, "idle") /\ out' = [out EXCEPT ![t] = "conn"]
    /\ UNCHANGED <<poolVars, roundVars, life, my, held, ditched>>

\* No connection, or a dead one: this call drives a new round, after closing the
\* dead one.
GetDrive(t) ==
    /\ Calls(t)
    /\ \/ state = "empty"
       \/ state = "made" /\ life[conn] # "open"
    /\ \E r \in {q \in Rounds : res[q] = "unused"} :
         /\ \A q \in Rounds : res[q] = "unused" => r <= q
         /\ rnd' = r
         /\ res' = [res EXCEPT ![r] = "open"]
         /\ my' = [my EXCEPT ![t] = r]
    /\ state' = "making" /\ conn' = None
    /\ held' = [held EXCEPT ![t] = conn]
    /\ Goto(t, IF conn # None THEN "stale" ELSE "dial")
    /\ out' = [out EXCEPT ![t] = "none"]
    /\ UNCHANGED <<ready, life, ditched>>

\* A round is in flight: wait for its outcome.
GetJoin(t) ==
    /\ Calls(t)
    /\ state = "making"
    /\ my' = [my EXCEPT ![t] = rnd]
    /\ Goto(t, "wait")
    /\ out' = [out EXCEPT ![t] = "none"]
    /\ UNCHANGED <<poolVars, roundVars, life, held, ditched>>

\* stale.__aexit__: the close is committed before it suspends, its errors are
\* suppressed.
CloseStale(t) ==
    /\ pc[t] = "stale"
    /\ life' = [life EXCEPT ![held[t]] = "closed"]
    /\ Goto(t, "dial")
    /\ UNCHANGED <<poolVars, roundVars, my, held, out, ditched, left>>

\* The connector returned a connection that is not entered yet.
Dialed(t) ==
    /\ pc[t] = "dial"
    /\ life' = [life EXCEPT ![my[t]] = "dialed"]
    /\ Goto(t, "enter")
    /\ UNCHANGED <<poolVars, roundVars, my, held, out, ditched, left>>

\* __aenter__ finished the handshake.
Entered(t) ==
    /\ pc[t] = "enter"
    /\ life' = [life EXCEPT ![my[t]] = "open"]
    /\ Goto(t, "install")
    /\ UNCHANGED <<poolVars, roundVars, my, held, out, ditched, left>>

\* The connector or the handshake raised, or the driver was cancelled there; a
\* handshake that ends this way aborts its connection (BaseClientConnection).
ConnectFails(t) ==
    /\ pc[t] \in {"dial", "enter"}
    /\ life' = IF pc[t] = "enter" THEN [life EXCEPT ![my[t]] = "closed"] ELSE life
    /\ \E how \in {"raise", "abandon"} : Goto(t, how)
    /\ UNCHANGED <<poolVars, roundVars, my, held, out, ditched, left>>

\* The failure is reported to the round, unless aclose() has ditched it.
FailRoundMutant(t) ==
    /\ pc[t] \in {"raise", "abandon"}
    /\ state' = "empty" /\ rnd' = None /\ UNCHANGED conn
    /\ res' = [res EXCEPT ![my[t]] = IF pc[t] = "raise" THEN "error" ELSE "abandoned"]
    /\ Goto(t, "failed")
    /\ out' = [out EXCEPT ![t] = IF pc[t] = "raise" THEN "error" ELSE "cancelled"]
    /\ UNCHANGED <<ready, life, my, held, ditched, left>>
FailRound(t) ==
    /\ pc[t] \in {"raise", "abandon"}
    /\ IF rnd = my[t]
       THEN /\ state' = "empty" /\ rnd' = None /\ UNCHANGED conn
            /\ res' = [res EXCEPT ![my[t]] = IF pc[t] = "raise" THEN "error" ELSE "abandoned"]
       ELSE UNCHANGED <<poolVars, res>>
    /\ Goto(t, "failed")
    /\ out' = [out EXCEPT ![t] = IF pc[t] = "raise" THEN "error" ELSE "cancelled"]
    /\ UNCHANGED <<ready, life, my, held, ditched, left>>

\* The connection becomes the shared one, unless aclose() has ditched the round.
InstallMutant(t) ==
    /\ pc[t] = "install"
    /\ conn' = my[t] /\ state' = "made" /\ rnd' = None
    /\ res' = [res EXCEPT ![my[t]] = "conn"]
    /\ Goto(t, "installed")
    /\ UNCHANGED <<ready, life, my, held, out, ditched, left>>
Install(t) ==
    /\ pc[t] = "install"
    /\ IF rnd = my[t]
       THEN /\ conn' = my[t] /\ state' = "made" /\ rnd' = None
            /\ res' = [res EXCEPT ![my[t]] = "conn"]
            /\ Goto(t, "installed")
       ELSE /\ UNCHANGED <<poolVars, res>>
            /\ Goto(t, "refused")
    /\ UNCHANGED <<ready, life, my, held, out, ditched, left>>

\* rnd.ready.set(), at the end of every driver.
ReportMutant(t) ==
    /\ pc[t] \in {"installed", "refused", "failed"}
    /\ ready' = [ready EXCEPT ![my[t]] = pc[t] # "failed"]
    /\ Goto(t, IF pc[t] = "refused" THEN "close" ELSE "idle")
    /\ out' = IF pc[t] = "installed" THEN [out EXCEPT ![t] = "conn"] ELSE out
    /\ UNCHANGED <<poolVars, res, life, my, held, ditched, left>>
Report(t) ==
    /\ pc[t] \in {"installed", "refused", "failed"}
    /\ ready' = [ready EXCEPT ![my[t]] = TRUE]
    /\ Goto(t, IF pc[t] = "refused" THEN "close" ELSE "idle")
    /\ out' = IF pc[t] = "installed" THEN [out EXCEPT ![t] = "conn"] ELSE out
    /\ UNCHANGED <<poolVars, res, life, my, held, ditched, left>>

\* A ditched round's driver closes what it made and raises Canceled.
CloseRefused(t) ==
    /\ pc[t] = "close"
    /\ life' = [life EXCEPT ![my[t]] = "closed"]
    /\ Goto(t, "idle") /\ out' = [out EXCEPT ![t] = "canceled"]
    /\ UNCHANGED <<poolVars, roundVars, my, held, ditched, left>>

\* A waiter reads the outcome of its own round; an abandoned round is retried.
WaitOverMutant(t) ==
    /\ pc[t] = "wait" /\ ready[my[t]]
    /\ Goto(t, "idle")
    /\ out' = [out EXCEPT ![t] = CASE res[my[t]] = "conn" -> "conn"
                                   [] res[my[t]] = "error" -> "error"
                                   [] OTHER -> "canceled"]
    /\ UNCHANGED <<poolVars, roundVars, life, my, held, ditched, left>>
WaitOver(t) ==
    /\ pc[t] = "wait" /\ ready[my[t]]
    /\ Goto(t, IF res[my[t]] = "abandoned" THEN "again" ELSE "idle")
    /\ out' = [out EXCEPT ![t] = CASE res[my[t]] = "conn" -> "conn"
                                   [] res[my[t]] = "error" -> "error"
                                   [] res[my[t]] = "abandoned" -> "none"
                                   [] OTHER -> "canceled"]
    /\ UNCHANGED <<poolVars, roundVars, life, my, held, ditched, left>>

WaitCancelled(t) ==
    /\ pc[t] = "wait"
    /\ Goto(t, "idle") /\ out' = [out EXCEPT ![t] = "cancelled"]
    /\ UNCHANGED <<poolVars, roundVars, life, my, held, ditched, left>>

-----------------------------------------------------------------------------
(* retain() and aclose()                                                     *)

\* The connection the predicate will judge, outside the lock.
RetainLook(t) ==
    /\ pc[t] = "idle" /\ left > 0 /\ left' = left - 1
    /\ state = "made"
    /\ held' = [held EXCEPT ![t] = conn]
    /\ Goto(t, "judge") /\ out' = [out EXCEPT ![t] = "none"]
    /\ UNCHANGED <<poolVars, roundVars, life, my, ditched>>

RetainKeep(t) ==
    /\ pc[t] = "judge"
    /\ Goto(t, "idle")
    /\ UNCHANGED <<poolVars, roundVars, life, my, held, out, ditched, left>>

\* The predicate said no: evict the connection if it is still the shared one.
RetainDropMutant(t) ==
    /\ pc[t] = "judge"
    /\ conn' = None /\ state' = "empty" /\ UNCHANGED rnd
    /\ Goto(t, "evict")
    /\ UNCHANGED <<roundVars, life, my, held, out, ditched, left>>
RetainDrop(t) ==
    /\ pc[t] = "judge"
    /\ IF conn = held[t]
       THEN conn' = None /\ state' = "empty" /\ UNCHANGED rnd /\ Goto(t, "evict")
       ELSE UNCHANGED poolVars /\ Goto(t, "idle")
    /\ UNCHANGED <<roundVars, life, my, held, out, ditched, left>>

\* aclose() empties the pool in one step.
Aclose(t) ==
    /\ pc[t] = "idle" /\ left > 0 /\ left' = left - 1
    /\ conn' = None /\ state' = "empty" /\ rnd' = None
    /\ held' = [held EXCEPT ![t] = conn] /\ my' = [my EXCEPT ![t] = rnd]
    /\ Goto(t, IF rnd # None THEN "ditch" ELSE IF conn # None THEN "evict" ELSE "idle")
    /\ ditched' = {r \in Rounds : res[r] # "unused"}
    /\ out' = [out EXCEPT ![t] = "none"]
    /\ UNCHANGED <<roundVars, life>>

\* aclose() wakes the members of the round it dropped.
Ditch(t) ==
    /\ pc[t] = "ditch"
    /\ ready' = [ready EXCEPT ![my[t]] = TRUE]
    /\ Goto(t, IF held[t] # None THEN "evict" ELSE "idle")
    /\ UNCHANGED <<poolVars, res, life, my, held, out, ditched, left>>

\* __aexit__ of the connection taken out of the pool.
Evict(t) ==
    /\ pc[t] = "evict"
    /\ life' = [life EXCEPT ![held[t]] = "closed"]
    /\ Goto(t, "idle")
    /\ UNCHANGED <<poolVars, roundVars, my, held, out, ditched, left>>

\* The peer closes a connection, or it fails: its `closed` turns True.
PeerCloses(c) ==
    /\ life[c] = "open"
    /\ life' = [life EXCEPT ![c] = "dead"]
    /\ UNCHANGED <<poolVars, roundVars, taskVars, ditched, left>>

-----------------------------------------------------------------------------

Call(t) ==
    \/ GetMade(t) \/ GetDrive(t) \/ GetJoin(t)
    \/ RetainLook(t) \/ Aclose(t)

Work(t) ==
    \/ CloseStale(t) \/ Dialed(t) \/ Entered(t) \/ ConnectFails(t)
    \/ FailRound(t) \/ Install(t) \/ Report(t) \/ CloseRefused(t)
    \/ WaitOver(t) \/ RetainKeep(t) \/ RetainDrop(t) \/ Ditch(t) \/ Evict(t)

\* Every call is over: the tasks have nothing left to do.
SingletonFinished == left = 0 /\ (\A t \in Tasks : pc[t] = "idle") /\ UNCHANGED singletonVars

SingletonNext ==
    \/ \E t \in Tasks : Call(t)
    \/ \E t \in Tasks : Work(t)
    \/ \E t \in Tasks : WaitCancelled(t)
    \/ \E c \in Rounds : PeerCloses(c)
    \/ SingletonFinished

SingletonSpec == SingletonInit /\ [][SingletonNext]_singletonVars

\* A task that started a call goes on with it; connects and closes come to an end.
SingletonFair ==
    /\ \A t \in Tasks :
         WF_singletonVars(Work(t)) /\ WF_singletonVars(pc[t] = "again" /\ Call(t))

SingletonLive == SingletonSpec /\ SingletonFair

-----------------------------------------------------------------------------
(* Properties.                                                               *)

\* The driver of round r: the one task that will report its outcome.
Drivers(r) == {t \in Tasks : my[t] = r /\ pc[t] \in Driving}

\* The state, the connection and the round of the pool agree, and a round in flight
\* has exactly one driver: "exactly one driver per batch" (pool.py get()).
OneDriver ==
    /\ state = "making" <=> rnd # None
    /\ state = "made" <=> conn # None
    /\ rnd # None => \E t \in Tasks : Drivers(rnd) = {t}

\* Nobody waits for a round that no task will report: not the driver that made,
\* failed or was cancelled, and not the aclose() that dropped it.
NoStrandedWaiter ==
    \A t \in Tasks :
        pc[t] = "wait" /\ ~ready[my[t]] =>
            \/ Drivers(my[t]) # {}
            \/ \E u \in Tasks : pc[u] = "ditch" /\ my[u] = my[t]

\* The tasks that hold connection c outside the pool: its maker, or who took it out.
Holders(c) ==
    {t \in Tasks : \/ my[t] = c /\ pc[t] \in {"enter", "install", "refused", "close"}
                   \/ held[t] = c /\ pc[t] \in Closing}

\* "The pool owns the connection's lifetime" (pool.py): a connection that is not
\* closed is the shared one or in the hands of exactly one task that will install or
\* close it, so none leaks and none is closed twice.
SoleOwner ==
    \A c \in Rounds :
        /\ life[c] \in {"dialed", "open", "dead"} /\ c # conn => \E t \in Tasks : Holders(c) = {t}
        /\ c = conn => Holders(c) = {} /\ life[c] \in {"open", "dead"}

\* "never resurrect it" (pool.py get()): after an aclose() the pool never holds a
\* connection of a round begun before it, however late that round's driver ends.
NotResurrected == conn \notin ditched /\ rnd \notin ditched

\* Canceled means what get() says: only aclose() dropping the caller's round raises
\* it, never a failed or a cancelled driver.
CanceledByClose ==
    \A t \in Tasks : out[t] = "canceled" => my[t] \in ditched

\* The safety of the pool: of its rounds, of who waits for them, and of the connections.
PoolSafe == OneDriver /\ NoStrandedWaiter /\ SoleOwner /\ NotResurrected /\ CanceledByClose

\* Every get(), retain() and aclose() comes to an end, whatever the other callers do. (The
\* calls are bounded: one that never ends is one that is still there in the end.)
CallsEnd == <>[](\A t \in Tasks : pc[t] = "idle")

=============================================================================
