------------------------------ MODULE ConnCache ------------------------------
(***************************************************************************)
(* httpunk.util.Cache and its _Lease (httpunk/util/pool.py): a set of idle  *)
(* connections, each lent to one task at a time. A lease that ends well     *)
(* parks its connection, any other end closes it; retain() and aclose()     *)
(* take idle connections out and close them one after the other.            *)
(*                                                                         *)
(* An action is one critical section of _lock or one await. The idle list   *)
(* is a set: its order only decides which connection is lent. The peer, the *)
(* connector and the exchanges on a lent connection are external.           *)
(***************************************************************************)
EXTENDS FiniteSets

CONSTANTS
    Users,          \* the tasks that use the cache
    Conns,          \* the connections that can be made, a bound
    NoConn          \* no connection

ASSUME CacheConstants == NoConn \notin Conns

VARIABLES
    idle,       \* _idle
    closed,     \* _closed
    health,     \* [Conns -> what became of the connection]
    busy,       \* [Conns -> BOOLEAN]: an exchange holds the connection's slot
    at,         \* [Users -> where the task is]
    lent,       \* [Users -> the connection of the task's lease]
    rejects,    \* [Users -> the connections its predicate rejected]
    drop,       \* [Users -> the connections it took out and has still to close]
    abandoned   \* history: the connections a cancelled retain() or aclose() left open

cacheVars == <<idle, closed>>
leaseVars == <<cacheVars, health, busy, at, lent, rejects, drop, abandoned>>

Places == {"idle", "dial", "enter", "use", "park", "close", "judged", "evict", "evicting"}

CacheTypeOK ==
    /\ idle \subseteq Conns /\ closed \in BOOLEAN
    /\ health \in [Conns -> {"none", "dialed", "open", "dead", "closed"}]
    /\ busy \in [Conns -> BOOLEAN]
    /\ at \in [Users -> Places]
    /\ lent \in [Users -> Conns \cup {NoConn}]
    /\ rejects \in [Users -> SUBSET Conns] /\ drop \in [Users -> SUBSET Conns]
    /\ abandoned \subseteq Conns

CacheInit ==
    /\ idle = {} /\ closed = FALSE
    /\ health = [c \in Conns |-> "none"] /\ busy = [c \in Conns |-> FALSE]
    /\ at = [t \in Users |-> "idle"] /\ lent = [t \in Users |-> NoConn]
    /\ rejects = [t \in Users |-> {}] /\ drop = [t \in Users |-> {}] /\ abandoned = {}

MoveTo(t, place) == at' = [at EXCEPT ![t] = place]

\* The connection answers `closed` with True.
Dead(c) == health[c] \in {"dead", "closed"}

-----------------------------------------------------------------------------
(* A lease                                                                   *)

\* _acquire takes an idle connection, without asking whether it is alive.
Reuse(t) ==
    /\ at[t] = "idle"
    /\ \E c \in idle :
         /\ idle' = idle \ {c}
         /\ lent' = [lent EXCEPT ![t] = c]
    /\ MoveTo(t, "use")
    /\ UNCHANGED <<closed, health, busy, rejects, drop, abandoned>>

\* _acquire finds none: it connects at once.
Connect(t) ==
    /\ at[t] = "idle" /\ idle = {}
    /\ MoveTo(t, "dial")
    /\ UNCHANGED <<cacheVars, health, busy, lent, rejects, drop, abandoned>>

LeaseDialed(t) ==
    /\ at[t] = "dial"
    /\ \E c \in Conns :
         /\ health[c] = "none"
         /\ health' = [health EXCEPT ![c] = "dialed"]
         /\ lent' = [lent EXCEPT ![t] = c]
    /\ MoveTo(t, "enter")
    /\ UNCHANGED <<cacheVars, busy, rejects, drop, abandoned>>

LeaseEntered(t) ==
    /\ at[t] = "enter"
    /\ health' = [health EXCEPT ![lent[t]] = "open"]
    /\ MoveTo(t, "use")
    /\ UNCHANGED <<cacheVars, busy, lent, rejects, drop, abandoned>>

\* The connector or the handshake failed or was cancelled: the lease is not entered,
\* and the handshake aborts its connection (BaseClientConnection.__aenter__).
LeaseFails(t) ==
    /\ at[t] \in {"dial", "enter"}
    /\ health' = IF at[t] = "enter" THEN [health EXCEPT ![lent[t]] = "closed"] ELSE health
    /\ lent' = [lent EXCEPT ![t] = NoConn]
    /\ MoveTo(t, "idle")
    /\ UNCHANGED <<cacheVars, busy, rejects, drop, abandoned>>

\* The body of the lease: an exchange claims the connection's slot and frees it.
Exchange(t) ==
    /\ at[t] = "use"
    /\ busy[lent[t]] \/ ~Dead(lent[t])
    /\ busy' = [busy EXCEPT ![lent[t]] = ~busy[lent[t]]]
    /\ UNCHANGED <<cacheVars, health, at, lent, rejects, drop, abandoned>>

\* __aexit__ after a clean body: park only what is alive and not busy.
ExitCleanMutant(t) ==
    /\ at[t] = "use"
    /\ MoveTo(t, IF Dead(lent[t]) THEN "close" ELSE "park")
    /\ UNCHANGED <<cacheVars, health, busy, lent, rejects, drop, abandoned>>
ExitClean(t) ==
    /\ at[t] = "use"
    /\ MoveTo(t, IF Dead(lent[t]) \/ busy[lent[t]] THEN "close" ELSE "park")
    /\ UNCHANGED <<cacheVars, health, busy, lent, rejects, drop, abandoned>>

\* __aexit__ after an exception.
ExitRaised(t) ==
    /\ at[t] = "use"
    /\ MoveTo(t, "close")
    /\ UNCHANGED <<cacheVars, health, busy, lent, rejects, drop, abandoned>>

\* _checkin: parked, or refused once the cache is closed.
CheckinMutant(t) ==
    /\ at[t] = "park"
    /\ idle' = idle \cup {lent[t]}
    /\ lent' = [lent EXCEPT ![t] = NoConn]
    /\ MoveTo(t, "idle")
    /\ UNCHANGED <<closed, health, busy, rejects, drop, abandoned>>
Checkin(t) ==
    /\ at[t] = "park"
    /\ IF closed
       THEN MoveTo(t, "close") /\ UNCHANGED <<idle, lent>>
       ELSE /\ idle' = idle \cup {lent[t]}
            /\ lent' = [lent EXCEPT ![t] = NoConn]
            /\ MoveTo(t, "idle")
    /\ UNCHANGED <<closed, health, busy, rejects, drop, abandoned>>

\* The lease closes its connection; the close is committed before it suspends.
CloseLent(t) ==
    /\ at[t] = "close"
    /\ health' = [health EXCEPT ![lent[t]] = "closed"]
    /\ busy' = [busy EXCEPT ![lent[t]] = FALSE]
    /\ lent' = [lent EXCEPT ![t] = NoConn]
    /\ MoveTo(t, "idle")
    /\ UNCHANGED <<cacheVars, rejects, drop, abandoned>>

-----------------------------------------------------------------------------
(* retain() and aclose()                                                     *)

\* retain: the predicate judges a snapshot, outside the lock.
Judge(t) ==
    /\ at[t] = "idle"
    /\ \E bad \in SUBSET idle \ {{}} : rejects' = [rejects EXCEPT ![t] = bad]
    /\ MoveTo(t, "judged")
    /\ UNCHANGED <<cacheVars, health, busy, lent, drop, abandoned>>

\* retain: what was rejected and is still idle is taken out.
TakeRejectedMutant(t) ==
    /\ at[t] = "judged"
    /\ drop' = [drop EXCEPT ![t] = rejects[t]]
    /\ idle' = idle \ rejects[t]
    /\ rejects' = [rejects EXCEPT ![t] = {}]
    /\ MoveTo(t, IF rejects[t] = {} THEN "idle" ELSE "evict")
    /\ UNCHANGED <<closed, health, busy, lent, abandoned>>
TakeRejected(t) ==
    /\ at[t] = "judged"
    /\ drop' = [drop EXCEPT ![t] = idle \cap rejects[t]]
    /\ idle' = idle \ rejects[t]
    /\ rejects' = [rejects EXCEPT ![t] = {}]
    /\ MoveTo(t, IF idle \cap rejects[t] = {} THEN "idle" ELSE "evict")
    /\ UNCHANGED <<closed, health, busy, lent, abandoned>>

\* aclose: every idle connection is taken out and the cache is closed, in one step.
CacheAclose(t) ==
    /\ at[t] = "idle"
    /\ drop' = [drop EXCEPT ![t] = idle]
    /\ idle' = {} /\ closed' = TRUE
    /\ MoveTo(t, IF idle = {} THEN "idle" ELSE "evict")
    /\ UNCHANGED <<health, busy, lent, rejects, abandoned>>

\* The loop that closes what was taken out, one connection after the other.
EvictOneMutant(t) ==
    /\ at[t] \in {"evict", "evicting"}
    /\ \E c \in drop[t] : health' = [health EXCEPT ![c] = "closed"]
    /\ drop' = [drop EXCEPT ![t] = {}]
    /\ MoveTo(t, "idle")
    /\ UNCHANGED <<cacheVars, busy, lent, rejects, abandoned>>
EvictOne(t) ==
    /\ at[t] \in {"evict", "evicting"}
    /\ \E c \in drop[t] :
         /\ health' = [health EXCEPT ![c] = "closed"]
         /\ drop' = [drop EXCEPT ![t] = @ \ {c}]
         /\ MoveTo(t, IF drop[t] = {c} THEN "idle" ELSE "evicting")
    /\ UNCHANGED <<cacheVars, busy, lent, rejects, abandoned>>

\* A cancellation delivered while the loop awaits one connection's close leaves it.
EvictCancelled(t) ==
    /\ at[t] = "evicting"
    /\ abandoned' = abandoned \cup drop[t]
    /\ drop' = [drop EXCEPT ![t] = {}]
    /\ MoveTo(t, "idle")
    /\ UNCHANGED <<cacheVars, health, busy, lent, rejects>>

\* The peer closes a connection, or it fails: its `closed` turns True.
PeerHangsUp(c) ==
    /\ health[c] = "open"
    /\ health' = [health EXCEPT ![c] = "dead"]
    /\ UNCHANGED <<cacheVars, busy, at, lent, rejects, drop, abandoned>>

-----------------------------------------------------------------------------

Lease(t) ==
    \/ Reuse(t) \/ Connect(t) \/ LeaseDialed(t) \/ LeaseEntered(t) \/ LeaseFails(t)
    \/ Exchange(t) \/ ExitClean(t) \/ ExitRaised(t) \/ Checkin(t) \/ CloseLent(t)

Evictions(t) ==
    \/ Judge(t) \/ TakeRejected(t) \/ CacheAclose(t) \/ EvictOne(t)

CacheNext ==
    \/ \E t \in Users : Lease(t)
    \/ \E t \in Users : Evictions(t)
    \/ \E t \in Users : EvictCancelled(t)
    \/ \E c \in Conns : PeerHangsUp(c)

CacheSpec == CacheInit /\ [][CacheNext]_leaseVars

-----------------------------------------------------------------------------
(* Properties.                                                               *)

\* The tasks that have connection c in their hands, by a lease or to close it.
HeldBy(c) == {t \in Users : lent[t] = c \/ c \in drop[t]}

\* One request at a time per connection: whatever leases, evictions, closes and
\* cancellations overlap, a connection is idle or in the hands of at most one task, so
\* it is never lent twice, closed under a lease, or used once it is closed.
OneHolder ==
    \A c \in Conns :
        /\ \A t, u \in HeldBy(c) : t = u
        /\ c \in idle \/ health[c] \in {"none", "closed"} => HeldBy(c) = {}
        /\ c \in idle => health[c] \in {"open", "dead"}

\* "parking that connection would deadlock the next checkout" (_Lease.__aexit__): no
\* idle connection's slot is held by an exchange that never completed.
NeverParkBusy == \A c \in idle : ~busy[c]

\* "the pool can never be resurrected by a lease that outlived it" (Cache.__init__):
\* once closed the cache holds nothing.
ClosedStaysEmpty == closed => idle = {}

\* "closes it (__aexit__) on eviction" (pool.py): no connection stays open that is
\* neither idle nor in anybody's hands, but for those a cancelled eviction gave up.
EvictedAreClosed ==
    \A c \in Conns :
        health[c] \in {"dialed", "open", "dead"} => c \in idle \cup abandoned \/ HeldBy(c) # {}

\* The safety of the cache: of its leases, and of what it is done with.
CacheSafe == OneHolder /\ NeverParkBusy /\ ClosedStaysEmpty /\ EvictedAreClosed

\* What aclose says of itself ("Close every idle connection"), which EvictCancelled
\* breaks (README, known divergences).
NothingAbandoned == \A c \in abandoned : health[c] = "closed"

=============================================================================
