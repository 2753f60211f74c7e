----------------------------- MODULE PoolProofs -----------------------------
(***************************************************************************)
(* Proofs of the safety properties of Singleton, for any sets of tasks and  *)
(* rounds, of ConnCache, for any sets of tasks and connections, and of      *)
(* PoolMap, for any sets of tasks, of keys and any number of pools.         *)
(***************************************************************************)
EXTENDS Singleton, ConnCache, PoolMap, SequenceTheorems, TLAPS

-----------------------------------------------------------------------------
(* The shared connection.                                                   *)

\* The driver of the round in flight has not yet reported to the pool.
Making == {"stale", "dial", "enter", "install", "raise", "abandon"}

\* A round that was started and has no outcome is in flight or was ditched; a round
\* with its event set has its outcome or was ditched; one never started is untouched.
RoundsOK ==
    /\ ditched \subseteq {r \in Rounds : res[r] # "unused"}
    /\ \A r \in Rounds :
         /\ res[r] = "open" => r = rnd \/ r \in ditched
         /\ res[r] = "open" /\ ready[r] => r \in ditched
         /\ res[r] = "unused" => ~ready[r] /\ life[r] = "none"
    /\ rnd # None => res[rnd] = "open"
    /\ conn # None => res[conn] = "conn" /\ life[conn] \in {"open", "dead"}

\* What a task's place says of its round.
DriverOK(t) ==
    /\ pc[t] \in Driving \cup {"wait", "ditch", "close"} =>
         my[t] \in Rounds /\ res[my[t]] # "unused"
    /\ pc[t] \in {"stale", "dial", "enter", "install", "refused", "close"} => res[my[t]] = "open"
    /\ pc[t] \in {"raise", "abandon"} => res[my[t]] = "open"
    /\ pc[t] \in {"refused", "close", "ditch"} => my[t] \in ditched
    /\ pc[t] = "installed" => res[my[t]] = "conn"
    /\ pc[t] \in {"stale", "dial"} => life[my[t]] = "none"
    /\ pc[t] = "enter" => life[my[t]] = "dialed"
    /\ pc[t] \in {"install", "refused", "close"} => life[my[t]] \in {"open", "dead"}
    /\ pc[t] \in {"raise", "abandon", "failed"} => life[my[t]] \in {"none", "closed"}

\* What a task's place says of the connection it holds.
HolderOK(t) ==
    /\ pc[t] \in {"stale", "evict"} =>
         /\ held[t] \in Rounds /\ held[t] # conn
         /\ res[held[t]] = "conn" /\ life[held[t]] \in {"open", "dead"}
    /\ pc[t] = "ditch" => held[t] = None
    /\ pc[t] = "judge" => held[t] \in Rounds

\* No two tasks drive one round, and no two close one connection.
Exclusive ==
    \A t, u \in Tasks :
        /\ pc[t] \in Driving \cup {"close"} /\ pc[u] \in Driving \cup {"close"} /\ my[t] = my[u] => t = u
        /\ pc[t] \in {"stale", "evict"} /\ pc[u] \in {"stale", "evict"} /\ held[t] = held[u] => t = u

\* The pool's three fields agree, and the round in flight is still being made.
PoolOK ==
    /\ state = "making" <=> rnd # None
    /\ state = "made" <=> conn # None
    /\ rnd # None => \E t \in Tasks : my[t] = rnd /\ pc[t] \in Making

\* Every connection that is not closed is accounted for.
Accounted ==
    \A c \in Rounds :
        life[c] \in {"dialed", "open", "dead"} => c = conn \/ Holders(c) # {}

PoolInv ==
    /\ SingletonTypeOK /\ PoolOK /\ RoundsOK /\ Exclusive
    /\ \A t \in Tasks : DriverOK(t) /\ HolderOK(t)
    /\ Accounted /\ NoStrandedWaiter /\ NotResurrected /\ CanceledByClose

-----------------------------------------------------------------------------

\* The pool starts empty.
LEMMA SharedInitInv == ASSUME SingletonInit PROVE PoolInv
BY SingletonConstants DEF SingletonInit, PoolInv, SingletonTypeOK, PoolOK, RoundsOK, Exclusive, DriverOK, HolderOK, Accounted,
       NoStrandedWaiter, NotResurrected, CanceledByClose, Driving, Closing, Drivers, Holders

\* get() returns the shared connection: only the caller's own place changes.
LEMMA GetMadeInv == ASSUME PoolInv, NEW t \in Tasks, GetMade(t) PROVE PoolInv'
<1>1. SingletonTypeOK'
    BY SingletonConstants DEF PoolInv, SingletonTypeOK, Driving, Closing, Making,
              GetMade, Calls, Goto, singletonVars, poolVars, roundVars, taskVars
<1>2. PoolOK'
    BY SingletonConstants DEF PoolInv, SingletonTypeOK, PoolOK, RoundsOK, Exclusive, DriverOK, HolderOK, Driving, Closing, Making,
              GetMade, Calls, Goto, singletonVars, poolVars, roundVars, taskVars
<1>3. RoundsOK'
    BY SingletonConstants DEF PoolInv, SingletonTypeOK, PoolOK, RoundsOK, DriverOK, HolderOK, NotResurrected, Driving, Closing, Making,
              GetMade, Calls, Goto, singletonVars, poolVars, roundVars, taskVars
<1>4. Exclusive'
    BY SingletonConstants DEF PoolInv, SingletonTypeOK, RoundsOK, Exclusive, DriverOK, HolderOK, Driving, Closing, Making,
              GetMade, Calls, Goto, singletonVars, poolVars, roundVars, taskVars
<1>5. (\A u \in Tasks : DriverOK(u))'
    BY SingletonConstants DEF PoolInv, SingletonTypeOK, PoolOK, RoundsOK, Exclusive, DriverOK, HolderOK, NotResurrected, Driving, Closing, Making,
              GetMade, Calls, Goto, singletonVars, poolVars, roundVars, taskVars
<1>6. (\A u \in Tasks : HolderOK(u))'
    BY SingletonConstants DEF PoolInv, SingletonTypeOK, PoolOK, RoundsOK, Exclusive, DriverOK, HolderOK, Driving, Closing, Making,
              GetMade, Calls, Goto, singletonVars, poolVars, roundVars, taskVars
<1>7. Accounted'
    BY SingletonConstants DEF PoolInv, SingletonTypeOK, RoundsOK, Exclusive, DriverOK, HolderOK, Accounted, Holders, Driving, Closing, Making,
              GetMade, Calls, Goto, singletonVars, poolVars, roundVars, taskVars
<1>8. NoStrandedWaiter'
    BY SingletonConstants DEF PoolInv, SingletonTypeOK, PoolOK, RoundsOK, Exclusive, DriverOK, NoStrandedWaiter, Drivers, Driving, Closing, Making,
              GetMade, Calls, Goto, singletonVars, poolVars, roundVars, taskVars
<1>9. NotResurrected'
    BY SingletonConstants DEF PoolInv, SingletonTypeOK, RoundsOK, NotResurrected, Driving, Closing, Making,
              GetMade, Calls, Goto, singletonVars, poolVars, roundVars, taskVars
<1>10. CanceledByClose'
    BY SingletonConstants DEF PoolInv, SingletonTypeOK, RoundsOK, DriverOK, CanceledByClose, Driving, Closing, Making,
              GetMade, Calls, Goto, singletonVars, poolVars, roundVars, taskVars
<1> QED
    BY <1>1, <1>2, <1>3, <1>4, <1>5, <1>6, <1>7, <1>8, <1>9, <1>10 DEF PoolInv

\* get() starts a round: it is new, so it was never ditched and nobody else drives it.
LEMMA GetDriveInv == ASSUME PoolInv, NEW t \in Tasks, GetDrive(t) PROVE PoolInv'
<1>1. SingletonTypeOK'
    BY SingletonConstants DEF PoolInv, SingletonTypeOK, Driving, Closing, Making,
              GetDrive, Calls, Goto, singletonVars, poolVars, roundVars, taskVars
<1>2. PoolOK'
    BY SingletonConstants DEF PoolInv, SingletonTypeOK, PoolOK, RoundsOK, Exclusive, DriverOK, HolderOK, Driving, Closing, Making,
              GetDrive, Calls, Goto, singletonVars, poolVars, roundVars, taskVars
<1>3. RoundsOK'
    BY SingletonConstants DEF PoolInv, SingletonTypeOK, PoolOK, RoundsOK, DriverOK, HolderOK, NotResurrected, Driving, Closing, Making,
              GetDrive, Calls, Goto, singletonVars, poolVars, roundVars, taskVars
<1>4. Exclusive'
    BY SingletonConstants DEF PoolInv, SingletonTypeOK, RoundsOK, Exclusive, DriverOK, HolderOK, Driving, Closing, Making,
              GetDrive, Calls, Goto, singletonVars, poolVars, roundVars, taskVars
<1>5. (\A u \in Tasks : DriverOK(u))'
    BY SingletonConstants DEF PoolInv, SingletonTypeOK, PoolOK, RoundsOK, Exclusive, DriverOK, HolderOK, NotResurrected, Driving, Closing, Making,
              GetDrive, Calls, Goto, singletonVars, poolVars, roundVars, taskVars
<1>6. (\A u \in Tasks : HolderOK(u))'
    BY SingletonConstants DEF PoolInv, SingletonTypeOK, PoolOK, RoundsOK, Exclusive, DriverOK, HolderOK, Driving, Closing, Making,
              GetDrive, Calls, Goto, singletonVars, poolVars, roundVars, taskVars
<1>7. Accounted'
    BY SingletonConstants DEF PoolInv, SingletonTypeOK, RoundsOK, Exclusive, DriverOK, HolderOK, Accounted, Holders, Driving, Closing, Making,
              GetDrive, Calls, Goto, singletonVars, poolVars, roundVars, taskVars
<1>8. NoStrandedWaiter'
    BY SingletonConstants DEF PoolInv, SingletonTypeOK, PoolOK, RoundsOK, Exclusive, DriverOK, NoStrandedWaiter, Drivers, Driving, Closing, Making,
              GetDrive, Calls, Goto, singletonVars, poolVars, roundVars, taskVars
<1>9. NotResurrected'
    BY SingletonConstants DEF PoolInv, SingletonTypeOK, RoundsOK, NotResurrected, Driving, Closing, Making,
              GetDrive, Calls, Goto, singletonVars, poolVars, roundVars, taskVars
<1>10. CanceledByClose'
    BY SingletonConstants DEF PoolInv, SingletonTypeOK, RoundsOK, DriverOK, CanceledByClose, Driving, Closing, Making,
              GetDrive, Calls, Goto, singletonVars, poolVars, roundVars, taskVars
<1> QED
    BY <1>1, <1>2, <1>3, <1>4, <1>5, <1>6, <1>7, <1>8, <1>9, <1>10 DEF PoolInv

\* get() joins the round in flight, whose driver is at work.
LEMMA GetJoinInv == ASSUME PoolInv, NEW t \in Tasks, GetJoin(t) PROVE PoolInv'
<1>1. SingletonTypeOK'
    BY SingletonConstants DEF PoolInv, SingletonTypeOK, Driving, Closing, Making,
              GetJoin, Calls, Goto, singletonVars, poolVars, roundVars, taskVars
<1>2. PoolOK'
    BY SingletonConstants DEF PoolInv, SingletonTypeOK, PoolOK, RoundsOK, Exclusive, DriverOK, HolderOK, Driving, Closing, Making,
              GetJoin, Calls, Goto, singletonVars, poolVars, roundVars, taskVars
<1>3. RoundsOK'
    BY SingletonConstants DEF PoolInv, SingletonTypeOK, PoolOK, RoundsOK, DriverOK, HolderOK, NotResurrected, Driving, Closing, Making,
              GetJoin, Calls, Goto, singletonVars, poolVars, roundVars, taskVars
<1>4. Exclusive'
    BY SingletonConstants DEF PoolInv, SingletonTypeOK, RoundsOK, Exclusive, DriverOK, HolderOK, Driving, Closing, Making,
              GetJoin, Calls, Goto, singletonVars, poolVars, roundVars, taskVars
<1>5. (\A u \in Tasks : DriverOK(u))'
    BY SingletonConstants DEF PoolInv, SingletonTypeOK, PoolOK, RoundsOK, Exclusive, DriverOK, HolderOK, NotResurrected, Driving, Closing, Making,
              GetJoin, Calls, Goto, singletonVars, poolVars, roundVars, taskVars
<1>6. (\A u \in Tasks : HolderOK(u))'
    BY SingletonConstants DEF PoolInv, SingletonTypeOK, PoolOK, RoundsOK, Exclusive, DriverOK, HolderOK, Driving, Closing, Making,
              GetJoin, Calls, Goto, singletonVars, poolVars, roundVars, taskVars
<1>7. Accounted'
    BY SingletonConstants DEF PoolInv, SingletonTypeOK, RoundsOK, Exclusive, DriverOK, HolderOK, Accounted, Holders, Driving, Closing, Making,
              GetJoin, Calls, Goto, singletonVars, poolVars, roundVars, taskVars
<1>8. NoStrandedWaiter'
    BY SingletonConstants DEF PoolInv, SingletonTypeOK, PoolOK, RoundsOK, Exclusive, DriverOK, NoStrandedWaiter, Drivers, Driving, Closing, Making,
              GetJoin, Calls, Goto, singletonVars, poolVars, roundVars, taskVars
<1>9. NotResurrected'
    BY SingletonConstants DEF PoolInv, SingletonTypeOK, RoundsOK, NotResurrected, Driving, Closing, Making,
              GetJoin, Calls, Goto, singletonVars, poolVars, roundVars, taskVars
<1>10. CanceledByClose'
    BY SingletonConstants DEF PoolInv, SingletonTypeOK, RoundsOK, DriverOK, CanceledByClose, Driving, Closing, Making,
              GetJoin, Calls, Goto, singletonVars, poolVars, roundVars, taskVars
<1> QED
    BY <1>1, <1>2, <1>3, <1>4, <1>5, <1>6, <1>7, <1>8, <1>9, <1>10 DEF PoolInv

\* The driver closes the dead connection it took out of the pool.
LEMMA CloseStaleInv == ASSUME PoolInv, NEW t \in Tasks, CloseStale(t) PROVE PoolInv'
<1>1. SingletonTypeOK'
    BY SingletonConstants DEF PoolInv, SingletonTypeOK, Driving, Closing, Making,
              CloseStale, Goto, singletonVars, poolVars, roundVars, taskVars
<1>2. PoolOK'
    BY SingletonConstants DEF PoolInv, SingletonTypeOK, PoolOK, RoundsOK, Exclusive, DriverOK, HolderOK, Driving, Closing, Making,
              CloseStale, Goto, singletonVars, poolVars, roundVars, taskVars
<1>3. RoundsOK'
    BY SingletonConstants DEF PoolInv, SingletonTypeOK, PoolOK, RoundsOK, DriverOK, HolderOK, NotResurrected, Driving, Closing, Making,
              CloseStale, Goto, singletonVars, poolVars, roundVars, taskVars
<1>4. Exclusive'
    BY SingletonConstants DEF PoolInv, SingletonTypeOK, RoundsOK, Exclusive, DriverOK, HolderOK, Driving, Closing, Making,
              CloseStale, Goto, singletonVars, poolVars, roundVars, taskVars
<1>5. (\A u \in Tasks : DriverOK(u))'
    BY SingletonConstants DEF PoolInv, SingletonTypeOK, PoolOK, RoundsOK, Exclusive, DriverOK, HolderOK, NotResurrected, Driving, Closing, Making,
              CloseStale, Goto, singletonVars, poolVars, roundVars, taskVars
<1>6. (\A u \in Tasks : HolderOK(u))'
    BY SingletonConstants DEF PoolInv, SingletonTypeOK, PoolOK, RoundsOK, Exclusive, DriverOK, HolderOK, Driving, Closing, Making,
              CloseStale, Goto, singletonVars, poolVars, roundVars, taskVars
<1>7. Accounted'
    BY SingletonConstants DEF PoolInv, SingletonTypeOK, RoundsOK, Exclusive, DriverOK, HolderOK, Accounted, Holders, Driving, Closing, Making,
              CloseStale, Goto, singletonVars, poolVars, roundVars, taskVars
<1>8. NoStrandedWaiter'
    BY SingletonConstants DEF PoolInv, SingletonTypeOK, PoolOK, RoundsOK, Exclusive, DriverOK, NoStrandedWaiter, Drivers, Driving, Closing, Making,
              CloseStale, Goto, singletonVars, poolVars, roundVars, taskVars
<1>9. NotResurrected'
    BY SingletonConstants DEF PoolInv, SingletonTypeOK, RoundsOK, NotResurrected, Driving, Closing, Making,
              CloseStale, Goto, singletonVars, poolVars, roundVars, taskVars
<1>10. CanceledByClose'
    BY SingletonConstants DEF PoolInv, SingletonTypeOK, RoundsOK, DriverOK, CanceledByClose, Driving, Closing, Making,
              CloseStale, Goto, singletonVars, poolVars, roundVars, taskVars
<1> QED
    BY <1>1, <1>2, <1>3, <1>4, <1>5, <1>6, <1>7, <1>8, <1>9, <1>10 DEF PoolInv

\* The connector returned: the driver holds the connection.
LEMMA SharedDialedInv == ASSUME PoolInv, NEW t \in Tasks, Dialed(t) PROVE PoolInv'
<1>1. SingletonTypeOK'
    BY SingletonConstants DEF PoolInv, SingletonTypeOK, Driving, Closing, Making,
              Dialed, Goto, singletonVars, poolVars, roundVars, taskVars
<1>2. PoolOK'
    BY SingletonConstants DEF PoolInv, SingletonTypeOK, PoolOK, RoundsOK, Exclusive, DriverOK, HolderOK, Driving, Closing, Making,
              Dialed, Goto, singletonVars, poolVars, roundVars, taskVars
<1>3. RoundsOK'
    BY SingletonConstants DEF PoolInv, SingletonTypeOK, PoolOK, RoundsOK, DriverOK, HolderOK, NotResurrected, Driving, Closing, Making,
              Dialed, Goto, singletonVars, poolVars, roundVars, taskVars
<1>4. Exclusive'
    BY SingletonConstants DEF PoolInv, SingletonTypeOK, RoundsOK, Exclusive, DriverOK, HolderOK, Driving, Closing, Making,
              Dialed, Goto, singletonVars, poolVars, roundVars, taskVars
<1>5. (\A u \in Tasks : DriverOK(u))'
    BY SingletonConstants DEF PoolInv, SingletonTypeOK, PoolOK, RoundsOK, Exclusive, DriverOK, HolderOK, NotResurrected, Driving, Closing, Making,
              Dialed, Goto, singletonVars, poolVars, roundVars, taskVars
<1>6. (\A u \in Tasks : HolderOK(u))'
    BY SingletonConstants DEF PoolInv, SingletonTypeOK, PoolOK, RoundsOK, Exclusive, DriverOK, HolderOK, Driving, Closing, Making,
              Dialed, Goto, singletonVars, poolVars, roundVars, taskVars
<1>7. Accounted'
    BY SingletonConstants DEF PoolInv, SingletonTypeOK, RoundsOK, Exclusive, DriverOK, HolderOK, Accounted, Holders, Driving, Closing, Making,
              Dialed, Goto, singletonVars, poolVars, roundVars, taskVars
<1>8. NoStrandedWaiter'
    BY SingletonConstants DEF PoolInv, SingletonTypeOK, PoolOK, RoundsOK, Exclusive, DriverOK, NoStrandedWaiter, Drivers, Driving, Closing, Making,
              Dialed, Goto, singletonVars, poolVars, roundVars, taskVars
<1>9. NotResurrected'
    BY SingletonConstants DEF PoolInv, SingletonTypeOK, RoundsOK, NotResurrected, Driving, Closing, Making,
              Dialed, Goto, singletonVars, poolVars, roundVars, taskVars
<1>10. CanceledByClose'
    BY SingletonConstants DEF PoolInv, SingletonTypeOK, RoundsOK, DriverOK, CanceledByClose, Driving, Closing, Making,
              Dialed, Goto, singletonVars, poolVars, roundVars, taskVars
<1> QED
    BY <1>1, <1>2, <1>3, <1>4, <1>5, <1>6, <1>7, <1>8, <1>9, <1>10 DEF PoolInv

\* The handshake is done: the driver still holds the connection.
LEMMA SharedEnteredInv == ASSUME PoolInv, NEW t \in Tasks, Entered(t) PROVE PoolInv'
<1>1. SingletonTypeOK'
    BY SingletonConstants DEF PoolInv, SingletonTypeOK, Driving, Closing, Making,
              Entered, Goto, singletonVars, poolVars, roundVars, taskVars
<1>2. PoolOK'
    BY SingletonConstants DEF PoolInv, SingletonTypeOK, PoolOK, RoundsOK, Exclusive, DriverOK, HolderOK, Driving, Closing, Making,
              Entered, Goto, singletonVars, poolVars, roundVars, taskVars
<1>3. RoundsOK'
    BY SingletonConstants DEF PoolInv, SingletonTypeOK, PoolOK, RoundsOK, DriverOK, HolderOK, NotResurrected, Driving, Closing, Making,
              Entered, Goto, singletonVars, poolVars, roundVars, taskVars
<1>4. Exclusive'
    BY SingletonConstants DEF PoolInv, SingletonTypeOK, RoundsOK, Exclusive, DriverOK, HolderOK, Driving, Closing, Making,
              Entered, Goto, singletonVars, poolVars, roundVars, taskVars
<1>5. (\A u \in Tasks : DriverOK(u))'
    BY SingletonConstants DEF PoolInv, SingletonTypeOK, PoolOK, RoundsOK, Exclusive, DriverOK, HolderOK, NotResurrected, Driving, Closing, Making,
              Entered, Goto, singletonVars, poolVars, roundVars, taskVars
<1>6. (\A u \in Tasks : HolderOK(u))'
    BY SingletonConstants DEF PoolInv, SingletonTypeOK, PoolOK, RoundsOK, Exclusive, DriverOK, HolderOK, Driving, Closing, Making,
              Entered, Goto, singletonVars, poolVars, roundVars, taskVars
<1>7. Accounted'
    BY SingletonConstants DEF PoolInv, SingletonTypeOK, RoundsOK, Exclusive, DriverOK, HolderOK, Accounted, Holders, Driving, Closing, Making,
              Entered, Goto, singletonVars, poolVars, roundVars, taskVars
<1>8. NoStrandedWaiter'
    BY SingletonConstants DEF PoolInv, SingletonTypeOK, PoolOK, RoundsOK, Exclusive, DriverOK, NoStrandedWaiter, Drivers, Driving, Closing, Making,
              Entered, Goto, singletonVars, poolVars, roundVars, taskVars
<1>9. NotResurrected'
    BY SingletonConstants DEF PoolInv, SingletonTypeOK, RoundsOK, NotResurrected, Driving, Closing, Making,
              Entered, Goto, singletonVars, poolVars, roundVars, taskVars
<1>10. CanceledByClose'
    BY SingletonConstants DEF PoolInv, SingletonTypeOK, RoundsOK, DriverOK, CanceledByClose, Driving, Closing, Making,
              Entered, Goto, singletonVars, poolVars, roundVars, taskVars
<1> QED
    BY <1>1, <1>2, <1>3, <1>4, <1>5, <1>6, <1>7, <1>8, <1>9, <1>10 DEF PoolInv

\* The connect failed: the driver holds nothing any more.
LEMMA SharedConnectFailsInv == ASSUME PoolInv, NEW t \in Tasks, ConnectFails(t) PROVE PoolInv'
<1>1. SingletonTypeOK'
    <2> PICK how \in {"raise", "abandon"} : pc' = [pc EXCEPT ![t] = how]
        BY DEF ConnectFails, Goto
    <2>1. pc' \in [Tasks -> Driving \cup Closing \cup {"idle", "again", "wait", "close", "judge"}]
        BY DEF PoolInv, SingletonTypeOK, Driving
    <2>2. life' \in [Rounds -> {"none", "dialed", "open", "dead", "closed"}]
        BY DEF PoolInv, SingletonTypeOK, ConnectFails
    <2> QED
        BY <2>1, <2>2 DEF PoolInv, SingletonTypeOK, ConnectFails, singletonVars, poolVars, roundVars, taskVars
<1>2. PoolOK'
    BY SingletonConstants DEF PoolInv, SingletonTypeOK, PoolOK, RoundsOK, Exclusive, DriverOK, HolderOK, Driving, Closing, Making,
              ConnectFails, Goto, singletonVars, poolVars, roundVars, taskVars
<1>3. RoundsOK'
    BY SingletonConstants DEF PoolInv, SingletonTypeOK, PoolOK, RoundsOK, DriverOK, HolderOK, NotResurrected, Driving, Closing, Making,
              ConnectFails, Goto, singletonVars, poolVars, roundVars, taskVars
<1>4. Exclusive'
    BY SingletonConstants DEF PoolInv, SingletonTypeOK, RoundsOK, Exclusive, DriverOK, HolderOK, Driving, Closing, Making,
              ConnectFails, Goto, singletonVars, poolVars, roundVars, taskVars
<1>5. (\A u \in Tasks : DriverOK(u))'
    BY SingletonConstants DEF PoolInv, SingletonTypeOK, PoolOK, RoundsOK, Exclusive, DriverOK, HolderOK, NotResurrected, Driving, Closing, Making,
              ConnectFails, Goto, singletonVars, poolVars, roundVars, taskVars
<1>6. (\A u \in Tasks : HolderOK(u))'
    BY SingletonConstants DEF PoolInv, SingletonTypeOK, PoolOK, RoundsOK, Exclusive, DriverOK, HolderOK, Driving, Closing, Making,
              ConnectFails, Goto, singletonVars, poolVars, roundVars, taskVars
<1>7. Accounted'
    BY SingletonConstants DEF PoolInv, SingletonTypeOK, RoundsOK, Exclusive, DriverOK, HolderOK, Accounted, Holders, Driving, Closing, Making,
              ConnectFails, Goto, singletonVars, poolVars, roundVars, taskVars
<1>8. NoStrandedWaiter'
    BY SingletonConstants DEF PoolInv, SingletonTypeOK, PoolOK, RoundsOK, Exclusive, DriverOK, NoStrandedWaiter, Drivers, Driving, Closing, Making,
              ConnectFails, Goto, singletonVars, poolVars, roundVars, taskVars
<1>9. NotResurrected'
    BY SingletonConstants DEF PoolInv, SingletonTypeOK, RoundsOK, NotResurrected, Driving, Closing, Making,
              ConnectFails, Goto, singletonVars, poolVars, roundVars, taskVars
<1>10. CanceledByClose'
    BY SingletonConstants DEF PoolInv, SingletonTypeOK, RoundsOK, DriverOK, CanceledByClose, Driving, Closing, Making,
              ConnectFails, Goto, singletonVars, poolVars, roundVars, taskVars
<1> QED
    BY <1>1, <1>2, <1>3, <1>4, <1>5, <1>6, <1>7, <1>8, <1>9, <1>10 DEF PoolInv

\* The failure ends the round in flight, or a ditched one that nobody reads.
LEMMA FailRoundInv == ASSUME PoolInv, NEW t \in Tasks, FailRound(t) PROVE PoolInv'
<1>1. SingletonTypeOK'
    BY SingletonConstants DEF PoolInv, SingletonTypeOK, Driving, Closing, Making,
              FailRound, Goto, singletonVars, poolVars, roundVars, taskVars
<1>2. PoolOK'
    BY SingletonConstants DEF PoolInv, SingletonTypeOK, PoolOK, RoundsOK, Exclusive, DriverOK, HolderOK, Driving, Closing, Making,
              FailRound, Goto, singletonVars, poolVars, roundVars, taskVars
<1>3. RoundsOK'
    BY SingletonConstants DEF PoolInv, SingletonTypeOK, PoolOK, RoundsOK, DriverOK, HolderOK, NotResurrected, Driving, Closing, Making,
              FailRound, Goto, singletonVars, poolVars, roundVars, taskVars
<1>4. Exclusive'
    BY SingletonConstants DEF PoolInv, SingletonTypeOK, RoundsOK, Exclusive, DriverOK, HolderOK, Driving, Closing, Making,
              FailRound, Goto, singletonVars, poolVars, roundVars, taskVars
<1>5. (\A u \in Tasks : DriverOK(u))'
    BY SingletonConstants DEF PoolInv, SingletonTypeOK, PoolOK, RoundsOK, Exclusive, DriverOK, HolderOK, NotResurrected, Driving, Closing, Making,
              FailRound, Goto, singletonVars, poolVars, roundVars, taskVars
<1>6. (\A u \in Tasks : HolderOK(u))'
    BY SingletonConstants DEF PoolInv, SingletonTypeOK, PoolOK, RoundsOK, Exclusive, DriverOK, HolderOK, Driving, Closing, Making,
              FailRound, Goto, singletonVars, poolVars, roundVars, taskVars
<1>7. Accounted'
    BY SingletonConstants DEF PoolInv, SingletonTypeOK, RoundsOK, Exclusive, DriverOK, HolderOK, Accounted, Holders, Driving, Closing, Making,
              FailRound, Goto, singletonVars, poolVars, roundVars, taskVars
<1>8. NoStrandedWaiter'
    BY SingletonConstants DEF PoolInv, SingletonTypeOK, PoolOK, RoundsOK, Exclusive, DriverOK, NoStrandedWaiter, Drivers, Driving, Closing, Making,
              FailRound, Goto, singletonVars, poolVars, roundVars, taskVars
<1>9. NotResurrected'
    BY SingletonConstants DEF PoolInv, SingletonTypeOK, RoundsOK, NotResurrected, Driving, Closing, Making,
              FailRound, Goto, singletonVars, poolVars, roundVars, taskVars
<1>10. CanceledByClose'
    BY SingletonConstants DEF PoolInv, SingletonTypeOK, RoundsOK, DriverOK, CanceledByClose, Driving, Closing, Making,
              FailRound, Goto, singletonVars, poolVars, roundVars, taskVars
<1> QED
    BY <1>1, <1>2, <1>3, <1>4, <1>5, <1>6, <1>7, <1>8, <1>9, <1>10 DEF PoolInv

\* The connection goes from its driver to the pool, or stays with a driver refused.
LEMMA InstallInv == ASSUME PoolInv, NEW t \in Tasks, Install(t) PROVE PoolInv'
<1>1. SingletonTypeOK'
    BY SingletonConstants DEF PoolInv, SingletonTypeOK, Driving, Closing, Making,
              Install, Goto, singletonVars, poolVars, roundVars, taskVars
<1>2. PoolOK'
    BY SingletonConstants DEF PoolInv, SingletonTypeOK, PoolOK, RoundsOK, Exclusive, DriverOK, HolderOK, Driving, Closing, Making,
              Install, Goto, singletonVars, poolVars, roundVars, taskVars
<1>3. RoundsOK'
    BY SingletonConstants DEF PoolInv, SingletonTypeOK, PoolOK, RoundsOK, DriverOK, HolderOK, NotResurrected, Driving, Closing, Making,
              Install, Goto, singletonVars, poolVars, roundVars, taskVars
<1>4. Exclusive'
    BY SingletonConstants DEF PoolInv, SingletonTypeOK, RoundsOK, Exclusive, DriverOK, HolderOK, Driving, Closing, Making,
              Install, Goto, singletonVars, poolVars, roundVars, taskVars
<1>5. (\A u \in Tasks : DriverOK(u))'
    BY SingletonConstants DEF PoolInv, SingletonTypeOK, PoolOK, RoundsOK, Exclusive, DriverOK, HolderOK, NotResurrected, Driving, Closing, Making,
              Install, Goto, singletonVars, poolVars, roundVars, taskVars
<1>6. (\A u \in Tasks : HolderOK(u))'
    BY SingletonConstants DEF PoolInv, SingletonTypeOK, PoolOK, RoundsOK, Exclusive, DriverOK, HolderOK, Driving, Closing, Making,
              Install, Goto, singletonVars, poolVars, roundVars, taskVars
<1>7. Accounted'
    BY SingletonConstants DEF PoolInv, SingletonTypeOK, PoolOK, RoundsOK, Exclusive, DriverOK, HolderOK, Accounted, Holders, Driving, Closing, Making,
              Install, Goto, singletonVars, poolVars, roundVars, taskVars
<1>8. NoStrandedWaiter'
    BY SingletonConstants DEF PoolInv, SingletonTypeOK, PoolOK, RoundsOK, Exclusive, DriverOK, NoStrandedWaiter, Drivers, Driving, Closing, Making,
              Install, Goto, singletonVars, poolVars, roundVars, taskVars
<1>9. NotResurrected'
    BY SingletonConstants DEF PoolInv, SingletonTypeOK, RoundsOK, NotResurrected, Driving, Closing, Making,
              Install, Goto, singletonVars, poolVars, roundVars, taskVars
<1>10. CanceledByClose'
    BY SingletonConstants DEF PoolInv, SingletonTypeOK, RoundsOK, DriverOK, CanceledByClose, Driving, Closing, Making,
              Install, Goto, singletonVars, poolVars, roundVars, taskVars
<1> QED
    BY <1>1, <1>2, <1>3, <1>4, <1>5, <1>6, <1>7, <1>8, <1>9, <1>10 DEF PoolInv

\* The event is set for a round that has its outcome, or was ditched.
LEMMA ReportInv == ASSUME PoolInv, NEW t \in Tasks, Report(t) PROVE PoolInv'
<1>1. SingletonTypeOK'
    BY SingletonConstants DEF PoolInv, SingletonTypeOK, Driving, Closing, Making,
              Report, Goto, singletonVars, poolVars, roundVars, taskVars
<1>2. PoolOK'
    BY SingletonConstants DEF PoolInv, SingletonTypeOK, PoolOK, RoundsOK, Exclusive, DriverOK, HolderOK, Driving, Closing, Making,
              Report, Goto, singletonVars, poolVars, roundVars, taskVars
<1>3. RoundsOK'
    BY SingletonConstants DEF PoolInv, SingletonTypeOK, PoolOK, RoundsOK, Exclusive, DriverOK, HolderOK, NotResurrected, Driving, Closing, Making,
              Report, Goto, singletonVars, poolVars, roundVars, taskVars
<1>4. Exclusive'
    BY SingletonConstants DEF PoolInv, SingletonTypeOK, RoundsOK, Exclusive, DriverOK, HolderOK, Driving, Closing, Making,
              Report, Goto, singletonVars, poolVars, roundVars, taskVars
<1>5. (\A u \in Tasks : DriverOK(u))'
    BY SingletonConstants DEF PoolInv, SingletonTypeOK, PoolOK, RoundsOK, Exclusive, DriverOK, HolderOK, NotResurrected, Driving, Closing, Making,
              Report, Goto, singletonVars, poolVars, roundVars, taskVars
<1>6. (\A u \in Tasks : HolderOK(u))'
    BY SingletonConstants DEF PoolInv, SingletonTypeOK, PoolOK, RoundsOK, Exclusive, DriverOK, HolderOK, Driving, Closing, Making,
              Report, Goto, singletonVars, poolVars, roundVars, taskVars
<1>7. Accounted'
    BY SingletonConstants DEF PoolInv, SingletonTypeOK, RoundsOK, Exclusive, DriverOK, HolderOK, Accounted, Holders, Driving, Closing, Making,
              Report, Goto, singletonVars, poolVars, roundVars, taskVars
<1>8. NoStrandedWaiter'
    BY SingletonConstants DEF PoolInv, SingletonTypeOK, PoolOK, RoundsOK, Exclusive, DriverOK, NoStrandedWaiter, Drivers, Driving, Closing, Making,
              Report, Goto, singletonVars, poolVars, roundVars, taskVars
<1>9. NotResurrected'
    BY SingletonConstants DEF PoolInv, SingletonTypeOK, RoundsOK, NotResurrected, Driving, Closing, Making,
              Report, Goto, singletonVars, poolVars, roundVars, taskVars
<1>10. CanceledByClose'
    BY SingletonConstants DEF PoolInv, SingletonTypeOK, RoundsOK, DriverOK, CanceledByClose, Driving, Closing, Making,
              Report, Goto, singletonVars, poolVars, roundVars, taskVars
<1> QED
    BY <1>1, <1>2, <1>3, <1>4, <1>5, <1>6, <1>7, <1>8, <1>9, <1>10 DEF PoolInv

\* A ditched round's driver closes its connection.
LEMMA CloseRefusedInv == ASSUME PoolInv, NEW t \in Tasks, CloseRefused(t) PROVE PoolInv'
<1>1. SingletonTypeOK'
    BY SingletonConstants DEF PoolInv, SingletonTypeOK, Driving, Closing, Making,
              CloseRefused, Goto, singletonVars, poolVars, roundVars, taskVars
<1>2. PoolOK'
    BY SingletonConstants DEF PoolInv, SingletonTypeOK, PoolOK, RoundsOK, Exclusive, DriverOK, HolderOK, Driving, Closing, Making,
              CloseRefused, Goto, singletonVars, poolVars, roundVars, taskVars
<1>3. RoundsOK'
    BY SingletonConstants DEF PoolInv, SingletonTypeOK, PoolOK, RoundsOK, DriverOK, HolderOK, NotResurrected, Driving, Closing, Making,
              CloseRefused, Goto, singletonVars, poolVars, roundVars, taskVars
<1>4. Exclusive'
    BY SingletonConstants DEF PoolInv, SingletonTypeOK, RoundsOK, Exclusive, DriverOK, HolderOK, Driving, Closing, Making,
              CloseRefused, Goto, singletonVars, poolVars, roundVars, taskVars
<1>5. (\A u \in Tasks : DriverOK(u))'
    BY SingletonConstants DEF PoolInv, SingletonTypeOK, PoolOK, RoundsOK, Exclusive, DriverOK, HolderOK, NotResurrected, Driving, Closing, Making,
              CloseRefused, Goto, singletonVars, poolVars, roundVars, taskVars
<1>6. (\A u \in Tasks : HolderOK(u))'
    BY SingletonConstants DEF PoolInv, SingletonTypeOK, PoolOK, RoundsOK, Exclusive, DriverOK, HolderOK, Driving, Closing, Making,
              CloseRefused, Goto, singletonVars, poolVars, roundVars, taskVars
<1>7. Accounted'
    BY SingletonConstants DEF PoolInv, SingletonTypeOK, RoundsOK, Exclusive, DriverOK, HolderOK, Accounted, Holders, Driving, Closing, Making,
              CloseRefused, Goto, singletonVars, poolVars, roundVars, taskVars
<1>8. NoStrandedWaiter'
    BY SingletonConstants DEF PoolInv, SingletonTypeOK, PoolOK, RoundsOK, Exclusive, DriverOK, NoStrandedWaiter, Drivers, Driving, Closing, Making,
              CloseRefused, Goto, singletonVars, poolVars, roundVars, taskVars
<1>9. NotResurrected'
    BY SingletonConstants DEF PoolInv, SingletonTypeOK, RoundsOK, NotResurrected, Driving, Closing, Making,
              CloseRefused, Goto, singletonVars, poolVars, roundVars, taskVars
<1>10. CanceledByClose'
    BY SingletonConstants DEF PoolInv, SingletonTypeOK, RoundsOK, DriverOK, CanceledByClose, Driving, Closing, Making,
              CloseRefused, Goto, singletonVars, poolVars, roundVars, taskVars
<1> QED
    BY <1>1, <1>2, <1>3, <1>4, <1>5, <1>6, <1>7, <1>8, <1>9, <1>10 DEF PoolInv

\* A waiter of a round without an outcome was woken by aclose().
LEMMA WaitOverInv == ASSUME PoolInv, NEW t \in Tasks, WaitOver(t) PROVE PoolInv'
<1>1. SingletonTypeOK'
    BY SingletonConstants DEF PoolInv, SingletonTypeOK, Driving, Closing, Making,
              WaitOver, Goto, singletonVars, poolVars, roundVars, taskVars
<1>2. PoolOK'
    BY SingletonConstants DEF PoolInv, SingletonTypeOK, PoolOK, RoundsOK, Exclusive, DriverOK, HolderOK, Driving, Closing, Making,
              WaitOver, Goto, singletonVars, poolVars, roundVars, taskVars
<1>3. RoundsOK'
    BY SingletonConstants DEF PoolInv, SingletonTypeOK, PoolOK, RoundsOK, DriverOK, HolderOK, NotResurrected, Driving, Closing, Making,
              WaitOver, Goto, singletonVars, poolVars, roundVars, taskVars
<1>4. Exclusive'
    BY SingletonConstants DEF PoolInv, SingletonTypeOK, RoundsOK, Exclusive, DriverOK, HolderOK, Driving, Closing, Making,
              WaitOver, Goto, singletonVars, poolVars, roundVars, taskVars
<1>5. (\A u \in Tasks : DriverOK(u))'
    BY SingletonConstants DEF PoolInv, SingletonTypeOK, PoolOK, RoundsOK, Exclusive, DriverOK, HolderOK, NotResurrected, Driving, Closing, Making,
              WaitOver, Goto, singletonVars, poolVars, roundVars, taskVars
<1>6. (\A u \in Tasks : HolderOK(u))'
    BY SingletonConstants DEF PoolInv, SingletonTypeOK, PoolOK, RoundsOK, Exclusive, DriverOK, HolderOK, Driving, Closing, Making,
              WaitOver, Goto, singletonVars, poolVars, roundVars, taskVars
<1>7. Accounted'
    BY SingletonConstants DEF PoolInv, SingletonTypeOK, RoundsOK, Exclusive, DriverOK, HolderOK, Accounted, Holders, Driving, Closing, Making,
              WaitOver, Goto, singletonVars, poolVars, roundVars, taskVars
<1>8. NoStrandedWaiter'
    BY SingletonConstants DEF PoolInv, SingletonTypeOK, PoolOK, RoundsOK, Exclusive, DriverOK, NoStrandedWaiter, Drivers, Driving, Closing, Making,
              WaitOver, Goto, singletonVars, poolVars, roundVars, taskVars
<1>9. NotResurrected'
    BY SingletonConstants DEF PoolInv, SingletonTypeOK, RoundsOK, NotResurrected, Driving, Closing, Making,
              WaitOver, Goto, singletonVars, poolVars, roundVars, taskVars
<1>10. CanceledByClose'
    BY SingletonConstants DEF PoolInv, SingletonTypeOK, RoundsOK, DriverOK, CanceledByClose, Driving, Closing, Making,
              WaitOver, Goto, singletonVars, poolVars, roundVars, taskVars
<1> QED
    BY <1>1, <1>2, <1>3, <1>4, <1>5, <1>6, <1>7, <1>8, <1>9, <1>10 DEF PoolInv

\* A cancelled waiter leaves nothing behind.
LEMMA WaitCancelledInv == ASSUME PoolInv, NEW t \in Tasks, WaitCancelled(t) PROVE PoolInv'
<1>1. SingletonTypeOK'
    BY SingletonConstants DEF PoolInv, SingletonTypeOK, Driving, Closing, Making,
              WaitCancelled, Goto, singletonVars, poolVars, roundVars, taskVars
<1>2. PoolOK'
    BY SingletonConstants DEF PoolInv, SingletonTypeOK, PoolOK, RoundsOK, Exclusive, DriverOK, HolderOK, Driving, Closing, Making,
              WaitCancelled, Goto, singletonVars, poolVars, roundVars, taskVars
<1>3. RoundsOK'
    BY SingletonConstants DEF PoolInv, SingletonTypeOK, PoolOK, RoundsOK, DriverOK, HolderOK, NotResurrected, Driving, Closing, Making,
              WaitCancelled, Goto, singletonVars, poolVars, roundVars, taskVars
<1>4. Exclusive'
    BY SingletonConstants DEF PoolInv, SingletonTypeOK, RoundsOK, Exclusive, DriverOK, HolderOK, Driving, Closing, Making,
              WaitCancelled, Goto, singletonVars, poolVars, roundVars, taskVars
<1>5. (\A u \in Tasks : DriverOK(u))'
    BY SingletonConstants DEF PoolInv, SingletonTypeOK, PoolOK, RoundsOK, Exclusive, DriverOK, HolderOK, NotResurrected, Driving, Closing, Making,
              WaitCancelled, Goto, singletonVars, poolVars, roundVars, taskVars
<1>6. (\A u \in Tasks : HolderOK(u))'
    BY SingletonConstants DEF PoolInv, SingletonTypeOK, PoolOK, RoundsOK, Exclusive, DriverOK, HolderOK, Driving, Closing, Making,
              WaitCancelled, Goto, singletonVars, poolVars, roundVars, taskVars
<1>7. Accounted'
    BY SingletonConstants DEF PoolInv, SingletonTypeOK, RoundsOK, Exclusive, DriverOK, HolderOK, Accounted, Holders, Driving, Closing, Making,
              WaitCancelled, Goto, singletonVars, poolVars, roundVars, taskVars
<1>8. NoStrandedWaiter'
    BY SingletonConstants DEF PoolInv, SingletonTypeOK, PoolOK, RoundsOK, Exclusive, DriverOK, NoStrandedWaiter, Drivers, Driving, Closing, Making,
              WaitCancelled, Goto, singletonVars, poolVars, roundVars, taskVars
<1>9. NotResurrected'
    BY SingletonConstants DEF PoolInv, SingletonTypeOK, RoundsOK, NotResurrected, Driving, Closing, Making,
              WaitCancelled, Goto, singletonVars, poolVars, roundVars, taskVars
<1>10. CanceledByClose'
    BY SingletonConstants DEF PoolInv, SingletonTypeOK, RoundsOK, DriverOK, CanceledByClose, Driving, Closing, Making,
              WaitCancelled, Goto, singletonVars, poolVars, roundVars, taskVars
<1> QED
    BY <1>1, <1>2, <1>3, <1>4, <1>5, <1>6, <1>7, <1>8, <1>9, <1>10 DEF PoolInv

\* retain() looks at the shared connection.
LEMMA RetainLookInv == ASSUME PoolInv, NEW t \in Tasks, RetainLook(t) PROVE PoolInv'
<1>1. SingletonTypeOK'
    BY SingletonConstants DEF PoolInv, SingletonTypeOK, Driving, Closing, Making,
              RetainLook, Goto, singletonVars, poolVars, roundVars, taskVars
<1>2. PoolOK'
    BY SingletonConstants DEF PoolInv, SingletonTypeOK, PoolOK, RoundsOK, Exclusive, DriverOK, HolderOK, Driving, Closing, Making,
              RetainLook, Goto, singletonVars, poolVars, roundVars, taskVars
<1>3. RoundsOK'
    BY SingletonConstants DEF PoolInv, SingletonTypeOK, PoolOK, RoundsOK, DriverOK, HolderOK, NotResurrected, Driving, Closing, Making,
              RetainLook, Goto, singletonVars, poolVars, roundVars, taskVars
<1>4. Exclusive'
    BY SingletonConstants DEF PoolInv, SingletonTypeOK, RoundsOK, Exclusive, DriverOK, HolderOK, Driving, Closing, Making,
              RetainLook, Goto, singletonVars, poolVars, roundVars, taskVars
<1>5. (\A u \in Tasks : DriverOK(u))'
    BY SingletonConstants DEF PoolInv, SingletonTypeOK, PoolOK, RoundsOK, Exclusive, DriverOK, HolderOK, NotResurrected, Driving, Closing, Making,
              RetainLook, Goto, singletonVars, poolVars, roundVars, taskVars
<1>6. (\A u \in Tasks : HolderOK(u))'
    BY SingletonConstants DEF PoolInv, SingletonTypeOK, PoolOK, RoundsOK, Exclusive, DriverOK, HolderOK, Driving, Closing, Making,
              RetainLook, Goto, singletonVars, poolVars, roundVars, taskVars
<1>7. Accounted'
    BY SingletonConstants DEF PoolInv, SingletonTypeOK, RoundsOK, Exclusive, DriverOK, HolderOK, Accounted, Holders, Driving, Closing, Making,
              RetainLook, Goto, singletonVars, poolVars, roundVars, taskVars
<1>8. NoStrandedWaiter'
    BY SingletonConstants DEF PoolInv, SingletonTypeOK, PoolOK, RoundsOK, Exclusive, DriverOK, NoStrandedWaiter, Drivers, Driving, Closing, Making,
              RetainLook, Goto, singletonVars, poolVars, roundVars, taskVars
<1>9. NotResurrected'
    BY SingletonConstants DEF PoolInv, SingletonTypeOK, RoundsOK, NotResurrected, Driving, Closing, Making,
              RetainLook, Goto, singletonVars, poolVars, roundVars, taskVars
<1>10. CanceledByClose'
    BY SingletonConstants DEF PoolInv, SingletonTypeOK, RoundsOK, DriverOK, CanceledByClose, Driving, Closing, Making,
              RetainLook, Goto, singletonVars, poolVars, roundVars, taskVars
<1> QED
    BY <1>1, <1>2, <1>3, <1>4, <1>5, <1>6, <1>7, <1>8, <1>9, <1>10 DEF PoolInv

\* retain() keeps it.
LEMMA RetainKeepInv == ASSUME PoolInv, NEW t \in Tasks, RetainKeep(t) PROVE PoolInv'
<1>1. SingletonTypeOK'
    BY SingletonConstants DEF PoolInv, SingletonTypeOK, Driving, Closing, Making,
              RetainKeep, Goto, singletonVars, poolVars, roundVars, taskVars
<1>2. PoolOK'
    BY SingletonConstants DEF PoolInv, SingletonTypeOK, PoolOK, RoundsOK, Exclusive, DriverOK, HolderOK, Driving, Closing, Making,
              RetainKeep, Goto, singletonVars, poolVars, roundVars, taskVars
<1>3. RoundsOK'
    BY SingletonConstants DEF PoolInv, SingletonTypeOK, PoolOK, RoundsOK, DriverOK, HolderOK, NotResurrected, Driving, Closing, Making,
              RetainKeep, Goto, singletonVars, poolVars, roundVars, taskVars
<1>4. Exclusive'
    BY SingletonConstants DEF PoolInv, SingletonTypeOK, RoundsOK, Exclusive, DriverOK, HolderOK, Driving, Closing, Making,
              RetainKeep, Goto, singletonVars, poolVars, roundVars, taskVars
<1>5. (\A u \in Tasks : DriverOK(u))'
    BY SingletonConstants DEF PoolInv, SingletonTypeOK, PoolOK, RoundsOK, Exclusive, DriverOK, HolderOK, NotResurrected, Driving, Closing, Making,
              RetainKeep, Goto, singletonVars, poolVars, roundVars, taskVars
<1>6. (\A u \in Tasks : HolderOK(u))'
    BY SingletonConstants DEF PoolInv, SingletonTypeOK, PoolOK, RoundsOK, Exclusive, DriverOK, HolderOK, Driving, Closing, Making,
              RetainKeep, Goto, singletonVars, poolVars, roundVars, taskVars
<1>7. Accounted'
    BY SingletonConstants DEF PoolInv, SingletonTypeOK, RoundsOK, Exclusive, DriverOK, HolderOK, Accounted, Holders, Driving, Closing, Making,
              RetainKeep, Goto, singletonVars, poolVars, roundVars, taskVars
<1>8. NoStrandedWaiter'
    BY SingletonConstants DEF PoolInv, SingletonTypeOK, PoolOK, RoundsOK, Exclusive, DriverOK, NoStrandedWaiter, Drivers, Driving, Closing, Making,
              RetainKeep, Goto, singletonVars, poolVars, roundVars, taskVars
<1>9. NotResurrected'
    BY SingletonConstants DEF PoolInv, SingletonTypeOK, RoundsOK, NotResurrected, Driving, Closing, Making,
              RetainKeep, Goto, singletonVars, poolVars, roundVars, taskVars
<1>10. CanceledByClose'
    BY SingletonConstants DEF PoolInv, SingletonTypeOK, RoundsOK, DriverOK, CanceledByClose, Driving, Closing, Making,
              RetainKeep, Goto, singletonVars, poolVars, roundVars, taskVars
<1> QED
    BY <1>1, <1>2, <1>3, <1>4, <1>5, <1>6, <1>7, <1>8, <1>9, <1>10 DEF PoolInv

\* retain() takes the connection out of the pool only if it is still there.
LEMMA RetainDropInv == ASSUME PoolInv, NEW t \in Tasks, RetainDrop(t) PROVE PoolInv'
<1>1. SingletonTypeOK'
    BY SingletonConstants DEF PoolInv, SingletonTypeOK, Driving, Closing, Making,
              RetainDrop, Goto, singletonVars, poolVars, roundVars, taskVars
<1>2. PoolOK'
    BY SingletonConstants DEF PoolInv, SingletonTypeOK, PoolOK, RoundsOK, Exclusive, DriverOK, HolderOK, Driving, Closing, Making,
              RetainDrop, Goto, singletonVars, poolVars, roundVars, taskVars
<1>3. RoundsOK'
    BY SingletonConstants DEF PoolInv, SingletonTypeOK, PoolOK, RoundsOK, DriverOK, HolderOK, NotResurrected, Driving, Closing, Making,
              RetainDrop, Goto, singletonVars, poolVars, roundVars, taskVars
<1>4. Exclusive'
    BY SingletonConstants DEF PoolInv, SingletonTypeOK, RoundsOK, Exclusive, DriverOK, HolderOK, Driving, Closing, Making,
              RetainDrop, Goto, singletonVars, poolVars, roundVars, taskVars
<1>5. (\A u \in Tasks : DriverOK(u))'
    BY SingletonConstants DEF PoolInv, SingletonTypeOK, PoolOK, RoundsOK, Exclusive, DriverOK, HolderOK, NotResurrected, Driving, Closing, Making,
              RetainDrop, Goto, singletonVars, poolVars, roundVars, taskVars
<1>6. (\A u \in Tasks : HolderOK(u))'
    BY SingletonConstants DEF PoolInv, SingletonTypeOK, PoolOK, RoundsOK, Exclusive, DriverOK, HolderOK, Driving, Closing, Making,
              RetainDrop, Goto, singletonVars, poolVars, roundVars, taskVars
<1>7. Accounted'
    BY SingletonConstants DEF PoolInv, SingletonTypeOK, RoundsOK, Exclusive, DriverOK, HolderOK, Accounted, Holders, Driving, Closing, Making,
              RetainDrop, Goto, singletonVars, poolVars, roundVars, taskVars
<1>8. NoStrandedWaiter'
    BY SingletonConstants DEF PoolInv, SingletonTypeOK, PoolOK, RoundsOK, Exclusive, DriverOK, NoStrandedWaiter, Drivers, Driving, Closing, Making,
              RetainDrop, Goto, singletonVars, poolVars, roundVars, taskVars
<1>9. NotResurrected'
    BY SingletonConstants DEF PoolInv, SingletonTypeOK, RoundsOK, NotResurrected, Driving, Closing, Making,
              RetainDrop, Goto, singletonVars, poolVars, roundVars, taskVars
<1>10. CanceledByClose'
    BY SingletonConstants DEF PoolInv, SingletonTypeOK, RoundsOK, DriverOK, CanceledByClose, Driving, Closing, Making,
              RetainDrop, Goto, singletonVars, poolVars, roundVars, taskVars
<1> QED
    BY <1>1, <1>2, <1>3, <1>4, <1>5, <1>6, <1>7, <1>8, <1>9, <1>10 DEF PoolInv

\* aclose() takes what the pool holds: a connection or a round.
LEMMA SharedAcloseInv == ASSUME PoolInv, NEW t \in Tasks, Aclose(t) PROVE PoolInv'
<1>1. SingletonTypeOK'
    BY SingletonConstants DEF PoolInv, SingletonTypeOK, Driving, Closing, Making,
              Aclose, Goto, singletonVars, poolVars, roundVars, taskVars
<1>2. PoolOK'
    BY SingletonConstants DEF PoolInv, SingletonTypeOK, PoolOK, RoundsOK, Exclusive, DriverOK, HolderOK, Driving, Closing, Making,
              Aclose, Goto, singletonVars, poolVars, roundVars, taskVars
<1>3. RoundsOK'
    BY SingletonConstants DEF PoolInv, SingletonTypeOK, PoolOK, RoundsOK, DriverOK, HolderOK, NotResurrected, Driving, Closing, Making,
              Aclose, Goto, singletonVars, poolVars, roundVars, taskVars
<1>4. Exclusive'
    BY SingletonConstants DEF PoolInv, SingletonTypeOK, RoundsOK, Exclusive, DriverOK, HolderOK, Driving, Closing, Making,
              Aclose, Goto, singletonVars, poolVars, roundVars, taskVars
<1>5. (\A u \in Tasks : DriverOK(u))'
    BY SingletonConstants DEF PoolInv, SingletonTypeOK, PoolOK, RoundsOK, Exclusive, DriverOK, HolderOK, NotResurrected, Driving, Closing, Making,
              Aclose, Goto, singletonVars, poolVars, roundVars, taskVars
<1>6. (\A u \in Tasks : HolderOK(u))'
    BY SingletonConstants DEF PoolInv, SingletonTypeOK, PoolOK, RoundsOK, Exclusive, DriverOK, HolderOK, Driving, Closing, Making,
              Aclose, Goto, singletonVars, poolVars, roundVars, taskVars
<1>7. Accounted'
    BY SingletonConstants DEF PoolInv, SingletonTypeOK, RoundsOK, Exclusive, DriverOK, HolderOK, Accounted, Holders, Driving, Closing, Making,
              Aclose, Goto, singletonVars, poolVars, roundVars, taskVars
<1>8. NoStrandedWaiter'
    BY SingletonConstants DEF PoolInv, SingletonTypeOK, PoolOK, RoundsOK, Exclusive, DriverOK, NoStrandedWaiter, Drivers, Driving, Closing, Making,
              Aclose, Goto, singletonVars, poolVars, roundVars, taskVars
<1>9. NotResurrected'
    BY SingletonConstants DEF PoolInv, SingletonTypeOK, RoundsOK, NotResurrected, Driving, Closing, Making,
              Aclose, Goto, singletonVars, poolVars, roundVars, taskVars
<1>10. CanceledByClose'
    BY SingletonConstants DEF PoolInv, SingletonTypeOK, RoundsOK, DriverOK, CanceledByClose, Driving, Closing, Making,
              Aclose, Goto, singletonVars, poolVars, roundVars, taskVars
<1> QED
    BY <1>1, <1>2, <1>3, <1>4, <1>5, <1>6, <1>7, <1>8, <1>9, <1>10 DEF PoolInv

\* aclose() wakes the members of the round it ditched.
LEMMA DitchInv == ASSUME PoolInv, NEW t \in Tasks, Ditch(t) PROVE PoolInv'
<1>1. SingletonTypeOK'
    BY SingletonConstants DEF PoolInv, SingletonTypeOK, Driving, Closing, Making,
              Ditch, Goto, singletonVars, poolVars, roundVars, taskVars
<1>2. PoolOK'
    BY SingletonConstants DEF PoolInv, SingletonTypeOK, PoolOK, RoundsOK, Exclusive, DriverOK, HolderOK, Driving, Closing, Making,
              Ditch, Goto, singletonVars, poolVars, roundVars, taskVars
<1>3. RoundsOK'
    BY SingletonConstants DEF PoolInv, SingletonTypeOK, PoolOK, RoundsOK, DriverOK, HolderOK, NotResurrected, Driving, Closing, Making,
              Ditch, Goto, singletonVars, poolVars, roundVars, taskVars
<1>4. Exclusive'
    BY SingletonConstants DEF PoolInv, SingletonTypeOK, RoundsOK, Exclusive, DriverOK, HolderOK, Driving, Closing, Making,
              Ditch, Goto, singletonVars, poolVars, roundVars, taskVars
<1>5. (\A u \in Tasks : DriverOK(u))'
    BY SingletonConstants DEF PoolInv, SingletonTypeOK, PoolOK, RoundsOK, Exclusive, DriverOK, HolderOK, NotResurrected, Driving, Closing, Making,
              Ditch, Goto, singletonVars, poolVars, roundVars, taskVars
<1>6. (\A u \in Tasks : HolderOK(u))'
    BY SingletonConstants DEF PoolInv, SingletonTypeOK, PoolOK, RoundsOK, Exclusive, DriverOK, HolderOK, Driving, Closing, Making,
              Ditch, Goto, singletonVars, poolVars, roundVars, taskVars
<1>7. Accounted'
    BY SingletonConstants DEF PoolInv, SingletonTypeOK, RoundsOK, Exclusive, DriverOK, HolderOK, Accounted, Holders, Driving, Closing, Making,
              Ditch, Goto, singletonVars, poolVars, roundVars, taskVars
<1>8. NoStrandedWaiter'
    BY SingletonConstants DEF PoolInv, SingletonTypeOK, PoolOK, RoundsOK, Exclusive, DriverOK, NoStrandedWaiter, Drivers, Driving, Closing, Making,
              Ditch, Goto, singletonVars, poolVars, roundVars, taskVars
<1>9. NotResurrected'
    BY SingletonConstants DEF PoolInv, SingletonTypeOK, RoundsOK, NotResurrected, Driving, Closing, Making,
              Ditch, Goto, singletonVars, poolVars, roundVars, taskVars
<1>10. CanceledByClose'
    BY SingletonConstants DEF PoolInv, SingletonTypeOK, RoundsOK, DriverOK, CanceledByClose, Driving, Closing, Making,
              Ditch, Goto, singletonVars, poolVars, roundVars, taskVars
<1> QED
    BY <1>1, <1>2, <1>3, <1>4, <1>5, <1>6, <1>7, <1>8, <1>9, <1>10 DEF PoolInv

\* The connection taken out of the pool is closed.
LEMMA EvictInv == ASSUME PoolInv, NEW t \in Tasks, Evict(t) PROVE PoolInv'
<1>1. SingletonTypeOK'
    BY SingletonConstants DEF PoolInv, SingletonTypeOK, Driving, Closing, Making,
              Evict, Goto, singletonVars, poolVars, roundVars, taskVars
<1>2. PoolOK'
    BY SingletonConstants DEF PoolInv, SingletonTypeOK, PoolOK, RoundsOK, Exclusive, DriverOK, HolderOK, Driving, Closing, Making,
              Evict, Goto, singletonVars, poolVars, roundVars, taskVars
<1>3. RoundsOK'
    BY SingletonConstants DEF PoolInv, SingletonTypeOK, PoolOK, RoundsOK, DriverOK, HolderOK, NotResurrected, Driving, Closing, Making,
              Evict, Goto, singletonVars, poolVars, roundVars, taskVars
<1>4. Exclusive'
    BY SingletonConstants DEF PoolInv, SingletonTypeOK, RoundsOK, Exclusive, DriverOK, HolderOK, Driving, Closing, Making,
              Evict, Goto, singletonVars, poolVars, roundVars, taskVars
<1>5. (\A u \in Tasks : DriverOK(u))'
    BY SingletonConstants DEF PoolInv, SingletonTypeOK, PoolOK, RoundsOK, Exclusive, DriverOK, HolderOK, NotResurrected, Driving, Closing, Making,
              Evict, Goto, singletonVars, poolVars, roundVars, taskVars
<1>6. (\A u \in Tasks : HolderOK(u))'
    BY SingletonConstants DEF PoolInv, SingletonTypeOK, PoolOK, RoundsOK, Exclusive, DriverOK, HolderOK, Driving, Closing, Making,
              Evict, Goto, singletonVars, poolVars, roundVars, taskVars
<1>7. Accounted'
    BY SingletonConstants DEF PoolInv, SingletonTypeOK, RoundsOK, Exclusive, DriverOK, HolderOK, Accounted, Holders, Driving, Closing, Making,
              Evict, Goto, singletonVars, poolVars, roundVars, taskVars
<1>8. NoStrandedWaiter'
    BY SingletonConstants DEF PoolInv, SingletonTypeOK, PoolOK, RoundsOK, Exclusive, DriverOK, NoStrandedWaiter, Drivers, Driving, Closing, Making,
              Evict, Goto, singletonVars, poolVars, roundVars, taskVars
<1>9. NotResurrected'
    BY SingletonConstants DEF PoolInv, SingletonTypeOK, RoundsOK, NotResurrected, Driving, Closing, Making,
              Evict, Goto, singletonVars, poolVars, roundVars, taskVars
<1>10. CanceledByClose'
    BY SingletonConstants DEF PoolInv, SingletonTypeOK, RoundsOK, DriverOK, CanceledByClose, Driving, Closing, Making,
              Evict, Goto, singletonVars, poolVars, roundVars, taskVars
<1> QED
    BY <1>1, <1>2, <1>3, <1>4, <1>5, <1>6, <1>7, <1>8, <1>9, <1>10 DEF PoolInv

\* The peer closing a connection only turns an open one dead.
LEMMA SharedPeerClosesInv == ASSUME PoolInv, NEW c \in Rounds, PeerCloses(c) PROVE PoolInv'
BY SingletonConstants DEF PoolInv, SingletonTypeOK, PoolOK, RoundsOK, Exclusive, DriverOK, HolderOK, Accounted,
       Holders, NoStrandedWaiter, Drivers, NotResurrected, CanceledByClose, PeerCloses,
       singletonVars, poolVars, roundVars, taskVars

LEMMA SharedStutterInv == ASSUME PoolInv, UNCHANGED singletonVars PROVE PoolInv'
BY DEF PoolInv, SingletonTypeOK, PoolOK, RoundsOK, Exclusive, DriverOK, HolderOK, Accounted,
       Holders, NoStrandedWaiter, Drivers, NotResurrected, CanceledByClose,
       singletonVars, poolVars, roundVars, taskVars

\* Every step of the pool keeps the invariant.
LEMMA SharedNextInv == ASSUME PoolInv, [SingletonNext]_singletonVars PROVE PoolInv'
<1>1. CASE UNCHANGED singletonVars
    BY <1>1, SharedStutterInv
<1>2. CASE SingletonFinished
    BY <1>2, SharedStutterInv DEF SingletonFinished
<1>3. ASSUME NEW t \in Tasks, Call(t) PROVE PoolInv'
    BY <1>3, GetMadeInv, GetDriveInv, GetJoinInv, RetainLookInv, SharedAcloseInv DEF Call
<1>4. ASSUME NEW t \in Tasks, Work(t) PROVE PoolInv'
    BY <1>4, CloseStaleInv, SharedDialedInv, SharedEnteredInv, SharedConnectFailsInv, FailRoundInv, InstallInv,
       ReportInv, CloseRefusedInv, WaitOverInv, RetainKeepInv, RetainDropInv, DitchInv, EvictInv
       DEF Work
<1>5. ASSUME NEW t \in Tasks, WaitCancelled(t) PROVE PoolInv'
    BY <1>5, WaitCancelledInv
<1>6. ASSUME NEW c \in Rounds, PeerCloses(c) PROVE PoolInv'
    BY <1>6, SharedPeerClosesInv
<1> QED
    BY <1>1, <1>2, <1>3, <1>4, <1>5, <1>6 DEF SingletonNext

\* The inductive invariant of the shared connection holds in every behaviour of the
\* pool, for any number of callers, rounds and calls.
THEOREM SingletonInvariant == SingletonSpec => []PoolInv
<1>1. SingletonInit => PoolInv
    BY SharedInitInv
<1>2. PoolInv /\ [SingletonNext]_singletonVars => PoolInv'
    BY SharedNextInv
<1> QED
    BY <1>1, <1>2, PTL DEF SingletonSpec

\* The pool's state, connection and round always agree, and a round in flight has
\* exactly one driver: concurrent get()s share one connect.
THEOREM SingletonOneDriver == SingletonSpec => []OneDriver
<1>1. PoolInv => OneDriver
  <2> SUFFICES ASSUME PoolInv PROVE OneDriver
      OBVIOUS
  <2>1. ASSUME rnd # None PROVE \E t \in Tasks : Drivers(rnd) = {t}
    <3>1. PICK t \in Tasks : my[t] = rnd /\ pc[t] \in Making
        BY <2>1 DEF PoolInv, PoolOK
    <3>2. \A u \in Drivers(rnd) : u = t
        BY <3>1 DEF PoolInv, Exclusive, Drivers, Making, Driving
    <3>3. t \in Drivers(rnd)
        BY <3>1 DEF Drivers, Making, Driving
    <3> QED
        BY <3>2, <3>3
  <2> QED
      BY <2>1 DEF PoolInv, PoolOK, OneDriver
<1> QED
    BY <1>1, SingletonInvariant, PTL

\* A caller that waits for a round is always woken by someone who is still at work:
\* the round's driver or the aclose() that ditched it.
THEOREM SingletonNoStrandedWaiter == SingletonSpec => []NoStrandedWaiter
<1>1. PoolInv => NoStrandedWaiter
    BY DEF PoolInv
<1> QED
    BY <1>1, SingletonInvariant, PTL

\* No connection leaks and none is closed twice: an unclosed one is the shared one or
\* is held by exactly one task.
THEOREM SingletonSoleOwner == SingletonSpec => []SoleOwner
<1>1. PoolInv => SoleOwner
  <2> SUFFICES ASSUME PoolInv, NEW c \in Rounds
               PROVE  /\ life[c] \in {"dialed", "open", "dead"} /\ c # conn => \E t \in Tasks : Holders(c) = {t}
                      /\ c = conn => Holders(c) = {} /\ life[c] \in {"open", "dead"}
      BY DEF SoleOwner
  <2>1. ASSUME NEW t \in Holders(c), NEW u \in Holders(c) PROVE t = u
    <3>1. ASSUME NEW v \in Holders(c)
          PROVE  \/ my[v] = c /\ pc[v] \in {"enter", "install", "refused", "close"} /\ res[c] = "open"
                 \/ held[v] = c /\ pc[v] \in {"stale", "evict"} /\ res[c] = "conn"
        BY <3>1, SingletonConstants DEF Holders, Closing, PoolInv, SingletonTypeOK, DriverOK, HolderOK
    <3> QED
        BY <3>1 DEF Holders, PoolInv, Exclusive, Driving
  <2>2. ASSUME life[c] \in {"dialed", "open", "dead"}, c # conn PROVE \E t \in Tasks : Holders(c) = {t}
    <3>1. PICK t : t \in Holders(c)
        BY <2>2 DEF PoolInv, Accounted
    <3>2. t \in Tasks /\ Holders(c) = {t}
        BY <3>1, <2>1 DEF Holders
    <3> QED
        BY <3>2
  <2>3. ASSUME c = conn PROVE Holders(c) = {} /\ life[c] \in {"open", "dead"}
      BY <2>3, SingletonConstants DEF Holders, Closing, PoolInv, SingletonTypeOK, RoundsOK, DriverOK, HolderOK
  <2> QED
      BY <2>2, <2>3
<1> QED
    BY <1>1, SingletonInvariant, PTL

\* After aclose() the pool never holds a connection of a round begun before it.
THEOREM SingletonNotResurrected == SingletonSpec => []NotResurrected
<1>1. PoolInv => NotResurrected
    BY DEF PoolInv
<1> QED
    BY <1>1, SingletonInvariant, PTL

\* get() raises Canceled only when aclose() dropped its round.
THEOREM SingletonCanceledByClose == SingletonSpec => []CanceledByClose
<1>1. PoolInv => CanceledByClose
    BY DEF PoolInv
<1> QED
    BY <1>1, SingletonInvariant, PTL

\* The safety of the shared connection as a whole: one driver for a round, nobody
\* stranded in get(), no connection leaked, resurrected or closed twice, and Canceled
\* only from aclose().
THEOREM SingletonPoolSafe == SingletonSpec => []PoolSafe
<1>1. OneDriver /\ NoStrandedWaiter /\ SoleOwner /\ NotResurrected /\ CanceledByClose => PoolSafe
    BY DEF PoolSafe
<1> QED
    BY <1>1, SingletonOneDriver, SingletonNoStrandedWaiter, SingletonSoleOwner,
       SingletonNotResurrected, SingletonCanceledByClose, PTL


-----------------------------------------------------------------------------
(* The cache.                                                               *)

\* A task has a lease's connection, or connections to close, exactly where its place
\* says so; a lent connection is as far along as the lease.
PlaceOK(t) ==
    /\ at[t] \in {"enter", "use", "park", "close"} <=> lent[t] # NoConn
    /\ drop[t] # {} => at[t] \in {"evict", "evicting"}
    /\ at[t] = "enter" => health[lent[t]] = "dialed"
    /\ at[t] \in {"use", "park", "close"} => health[lent[t]] \in {"open", "dead"}
    /\ at[t] = "park" => ~busy[lent[t]]
    /\ at[t] = "enter" => ~busy[lent[t]]

\* What is idle or taken out is open and free; what does not exist is free.
ParkedOK ==
    /\ \A c \in idle : health[c] \in {"open", "dead"} /\ ~busy[c]
    /\ \A t \in Users : \A c \in drop[t] : health[c] \in {"open", "dead"} /\ ~busy[c]
    /\ \A c \in Conns : health[c] = "none" => ~busy[c]

\* No connection is in two hands, or both idle and in a task's hands.
HandsOK ==
    \A t \in Users :
        /\ lent[t] \notin idle /\ drop[t] \cap idle = {}
        /\ \A u \in Users \ {t} :
             /\ lent[t] = lent[u] => lent[t] = NoConn
             /\ lent[t] \notin drop[u]
             /\ drop[t] \cap drop[u] = {}

CacheInv ==
    /\ CacheTypeOK /\ ParkedOK /\ HandsOK /\ ClosedStaysEmpty /\ EvictedAreClosed
    /\ \A t \in Users : PlaceOK(t)

-----------------------------------------------------------------------------

\* The cache starts empty.
LEMMA InitInv == ASSUME CacheInit PROVE CacheInv
BY CacheConstants DEF CacheInit, CacheInv, CacheTypeOK, ParkedOK, HandsOK, ClosedStaysEmpty, PlaceOK,
       EvictedAreClosed, Places

\* A connection goes from the idle set to a lease.
LEMMA ReuseInv == ASSUME CacheInv, NEW t \in Users, Reuse(t) PROVE CacheInv'
<1>1. CacheTypeOK'
    BY CacheConstants DEF CacheInv, CacheTypeOK, PlaceOK, Places, Reuse, MoveTo, cacheVars
<1>2. ParkedOK'
    BY CacheConstants DEF CacheInv, CacheTypeOK, PlaceOK, ParkedOK, HandsOK, Reuse, MoveTo, cacheVars
<1>3. HandsOK'
    BY CacheConstants DEF CacheInv, CacheTypeOK, PlaceOK, ParkedOK, HandsOK, Reuse, MoveTo, cacheVars
<1>4. ClosedStaysEmpty'
    BY CacheConstants DEF CacheInv, CacheTypeOK, ClosedStaysEmpty, Reuse, MoveTo, cacheVars
<1>5. (\A u \in Users : PlaceOK(u))'
    BY CacheConstants DEF CacheInv, CacheTypeOK, PlaceOK, ParkedOK, HandsOK, Dead, Reuse, MoveTo, cacheVars
<1>6. EvictedAreClosed'
    BY CacheConstants DEF CacheInv, CacheTypeOK, PlaceOK, EvictedAreClosed, HeldBy, Reuse, MoveTo, cacheVars
<1> QED
    BY <1>1, <1>2, <1>3, <1>4, <1>5, <1>6 DEF CacheInv

\* A lease that found none connects.
LEMMA ConnectInv == ASSUME CacheInv, NEW t \in Users, Connect(t) PROVE CacheInv'
<1>1. CacheTypeOK'
    BY CacheConstants DEF CacheInv, CacheTypeOK, PlaceOK, Places, Connect, MoveTo, cacheVars
<1>2. ParkedOK'
    BY CacheConstants DEF CacheInv, CacheTypeOK, PlaceOK, ParkedOK, HandsOK, Connect, MoveTo, cacheVars
<1>3. HandsOK'
    BY CacheConstants DEF CacheInv, CacheTypeOK, PlaceOK, ParkedOK, HandsOK, Connect, MoveTo, cacheVars
<1>4. ClosedStaysEmpty'
    BY CacheConstants DEF CacheInv, CacheTypeOK, ClosedStaysEmpty, Connect, MoveTo, cacheVars
<1>5. (\A u \in Users : PlaceOK(u))'
    BY CacheConstants DEF CacheInv, CacheTypeOK, PlaceOK, ParkedOK, HandsOK, Dead, Connect, MoveTo, cacheVars
<1>6. EvictedAreClosed'
    BY CacheConstants DEF CacheInv, CacheTypeOK, PlaceOK, EvictedAreClosed, HeldBy, Connect, MoveTo, cacheVars
<1> QED
    BY <1>1, <1>2, <1>3, <1>4, <1>5, <1>6 DEF CacheInv

\* The connector returned a connection that nobody has seen.
LEMMA DialedInv == ASSUME CacheInv, NEW t \in Users, LeaseDialed(t) PROVE CacheInv'
<1>1. CacheTypeOK'
    BY CacheConstants DEF CacheInv, CacheTypeOK, PlaceOK, Places, LeaseDialed, MoveTo, cacheVars
<1>2. ParkedOK'
    BY CacheConstants DEF CacheInv, CacheTypeOK, PlaceOK, ParkedOK, HandsOK, LeaseDialed, MoveTo, cacheVars
<1>3. HandsOK'
    BY CacheConstants DEF CacheInv, CacheTypeOK, PlaceOK, ParkedOK, HandsOK, LeaseDialed, MoveTo, cacheVars
<1>4. ClosedStaysEmpty'
    BY CacheConstants DEF CacheInv, CacheTypeOK, ClosedStaysEmpty, LeaseDialed, MoveTo, cacheVars
<1>5. (\A u \in Users : PlaceOK(u))'
    BY CacheConstants DEF CacheInv, CacheTypeOK, PlaceOK, ParkedOK, HandsOK, Dead, LeaseDialed, MoveTo, cacheVars
<1>6. EvictedAreClosed'
    BY CacheConstants DEF CacheInv, CacheTypeOK, PlaceOK, EvictedAreClosed, HeldBy, LeaseDialed, MoveTo, cacheVars
<1> QED
    BY <1>1, <1>2, <1>3, <1>4, <1>5, <1>6 DEF CacheInv

\* The handshake is done.
LEMMA EnteredInv == ASSUME CacheInv, NEW t \in Users, LeaseEntered(t) PROVE CacheInv'
<1>1. CacheTypeOK'
    BY CacheConstants DEF CacheInv, CacheTypeOK, PlaceOK, Places, LeaseEntered, MoveTo, cacheVars
<1>2. ParkedOK'
    BY CacheConstants DEF CacheInv, CacheTypeOK, PlaceOK, ParkedOK, HandsOK, LeaseEntered, MoveTo, cacheVars
<1>3. HandsOK'
    BY CacheConstants DEF CacheInv, CacheTypeOK, PlaceOK, ParkedOK, HandsOK, LeaseEntered, MoveTo, cacheVars
<1>4. ClosedStaysEmpty'
    BY CacheConstants DEF CacheInv, CacheTypeOK, ClosedStaysEmpty, LeaseEntered, MoveTo, cacheVars
<1>5. (\A u \in Users : PlaceOK(u))'
    BY CacheConstants DEF CacheInv, CacheTypeOK, PlaceOK, ParkedOK, HandsOK, Dead, LeaseEntered, MoveTo, cacheVars
<1>6. EvictedAreClosed'
    BY CacheConstants DEF CacheInv, CacheTypeOK, PlaceOK, EvictedAreClosed, HeldBy, LeaseEntered, MoveTo, cacheVars
<1> QED
    BY <1>1, <1>2, <1>3, <1>4, <1>5, <1>6 DEF CacheInv

\* A failed connect leaves nothing open.
LEMMA ConnectFailsInv == ASSUME CacheInv, NEW t \in Users, LeaseFails(t) PROVE CacheInv'
<1>1. CacheTypeOK'
    BY CacheConstants DEF CacheInv, CacheTypeOK, PlaceOK, Places, LeaseFails, MoveTo, cacheVars
<1>2. ParkedOK'
    BY CacheConstants DEF CacheInv, CacheTypeOK, PlaceOK, ParkedOK, HandsOK, LeaseFails, MoveTo, cacheVars
<1>3. HandsOK'
    BY CacheConstants DEF CacheInv, CacheTypeOK, PlaceOK, ParkedOK, HandsOK, LeaseFails, MoveTo, cacheVars
<1>4. ClosedStaysEmpty'
    BY CacheConstants DEF CacheInv, CacheTypeOK, ClosedStaysEmpty, LeaseFails, MoveTo, cacheVars
<1>5. (\A u \in Users : PlaceOK(u))'
    BY CacheConstants DEF CacheInv, CacheTypeOK, PlaceOK, ParkedOK, HandsOK, Dead, LeaseFails, MoveTo, cacheVars
<1>6. EvictedAreClosed'
    BY CacheConstants DEF CacheInv, CacheTypeOK, PlaceOK, EvictedAreClosed, HeldBy, LeaseFails, MoveTo, cacheVars
<1> QED
    BY <1>1, <1>2, <1>3, <1>4, <1>5, <1>6 DEF CacheInv

\* An exchange on a lent connection.
LEMMA ExchangeInv == ASSUME CacheInv, NEW t \in Users, Exchange(t) PROVE CacheInv'
<1>1. CacheTypeOK'
    BY CacheConstants DEF CacheInv, CacheTypeOK, PlaceOK, Places, Exchange, MoveTo, cacheVars
<1>2. ParkedOK'
    BY CacheConstants DEF CacheInv, CacheTypeOK, PlaceOK, ParkedOK, HandsOK, Exchange, MoveTo, cacheVars
<1>3. HandsOK'
    BY CacheConstants DEF CacheInv, CacheTypeOK, PlaceOK, ParkedOK, HandsOK, Exchange, MoveTo, cacheVars
<1>4. ClosedStaysEmpty'
    BY CacheConstants DEF CacheInv, CacheTypeOK, ClosedStaysEmpty, Exchange, MoveTo, cacheVars
<1>5. (\A u \in Users : PlaceOK(u))'
    BY CacheConstants DEF CacheInv, CacheTypeOK, PlaceOK, ParkedOK, HandsOK, Dead, Exchange, MoveTo, cacheVars
<1>6. EvictedAreClosed'
    BY CacheConstants DEF CacheInv, CacheTypeOK, PlaceOK, EvictedAreClosed, HeldBy, Exchange, MoveTo, cacheVars
<1> QED
    BY <1>1, <1>2, <1>3, <1>4, <1>5, <1>6 DEF CacheInv

\* Only a free connection goes on to be parked.
LEMMA ExitCleanInv == ASSUME CacheInv, NEW t \in Users, ExitClean(t) PROVE CacheInv'
<1>1. CacheTypeOK'
    BY CacheConstants DEF CacheInv, CacheTypeOK, PlaceOK, Places, ExitClean, MoveTo, cacheVars
<1>2. ParkedOK'
    BY CacheConstants DEF CacheInv, CacheTypeOK, PlaceOK, ParkedOK, HandsOK, ExitClean, MoveTo, cacheVars
<1>3. HandsOK'
    BY CacheConstants DEF CacheInv, CacheTypeOK, PlaceOK, ParkedOK, HandsOK, ExitClean, MoveTo, cacheVars
<1>4. ClosedStaysEmpty'
    BY CacheConstants DEF CacheInv, CacheTypeOK, ClosedStaysEmpty, ExitClean, MoveTo, cacheVars
<1>5. (\A u \in Users : PlaceOK(u))'
    BY CacheConstants DEF CacheInv, CacheTypeOK, PlaceOK, ParkedOK, HandsOK, Dead, ExitClean, MoveTo, cacheVars
<1>6. EvictedAreClosed'
    BY CacheConstants DEF CacheInv, CacheTypeOK, PlaceOK, EvictedAreClosed, HeldBy, ExitClean, MoveTo, cacheVars
<1> QED
    BY <1>1, <1>2, <1>3, <1>4, <1>5, <1>6 DEF CacheInv

\* After an exception the lease closes.
LEMMA ExitRaisedInv == ASSUME CacheInv, NEW t \in Users, ExitRaised(t) PROVE CacheInv'
<1>1. CacheTypeOK'
    BY CacheConstants DEF CacheInv, CacheTypeOK, PlaceOK, Places, ExitRaised, MoveTo, cacheVars
<1>2. ParkedOK'
    BY CacheConstants DEF CacheInv, CacheTypeOK, PlaceOK, ParkedOK, HandsOK, ExitRaised, MoveTo, cacheVars
<1>3. HandsOK'
    BY CacheConstants DEF CacheInv, CacheTypeOK, PlaceOK, ParkedOK, HandsOK, ExitRaised, MoveTo, cacheVars
<1>4. ClosedStaysEmpty'
    BY CacheConstants DEF CacheInv, CacheTypeOK, ClosedStaysEmpty, ExitRaised, MoveTo, cacheVars
<1>5. (\A u \in Users : PlaceOK(u))'
    BY CacheConstants DEF CacheInv, CacheTypeOK, PlaceOK, ParkedOK, HandsOK, Dead, ExitRaised, MoveTo, cacheVars
<1>6. EvictedAreClosed'
    BY CacheConstants DEF CacheInv, CacheTypeOK, PlaceOK, EvictedAreClosed, HeldBy, ExitRaised, MoveTo, cacheVars
<1> QED
    BY <1>1, <1>2, <1>3, <1>4, <1>5, <1>6 DEF CacheInv

\* A connection goes from a lease to the idle set of an open cache.
LEMMA CheckinInv == ASSUME CacheInv, NEW t \in Users, Checkin(t) PROVE CacheInv'
<1>1. CacheTypeOK'
    BY CacheConstants DEF CacheInv, CacheTypeOK, PlaceOK, Places, Checkin, MoveTo, cacheVars
<1>2. ParkedOK'
    BY CacheConstants DEF CacheInv, CacheTypeOK, PlaceOK, ParkedOK, HandsOK, Checkin, MoveTo, cacheVars
<1>3. HandsOK'
    BY CacheConstants DEF CacheInv, CacheTypeOK, PlaceOK, ParkedOK, HandsOK, Checkin, MoveTo, cacheVars
<1>4. ClosedStaysEmpty'
    BY CacheConstants DEF CacheInv, CacheTypeOK, ClosedStaysEmpty, Checkin, MoveTo, cacheVars
<1>5. (\A u \in Users : PlaceOK(u))'
    BY CacheConstants DEF CacheInv, CacheTypeOK, PlaceOK, ParkedOK, HandsOK, Dead, Checkin, MoveTo, cacheVars
<1>6. EvictedAreClosed'
    BY CacheConstants DEF CacheInv, CacheTypeOK, PlaceOK, EvictedAreClosed, HeldBy, Checkin, MoveTo, cacheVars
<1> QED
    BY <1>1, <1>2, <1>3, <1>4, <1>5, <1>6 DEF CacheInv

\* The lease closes its connection.
LEMMA CloseLentInv == ASSUME CacheInv, NEW t \in Users, CloseLent(t) PROVE CacheInv'
<1>1. CacheTypeOK'
    BY CacheConstants DEF CacheInv, CacheTypeOK, PlaceOK, Places, CloseLent, MoveTo, cacheVars
<1>2. ParkedOK'
    BY CacheConstants DEF CacheInv, CacheTypeOK, PlaceOK, ParkedOK, HandsOK, CloseLent, MoveTo, cacheVars
<1>3. HandsOK'
    BY CacheConstants DEF CacheInv, CacheTypeOK, PlaceOK, ParkedOK, HandsOK, CloseLent, MoveTo, cacheVars
<1>4. ClosedStaysEmpty'
    BY CacheConstants DEF CacheInv, CacheTypeOK, ClosedStaysEmpty, CloseLent, MoveTo, cacheVars
<1>5. (\A u \in Users : PlaceOK(u))'
    BY CacheConstants DEF CacheInv, CacheTypeOK, PlaceOK, ParkedOK, HandsOK, Dead, CloseLent, MoveTo, cacheVars
<1>6. EvictedAreClosed'
    BY CacheConstants DEF CacheInv, CacheTypeOK, PlaceOK, EvictedAreClosed, HeldBy, CloseLent, MoveTo, cacheVars
<1> QED
    BY <1>1, <1>2, <1>3, <1>4, <1>5, <1>6 DEF CacheInv

\* The predicate rejects some of the idle connections.
LEMMA JudgeInv == ASSUME CacheInv, NEW t \in Users, Judge(t) PROVE CacheInv'
<1>1. CacheTypeOK'
    BY CacheConstants DEF CacheInv, CacheTypeOK, PlaceOK, Places, Judge, MoveTo, cacheVars
<1>2. ParkedOK'
    BY CacheConstants DEF CacheInv, CacheTypeOK, PlaceOK, ParkedOK, HandsOK, Judge, MoveTo, cacheVars
<1>3. HandsOK'
    BY CacheConstants DEF CacheInv, CacheTypeOK, PlaceOK, ParkedOK, HandsOK, Judge, MoveTo, cacheVars
<1>4. ClosedStaysEmpty'
    BY CacheConstants DEF CacheInv, CacheTypeOK, ClosedStaysEmpty, Judge, MoveTo, cacheVars
<1>5. (\A u \in Users : PlaceOK(u))'
    BY CacheConstants DEF CacheInv, CacheTypeOK, PlaceOK, ParkedOK, HandsOK, Dead, Judge, MoveTo, cacheVars
<1>6. EvictedAreClosed'
    BY CacheConstants DEF CacheInv, CacheTypeOK, PlaceOK, EvictedAreClosed, HeldBy, Judge, MoveTo, cacheVars
<1> QED
    BY <1>1, <1>2, <1>3, <1>4, <1>5, <1>6 DEF CacheInv

\* Those still idle are taken out.
LEMMA TakeRejectedInv == ASSUME CacheInv, NEW t \in Users, TakeRejected(t) PROVE CacheInv'
<1>1. CacheTypeOK'
    BY CacheConstants DEF CacheInv, CacheTypeOK, PlaceOK, Places, TakeRejected, MoveTo, cacheVars
<1>2. ParkedOK'
    BY CacheConstants DEF CacheInv, CacheTypeOK, PlaceOK, ParkedOK, HandsOK, TakeRejected, MoveTo, cacheVars
<1>3. HandsOK'
    BY CacheConstants DEF CacheInv, CacheTypeOK, PlaceOK, ParkedOK, HandsOK, TakeRejected, MoveTo, cacheVars
<1>4. ClosedStaysEmpty'
    BY CacheConstants DEF CacheInv, CacheTypeOK, ClosedStaysEmpty, TakeRejected, MoveTo, cacheVars
<1>5. (\A u \in Users : PlaceOK(u))'
    BY CacheConstants DEF CacheInv, CacheTypeOK, PlaceOK, ParkedOK, HandsOK, Dead, TakeRejected, MoveTo, cacheVars
<1>6. EvictedAreClosed'
    BY CacheConstants DEF CacheInv, CacheTypeOK, PlaceOK, EvictedAreClosed, HeldBy, TakeRejected, MoveTo, cacheVars
<1> QED
    BY <1>1, <1>2, <1>3, <1>4, <1>5, <1>6 DEF CacheInv

\* All idle connections are taken out and the cache is closed.
LEMMA AcloseInv == ASSUME CacheInv, NEW t \in Users, CacheAclose(t) PROVE CacheInv'
<1>1. CacheTypeOK'
    BY CacheConstants DEF CacheInv, CacheTypeOK, PlaceOK, Places, CacheAclose, MoveTo, cacheVars
<1>2. ParkedOK'
    BY CacheConstants DEF CacheInv, CacheTypeOK, PlaceOK, ParkedOK, HandsOK, CacheAclose, MoveTo, cacheVars
<1>3. HandsOK'
    BY CacheConstants DEF CacheInv, CacheTypeOK, PlaceOK, ParkedOK, HandsOK, CacheAclose, MoveTo, cacheVars
<1>4. ClosedStaysEmpty'
    BY CacheConstants DEF CacheInv, CacheTypeOK, ClosedStaysEmpty, CacheAclose, MoveTo, cacheVars
<1>5. (\A u \in Users : PlaceOK(u))'
    BY CacheConstants DEF CacheInv, CacheTypeOK, PlaceOK, ParkedOK, HandsOK, Dead, CacheAclose, MoveTo, cacheVars
<1>6. EvictedAreClosed'
    BY CacheConstants DEF CacheInv, CacheTypeOK, PlaceOK, EvictedAreClosed, HeldBy, CacheAclose, MoveTo, cacheVars
<1> QED
    BY <1>1, <1>2, <1>3, <1>4, <1>5, <1>6 DEF CacheInv

\* One of those taken out is closed.
LEMMA EvictOneInv == ASSUME CacheInv, NEW t \in Users, EvictOne(t) PROVE CacheInv'
<1>1. CacheTypeOK'
    BY CacheConstants DEF CacheInv, CacheTypeOK, PlaceOK, Places, EvictOne, MoveTo, cacheVars
<1>2. ParkedOK'
    BY CacheConstants DEF CacheInv, CacheTypeOK, PlaceOK, ParkedOK, HandsOK, EvictOne, MoveTo, cacheVars
<1>3. HandsOK'
    BY CacheConstants DEF CacheInv, CacheTypeOK, PlaceOK, ParkedOK, HandsOK, EvictOne, MoveTo, cacheVars
<1>4. ClosedStaysEmpty'
    BY CacheConstants DEF CacheInv, CacheTypeOK, ClosedStaysEmpty, EvictOne, MoveTo, cacheVars
<1>5. (\A u \in Users : PlaceOK(u))'
    BY CacheConstants DEF CacheInv, CacheTypeOK, PlaceOK, ParkedOK, HandsOK, Dead, EvictOne, MoveTo, cacheVars
<1>6. EvictedAreClosed'
    BY CacheConstants DEF CacheInv, CacheTypeOK, PlaceOK, EvictedAreClosed, HeldBy, EvictOne, MoveTo, cacheVars
<1> QED
    BY <1>1, <1>2, <1>3, <1>4, <1>5, <1>6 DEF CacheInv

\* A cancelled eviction forgets what is left: only what is closed on eviction is lost.
LEMMA EvictCancelledInv == ASSUME CacheInv, NEW t \in Users, EvictCancelled(t) PROVE CacheInv'
<1>1. CacheTypeOK'
    BY CacheConstants DEF CacheInv, CacheTypeOK, PlaceOK, Places, EvictCancelled, MoveTo, cacheVars
<1>2. ParkedOK'
    BY CacheConstants DEF CacheInv, CacheTypeOK, PlaceOK, ParkedOK, HandsOK, EvictCancelled, MoveTo, cacheVars
<1>3. HandsOK'
    BY CacheConstants DEF CacheInv, CacheTypeOK, PlaceOK, ParkedOK, HandsOK, EvictCancelled, MoveTo, cacheVars
<1>4. ClosedStaysEmpty'
    BY CacheConstants DEF CacheInv, CacheTypeOK, ClosedStaysEmpty, EvictCancelled, MoveTo, cacheVars
<1>5. (\A u \in Users : PlaceOK(u))'
    BY CacheConstants DEF CacheInv, CacheTypeOK, PlaceOK, ParkedOK, HandsOK, Dead, EvictCancelled, MoveTo, cacheVars
<1>6. EvictedAreClosed'
    BY CacheConstants DEF CacheInv, CacheTypeOK, PlaceOK, EvictedAreClosed, HeldBy, EvictCancelled, MoveTo, cacheVars
<1> QED
    BY <1>1, <1>2, <1>3, <1>4, <1>5, <1>6 DEF CacheInv

\* The peer closing a connection only turns an open one dead.
LEMMA PeerClosesInv == ASSUME CacheInv, NEW c \in Conns, PeerHangsUp(c) PROVE CacheInv'
BY CacheConstants DEF CacheInv, CacheTypeOK, ParkedOK, HandsOK, ClosedStaysEmpty, PlaceOK, EvictedAreClosed,
       HeldBy, PeerHangsUp, cacheVars

\* A step of anything else leaves the leases as they were.
LEMMA StutterInv == ASSUME CacheInv, UNCHANGED leaseVars PROVE CacheInv'
BY DEF CacheInv, CacheTypeOK, ParkedOK, HandsOK, ClosedStaysEmpty, PlaceOK, EvictedAreClosed, HeldBy,
       leaseVars, cacheVars

\* Every step of the cache keeps the invariant.
LEMMA NextInv == ASSUME CacheInv, [CacheNext]_leaseVars PROVE CacheInv'
<1>1. CASE UNCHANGED leaseVars
    BY <1>1, StutterInv
<1>2. ASSUME NEW t \in Users, Lease(t) PROVE CacheInv'
    BY <1>2, ReuseInv, ConnectInv, DialedInv, EnteredInv, ConnectFailsInv, ExchangeInv, ExitCleanInv,
       ExitRaisedInv, CheckinInv, CloseLentInv DEF Lease
<1>3. ASSUME NEW t \in Users, Evictions(t) PROVE CacheInv'
    BY <1>3, JudgeInv, TakeRejectedInv, AcloseInv, EvictOneInv DEF Evictions
<1>4. ASSUME NEW t \in Users, EvictCancelled(t) PROVE CacheInv'
    BY <1>4, EvictCancelledInv
<1>5. ASSUME NEW c \in Conns, PeerHangsUp(c) PROVE CacheInv'
    BY <1>5, PeerClosesInv
<1> QED
    BY <1>1, <1>2, <1>3, <1>4, <1>5 DEF CacheNext

\* The inductive invariant of the cache and its leases holds in every behaviour.
THEOREM CacheInvariant == CacheSpec => []CacheInv
<1>1. CacheInit => CacheInv
    BY InitInv
<1>2. CacheInv /\ [CacheNext]_leaseVars => CacheInv'
    BY NextInv
<1> QED
    BY <1>1, <1>2, PTL DEF CacheSpec

\* No connection is ever in two hands, even when evictions are cancelled half-way.
THEOREM CacheOneHolder == CacheSpec => []OneHolder
<1>1. CacheInv => OneHolder
  <2> SUFFICES ASSUME CacheInv, NEW c \in Conns
               PROVE  /\ \A t, u \in HeldBy(c) : t = u
                      /\ c \in idle \/ health[c] \in {"none", "closed"} => HeldBy(c) = {}
                      /\ c \in idle => health[c] \in {"open", "dead"}
      BY DEF OneHolder
  <2>1. \A t, u \in HeldBy(c) : t = u
      BY CacheConstants DEF CacheInv, CacheTypeOK, HandsOK, HeldBy
  <2>2. c \in idle => HeldBy(c) = {} /\ health[c] \in {"open", "dead"}
      BY DEF CacheInv, HandsOK, ParkedOK, HeldBy
  <2>3. health[c] \in {"none", "closed"} => HeldBy(c) = {}
      BY CacheConstants DEF CacheInv, CacheTypeOK, PlaceOK, ParkedOK, HeldBy
  <2> QED
      BY <2>1, <2>2, <2>3
<1> QED
    BY <1>1, CacheInvariant, PTL

\* No connection with an unfinished exchange is ever idle in the cache.
THEOREM CacheNeverParkBusy == CacheSpec => []NeverParkBusy
<1>1. CacheInv => NeverParkBusy
    BY DEF CacheInv, ParkedOK, NeverParkBusy
<1> QED
    BY <1>1, CacheInvariant, PTL

\* A closed cache stays empty, however late the leases end.
THEOREM CacheClosedStaysEmpty == CacheSpec => []ClosedStaysEmpty
<1>1. CacheInv => ClosedStaysEmpty
    BY DEF CacheInv
<1> QED
    BY <1>1, CacheInvariant, PTL

\* Every connection that leaves the cache is closed, but for those a cancelled eviction
\* gave up.
THEOREM CacheEvictedAreClosed == CacheSpec => []EvictedAreClosed
<1>1. CacheInv => EvictedAreClosed
    BY DEF CacheInv
<1> QED
    BY <1>1, CacheInvariant, PTL

\* The safety of the cache as a whole: one holder for a connection, none parked with an
\* unfinished exchange, a closed cache empty for good, and nothing lost but what a
\* cancelled eviction gave up.
THEOREM CacheIsSafe == CacheSpec => []CacheSafe
<1>1. OneHolder /\ NeverParkBusy /\ ClosedStaysEmpty /\ EvictedAreClosed => CacheSafe
    BY DEF CacheSafe
<1> QED
    BY <1>1, CacheOneHolder, CacheNeverParkBusy, CacheClosedStaysEmpty, CacheEvictedAreClosed, PTL

-----------------------------------------------------------------------------
(* The map: the table names pools of their own keys, and whoever has taken  *)
(* pools out, or has made one, knows pools that exist.                      *)

PoolRecord == [key : Keys, given : BOOLEAN, open : BOOLEAN]

\* What the table, the closers and the makers name exists, under its own key.
PoolsKnown ==
    /\ Len(pools) <= MaxPools
    /\ \A k \in Keys : table[k] # NoPool => table[k] <= Len(pools) /\ pools[table[k]].key = k
    /\ \A t \in MapUsers :
         /\ does[t] = "insert" => mine[t] \in 1..Len(pools)
         /\ does[t] # "closing" => toClose[t] = {}

MapInv == MapTypeOK /\ PoolsKnown /\ SharedUntilClosed /\ ClosedForGood

\* Nothing is made yet.
LEMMA MapInitInv == ASSUME MapInit PROVE MapInv
<1>1. pools \in Seq(PoolRecord) /\ Len(pools) = 0
    BY EmptySeq DEF MapInit
<1>2. mapClosed \in BOOLEAN
    BY Zenon DEF MapInit
<1> QED
    BY <1>1, <1>2, MapConstants DEF MapInit, MapInv, MapTypeOK, PoolRecord, PoolsKnown, SharedUntilClosed,
       ClosedForGood, NoPool

\* Every pool has a number from 1 on and a key.
LEMMA PoolsTyped ==
    ASSUME MapInv
    PROVE  /\ pools \in Seq(PoolRecord) /\ Len(pools) \in Nat
           /\ \A j \in 1..Len(pools) :
                pools[j] \in PoolRecord /\ pools[j].key \in Keys /\ j # NoPool
<1>1. pools \in Seq(PoolRecord)
    BY DEF MapInv, MapTypeOK, PoolRecord
<1>2. Len(pools) \in Nat /\ \A j \in 1..Len(pools) : pools[j] \in PoolRecord
    BY <1>1, LenProperties, ElementOfSeq
<1> QED
    BY <1>1, <1>2 DEF PoolRecord, NoPool

HandOut(p, i) == [p EXCEPT ![i].given = TRUE]

\* A pool that is marked as given away keeps its key and its state.
LEMMA GiveKept ==
    ASSUME pools \in Seq(PoolRecord), NEW i \in 1..Len(pools), pools' = HandOut(pools, i)
    PROVE  /\ pools' \in Seq(PoolRecord) /\ Len(pools') = Len(pools)
           /\ \A j \in 1..Len(pools) : pools'[j].key = pools[j].key /\ pools'[j].open = pools[j].open
           /\ pools'[i].given
           /\ \A j \in 1..Len(pools) : j # i => pools'[j] = pools[j]
<1>1. pools[i] \in PoolRecord
    BY ElementOfSeq
<1>2. [pools[i] EXCEPT !.given = TRUE] \in PoolRecord
    BY <1>1 DEF PoolRecord
<1>3. pools' = [pools EXCEPT ![i] = [pools[i] EXCEPT !.given = TRUE]]
    BY DEF HandOut
<1>4. pools' \in Seq(PoolRecord) /\ Len(pools') = Len(pools)
    BY <1>2, <1>3, ExceptSeq
<1>5. pools \in [1..Len(pools) -> PoolRecord]
    BY LenProperties
<1> QED
    BY <1>1, <1>3, <1>4, <1>5 DEF PoolRecord

\* A pool handed out again was its key's already.
LEMMA PoolFoundInv ==
    ASSUME MapInv, NEW t \in MapUsers, NEW k \in Keys, PoolFound(t, k) PROVE MapInv'
<1> DEFINE i == table[k]
<1>1. pools \in Seq(PoolRecord) /\ i \in 1..Len(pools) /\ pools' = HandOut(pools, i)
    BY LenProperties, MapConstants DEF MapInv, MapTypeOK, PoolsKnown, PoolFound, PoolRecord, NoPool, HandOut
<1>2. /\ pools' \in Seq(PoolRecord) /\ Len(pools') = Len(pools)
      /\ \A j \in 1..Len(pools) : pools'[j].key = pools[j].key /\ pools'[j].open = pools[j].open
      /\ \A j \in 1..Len(pools) : j # i => pools'[j] = pools[j]
    BY <1>1, GiveKept
<1>3. MapTypeOK'
    BY <1>2 DEF MapInv, MapTypeOK, PoolFound, PoolRecord
<1>4. PoolsKnown'
    BY <1>2, LenProperties, MapConstants DEF MapInv, MapTypeOK, PoolsKnown, PoolFound, NoPool
<1>5. SharedUntilClosed'
  <2> SUFFICES ASSUME NEW j \in 1..Len(pools), pools'[j].given, pools'[j].open
               PROVE  \/ table[pools[j].key] = j
                      \/ \E u \in MapUsers : j \in toClose[u]
                      \/ j \in forgotten
      BY <1>2 DEF SharedUntilClosed, PoolFound
  <2>1. CASE j = i
      BY <2>1, <1>1 DEF MapInv, PoolsKnown, PoolFound
  <2>2. CASE j # i
      BY <2>2, <1>2 DEF MapInv, SharedUntilClosed
  <2> QED
      BY <2>1, <2>2
<1>6. ClosedForGood'
    BY DEF MapInv, ClosedForGood, PoolFound
<1> QED
    BY <1>3, <1>4, <1>5, <1>6 DEF MapInv

\* A pool that was just made is nobody's but its maker's.
LEMMA PoolMadeInv ==
    ASSUME MapInv, NEW t \in MapUsers, NEW k \in Keys, PoolMade(t, k) PROVE MapInv'
<1> DEFINE new == [key |-> k, given |-> FALSE, open |-> TRUE]
<1>1. pools \in Seq(PoolRecord) /\ new \in PoolRecord /\ pools' = Append(pools, new)
    BY DEF MapInv, MapTypeOK, PoolMade, PoolRecord
<1>2. /\ pools' \in Seq(PoolRecord) /\ Len(pools') = Len(pools) + 1 /\ Len(pools) \in Nat
      /\ \A j \in 1..Len(pools) : pools'[j] = pools[j]
      /\ pools'[Len(pools) + 1] = new
    BY <1>1, AppendProperties, LenProperties
<1>3. MapTypeOK'
    BY <1>2, MapConstants DEF MapInv, MapTypeOK, PoolMade, Does, PoolRecord
<1>4. PoolsKnown'
    BY <1>2, MapConstants DEF MapInv, MapTypeOK, PoolsKnown, PoolMade, Does, NoPool
<1>5. SharedUntilClosed'
  <2> SUFFICES ASSUME NEW j \in 1..Len(pools'), pools'[j].given, pools'[j].open
               PROVE  \/ table[pools'[j].key] = j
                      \/ \E u \in MapUsers : j \in toClose[u]
                      \/ j \in forgotten
      BY DEF SharedUntilClosed, PoolMade
  <2>1. j \in 1..Len(pools)
      BY <1>2
  <2> QED
      BY <2>1, <1>2 DEF MapInv, SharedUntilClosed
<1>6. ClosedForGood'
    BY DEF MapInv, MapTypeOK, ClosedForGood, PoolMade, Does
<1> QED
    BY <1>3, <1>4, <1>5, <1>6 DEF MapInv

\* The first pool inserted under a key stays, and is the one handed out.
LEMMA InsertInv == ASSUME MapInv, NEW t \in MapUsers, Insert(t) PROVE MapInv'
<1>1. CASE mapClosed
    BY <1>1 DEF MapInv, MapTypeOK, PoolsKnown, SharedUntilClosed, ClosedForGood, Insert, Does
<1>2. CASE ~mapClosed
  <2>1. /\ pools \in Seq(PoolRecord) /\ Len(pools) \in Nat
        /\ mine[t] \in 1..Len(pools) /\ pools[mine[t]].key \in Keys
      BY PoolsTyped DEF MapInv, PoolsKnown, Insert
  <2>2. PICK i \in 1..Len(pools) :
          /\ pools' = HandOut(pools, i)
          /\ table' = [table EXCEPT ![pools[i].key] = i]
          /\ \/ i = table[pools[i].key]
             \/ table[pools[i].key] = NoPool
    <3> DEFINE there == table[pools[mine[t]].key]
    <3>1. CASE there # NoPool
      <4>1. there \in 1..Len(pools) /\ pools[there].key = pools[mine[t]].key
          BY <2>1, <3>1, MapConstants DEF MapInv, MapTypeOK, PoolsKnown, NoPool
      <4> QED
          BY <1>2, <3>1, <4>1 DEF Insert, Keep, HandOut
    <3>2. CASE there = NoPool
        BY <1>2, <2>1, <3>2 DEF Insert, Keep, HandOut
    <3> QED
        BY <3>1, <3>2
  <2>3. /\ does' = [does EXCEPT ![t] = "idle"]
        /\ UNCHANGED <<mapClosed, mine, toClose, forgotten>>
        /\ \A j \in 1..Len(pools) : pools[j].key \in Keys /\ j # NoPool
    <3>1. does' = [does EXCEPT ![t] = "idle"] /\ UNCHANGED <<mapClosed, mine, toClose, forgotten>>
        BY <1>2 DEF Insert, Does
    <3> QED
        BY <3>1, PoolsTyped
  <2>4. /\ pools' \in Seq(PoolRecord) /\ Len(pools') = Len(pools)
        /\ \A j \in 1..Len(pools) : pools'[j].key = pools[j].key /\ pools'[j].open = pools[j].open
        /\ \A j \in 1..Len(pools) : j # i => pools'[j] = pools[j]
        /\ \A j \in 1..Len(pools) : pools[j].key \in Keys
    <3>1. /\ pools \in Seq(PoolRecord) /\ i \in 1..Len(pools)
          /\ pools' = HandOut(pools, i)
        BY <2>1, <2>2
    <3>2. /\ pools' \in Seq(PoolRecord) /\ Len(pools') = Len(pools)
          /\ \A j \in 1..Len(pools) : pools'[j].key = pools[j].key /\ pools'[j].open = pools[j].open
          /\ \A j \in 1..Len(pools) : j # i => pools'[j] = pools[j]
        BY <3>1, GiveKept
    <3> QED
        BY <3>2, <2>3
  <2>5. MapTypeOK'
      BY <2>2, <2>3, <2>4, MapConstants DEF MapInv, MapTypeOK, PoolsKnown, PoolRecord
  <2>6. PoolsKnown'
    <3>1. \A k \in Keys : table'[k] # NoPool => table'[k] <= Len(pools') /\ pools'[table'[k]].key = k
      <4> SUFFICES ASSUME NEW k \in Keys, table'[k] # NoPool
                   PROVE  table'[k] <= Len(pools) /\ pools'[table'[k]].key = k
          BY <2>4
      <4>1. CASE k = pools[i].key
        <5>1. table'[k] = i
            BY <4>1, <2>2, <2>3 DEF MapInv, MapTypeOK
        <5> QED
            BY <5>1, <4>1, <2>1, <2>2, <2>4
      <4>2. CASE k # pools[i].key
        <5>1. table'[k] = table[k] /\ table[k] \in Nat
            BY <4>2, <2>2, <2>3, MapConstants DEF MapInv, MapTypeOK
        <5>2. table[k] \in 1..Len(pools) /\ pools[table[k]].key = k
            BY <5>1, <2>1 DEF MapInv, PoolsKnown, NoPool
        <5> QED
            BY <5>1, <5>2, <2>1, <2>4
      <4> QED
          BY <4>1, <4>2
    <3>2. \A u \in MapUsers :
            /\ does'[u] = "insert" => mine'[u] \in 1..Len(pools')
            /\ does'[u] # "closing" => toClose'[u] = {}
        BY <2>3, <2>4 DEF MapInv, MapTypeOK, PoolsKnown, Insert
    <3> QED
        BY <3>1, <3>2, <2>4 DEF MapInv, PoolsKnown
  <2>7. SharedUntilClosed'
    <3> SUFFICES ASSUME NEW j \in 1..Len(pools), pools'[j].given, pools'[j].open
                 PROVE  \/ table'[pools[j].key] = j
                        \/ \E u \in MapUsers : j \in toClose[u]
                        \/ j \in forgotten
        BY <2>3, <2>4 DEF SharedUntilClosed
    <3>1. CASE j = i
        BY <3>1, <2>2, <2>3 DEF MapInv, MapTypeOK
    <3>2. CASE j # i
      <4>1. table[pools[j].key] = j => table'[pools[j].key] = j
          BY <3>2, <2>2, <2>3 DEF MapInv, MapTypeOK
      <4> QED
          BY <4>1, <3>2, <2>4 DEF MapInv, SharedUntilClosed
    <3> QED
        BY <3>1, <3>2
  <2>8. ClosedForGood'
      BY <1>2, <2>3 DEF ClosedForGood
  <2> QED
      BY <2>5, <2>6, <2>7, <2>8 DEF MapInv
<1> QED
    BY <1>1, <1>2

\* From here no pool is built; the table is still to be swapped.
LEMMA MapAcloseInv == ASSUME MapInv, NEW t \in MapUsers, MapAclose(t) PROVE MapInv'
BY DEF MapInv, MapTypeOK, PoolsKnown, SharedUntilClosed, ClosedForGood, MapAclose, Does

\* Every pool of the table is in the hands of whoever swapped it.
LEMMA ClearTableInv == ASSUME MapInv, NEW t \in MapUsers, ClearTable(t) PROVE MapInv'
<1>1. /\ toClose'[t] = {table[k] : k \in Keys} \ {NoPool}
      /\ \A u \in MapUsers : u # t => toClose'[u] = toClose[u]
      /\ toClose[t] = {} /\ toClose' \in [MapUsers -> SUBSET (1..MaxPools)]
  <2> DEFINE taken == {table[k] : k \in Keys} \ {NoPool}
  <2>1. taken \in SUBSET (1..MaxPools)
      BY MapConstants DEF MapInv, MapTypeOK, NoPool
  <2>2. toClose' = [toClose EXCEPT ![t] = taken] /\ does[t] # "closing"
      BY DEF ClearTable
  <2> HIDE DEF taken
  <2>3. toClose'[t] = taken /\ \A u \in MapUsers : u # t => toClose'[u] = toClose[u]
      BY <2>2 DEF MapInv, MapTypeOK
  <2>4. toClose' \in [MapUsers -> SUBSET (1..MaxPools)]
      BY <2>1, <2>2 DEF MapInv, MapTypeOK
  <2>5. toClose[t] = {}
      BY <2>2 DEF MapInv, PoolsKnown
  <2> QED
      BY <2>3, <2>4, <2>5 DEF taken
<1>2. MapTypeOK'
    BY <1>1, MapConstants DEF MapInv, MapTypeOK, ClearTable, Does, NoPool
<1>3. PoolsKnown'
    BY <1>1 DEF MapInv, MapTypeOK, PoolsKnown, ClearTable, Does
<1>4. SharedUntilClosed'
  <2> SUFFICES ASSUME NEW j \in 1..Len(pools), pools[j].given, pools[j].open
               PROVE  (\E u \in MapUsers : j \in toClose'[u]) \/ j \in forgotten
      BY DEF SharedUntilClosed, ClearTable
  <2>1. pools[j].key \in Keys /\ j # NoPool
      BY PoolsTyped
  <2>2. CASE table[pools[j].key] = j
      BY <2>1, <2>2, <1>1
  <2>3. CASE \E u \in MapUsers : j \in toClose[u]
      BY <2>3, <1>1
  <2> QED
      BY <2>2, <2>3 DEF MapInv, SharedUntilClosed
<1>5. ClosedForGood'
    BY DEF ClosedForGood, ClearTable
<1> QED
    BY <1>2, <1>3, <1>4, <1>5 DEF MapInv

\* A closed pool is nobody's concern.
LEMMA ClosePoolInv == ASSUME MapInv, NEW t \in MapUsers, ClosePool(t) PROVE MapInv'
<1>1. PICK p \in toClose[t] :
        /\ pools' = [pools EXCEPT ![p].open = FALSE]
        /\ toClose' = [toClose EXCEPT ![t] = @ \ {p}]
    BY DEF ClosePool
<1>2. pools \in Seq(PoolRecord) /\ Len(pools) \in Nat /\ pools \in [1..Len(pools) -> PoolRecord]
    BY LenProperties DEF MapInv, MapTypeOK, PoolRecord
<1>3. /\ pools' \in Seq(PoolRecord) /\ Len(pools') = Len(pools)
      /\ \A j \in 1..Len(pools) : pools'[j].key = pools[j].key /\ pools'[j].given = pools[j].given
      /\ \A j \in 1..Len(pools) : j # p => pools'[j] = pools[j]
      /\ \A j \in 1..Len(pools) : pools'[j].open => j # p
  <2>1. CASE p \in 1..Len(pools)
    <3>1. pools[p] \in PoolRecord /\ [pools[p] EXCEPT !.open = FALSE] \in PoolRecord
        BY <1>2, <2>1 DEF PoolRecord
    <3>2. pools' = [pools EXCEPT ![p] = [pools[p] EXCEPT !.open = FALSE]]
        BY <1>1
    <3>3. pools' \in Seq(PoolRecord) /\ Len(pools') = Len(pools)
        BY <1>2, <2>1, <3>1, <3>2, ExceptSeq
    <3> QED
        BY <1>2, <2>1, <3>1, <3>2, <3>3 DEF PoolRecord
  <2>2. CASE p \notin 1..Len(pools)
    <3>1. pools' = pools
        BY <1>1, <1>2, <2>2
    <3> QED
        BY <1>2, <2>2, <3>1
  <2> QED
      BY <2>1, <2>2
<1>4. MapTypeOK'
    BY <1>1, <1>3 DEF MapInv, MapTypeOK, ClosePool, PoolRecord
<1>5. PoolsKnown'
    BY <1>1, <1>2, <1>3 DEF MapInv, MapTypeOK, PoolsKnown, ClosePool, NoPool
<1>6. SharedUntilClosed'
  <2> SUFFICES ASSUME NEW j \in 1..Len(pools), pools'[j].given, pools'[j].open
               PROVE  \/ table[pools[j].key] = j
                      \/ \E u \in MapUsers : j \in toClose'[u]
                      \/ j \in forgotten
      BY <1>3 DEF SharedUntilClosed, ClosePool
  <2>1. j # p /\ pools[j].given /\ pools[j].open
      BY <1>3
  <2>2. \A u \in MapUsers : j \in toClose[u] => j \in toClose'[u]
      BY <1>1, <2>1 DEF MapInv, MapTypeOK
  <2> QED
      BY <2>1, <2>2 DEF MapInv, SharedUntilClosed
<1>7. ClosedForGood'
    BY DEF MapInv, ClosedForGood, ClosePool
<1> QED
    BY <1>4, <1>5, <1>6, <1>7 DEF MapInv

\* What a cancelled clear() leaves open is forgotten, and known to be.
LEMMA ClearEndsInv == ASSUME MapInv, NEW t \in MapUsers, ClearEnds(t) PROVE MapInv'
<1>1. /\ \A u \in MapUsers : u # t => toClose'[u] = toClose[u]
      /\ forgotten' = forgotten \cup toClose[t]
    BY DEF MapInv, MapTypeOK, ClearEnds
<1>2. MapTypeOK' /\ PoolsKnown'
    BY DEF MapInv, MapTypeOK, PoolsKnown, ClearEnds, Does
<1>3. SharedUntilClosed'
    BY <1>1 DEF MapInv, SharedUntilClosed, ClearEnds
<1>4. ClosedForGood'
    BY DEF MapInv, MapTypeOK, ClosedForGood, ClearEnds, Does
<1> QED
    BY <1>2, <1>3, <1>4 DEF MapInv

\* The inductive invariant of the map pool.
LEMMA MapInvariant == MapSpec => []MapInv
<1>1. MapInit => MapInv
    BY MapInitInv
<1>2. MapInv /\ [MapNext]_mapVars => MapInv'
  <2> SUFFICES ASSUME MapInv, [MapNext]_mapVars PROVE MapInv'
      OBVIOUS
  <2>1. CASE MapNext
      BY <2>1, PoolFoundInv, PoolMadeInv, InsertInv, MapAcloseInv, ClearTableInv, ClosePoolInv,
         ClearEndsInv DEF MapNext
  <2>2. CASE UNCHANGED mapVars
      BY <2>2 DEF mapVars, MapInv, MapTypeOK, PoolsKnown, SharedUntilClosed, ClosedForGood
  <2> QED
      BY <2>1, <2>2
<1> QED
    BY <1>1, <1>2, PTL DEF MapSpec

\* MapSafe: for any number of destinations, callers and pools, a pool that was handed out
\* is the one its destination's callers get until it is taken out to be closed (Insert and
\* ClearTable under the lock), and a closed map stays empty.
THEOREM MapIsSafe == MapSpec => []MapSafe
BY MapInvariant, PTL DEF MapInv, MapSafe

=============================================================================
