------------------------------- MODULE MCPools -------------------------------
(***************************************************************************)
(* The two pools and the map share no state (a map's pools are made, used   *)
(* and closed through their own operations): a behaviour of this model is   *)
(* one of one of them, with the others left empty.  No action of the        *)
(* singleton with a fairness condition is enabled before a task calls it.   *)
(***************************************************************************)
EXTENDS Singleton, ConnCache, PoolMap

VARIABLE part       \* the pool that is used

Init ==
    /\ part \in {"singleton", "cache", "map"}
    /\ SingletonInit /\ CacheInit /\ MapInit

Next ==
    \/ part = "singleton" /\ SingletonNext /\ UNCHANGED <<part, leaseVars, mapVars>>
    \/ part = "cache" /\ CacheNext /\ UNCHANGED <<part, singletonVars, mapVars>>
    \/ part = "map" /\ MapNext /\ UNCHANGED <<part, singletonVars, leaseVars>>

LiveSpec == Init /\ [][Next]_<<part, singletonVars, leaseVars, mapVars>> /\ SingletonFair
=============================================================================
