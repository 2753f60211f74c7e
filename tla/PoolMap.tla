------------------------------- MODULE PoolMap -------------------------------
(***************************************************************************)
(* httpunk.util.Map (httpunk/util/pool.py): the table that routes a         *)
(* destination to its pool. The factory runs outside the lock, so callers   *)
(* race to insert; clear() and aclose() take the whole table in one step    *)
(* and close its pools one after the other.                                 *)
(*                                                                         *)
(* An action is one critical section of _lock or one await. The pools are   *)
(* external: what they hold is in Singleton and ConnCache. retain(), which  *)
(* only forwards to a copy of the table, is left out.                       *)
(***************************************************************************)
EXTENDS Naturals, Sequences

CONSTANTS
    Keys,           \* the destinations
    MapUsers,       \* the tasks that use the map
    MaxPools        \* bound: how many pools the factory makes

ASSUME MapConstants == MaxPools \in Nat

NoPool == 0

VARIABLES
    table,      \* _pools: [Keys -> its pool, or NoPool]
    mapClosed,  \* _closed
    pools,      \* the pools made: their key, whether a caller got it, whether it is open
    does,       \* [MapUsers -> where the task is]
    mine,       \* [MapUsers -> the pool its factory made]
    toClose,    \* [MapUsers -> the pools it took out and has still to close]
    forgotten   \* history: the pools a cancelled clear() or aclose() left open

mapVars == <<table, mapClosed, pools, does, mine, toClose, forgotten>>

MapTypeOK ==
    /\ table \in [Keys -> 0..MaxPools] /\ mapClosed \in BOOLEAN
    /\ pools \in Seq([key : Keys, given : BOOLEAN, open : BOOLEAN])
    /\ does \in [MapUsers -> {"idle", "insert", "clear", "closing"}]
    /\ mine \in [MapUsers -> 0..MaxPools]
    /\ toClose \in [MapUsers -> SUBSET (1..MaxPools)] /\ forgotten \subseteq 1..MaxPools

MapInit ==
    /\ table = [k \in Keys |-> NoPool] /\ mapClosed = FALSE /\ pools = <<>>
    /\ does = [t \in MapUsers |-> "idle"] /\ mine = [t \in MapUsers |-> NoPool]
    /\ toClose = [t \in MapUsers |-> {}] /\ forgotten = {}

Does(t, what) == does' = [does EXCEPT ![t] = what]

-----------------------------------------------------------------------------

\* pool_for finds the pool in the table.
PoolFound(t, k) ==
    /\ does[t] = "idle" /\ table[k] # NoPool
    /\ pools' = [pools EXCEPT ![table[k]].given = TRUE]
    /\ UNCHANGED <<table, mapClosed, does, mine, toClose, forgotten>>

\* It does not, and the map is open: the factory makes one, outside the lock.
PoolMade(t, k) ==
    /\ does[t] = "idle" /\ table[k] = NoPool /\ ~mapClosed
    /\ Len(pools) < MaxPools
    /\ pools' = Append(pools, [key |-> k, given |-> FALSE, open |-> TRUE])
    /\ mine' = [mine EXCEPT ![t] = Len(pools')]
    /\ Does(t, "insert")
    /\ UNCHANGED <<table, mapClosed, toClose, forgotten>>

\* Under the lock again: a map closed meanwhile takes none, and raises; otherwise the
\* first one inserted is kept.
Keep(kept) ==
    /\ table' = [table EXCEPT ![pools[kept].key] = kept]
    /\ pools' = [pools EXCEPT ![kept].given = TRUE]

InsertLastMutant(t) ==
    /\ does[t] = "insert"
    /\ IF mapClosed THEN UNCHANGED <<table, pools>> ELSE Keep(mine[t])
    /\ Does(t, "idle")
    /\ UNCHANGED <<mapClosed, mine, toClose, forgotten>>
InsertMutant(t) ==
    /\ does[t] = "insert"
    /\ LET there == table[pools[mine[t]].key]
       IN  Keep(IF there # NoPool THEN there ELSE mine[t])
    /\ Does(t, "idle")
    /\ UNCHANGED <<mapClosed, mine, toClose, forgotten>>
Insert(t) ==
    /\ does[t] = "insert"
    /\ IF mapClosed
       THEN UNCHANGED <<table, pools>>
       ELSE LET there == table[pools[mine[t]].key]
            IN  Keep(IF there # NoPool THEN there ELSE mine[t])
    /\ Does(t, "idle")
    /\ UNCHANGED <<mapClosed, mine, toClose, forgotten>>

\* aclose: no pool is built from here on; clear() follows.
MapAclose(t) ==
    /\ does[t] = "idle"
    /\ mapClosed' = TRUE
    /\ Does(t, "clear")
    /\ UNCHANGED <<table, pools, mine, toClose, forgotten>>

\* clear: the table is swapped for an empty one.
ClearTable(t) ==
    /\ does[t] \in {"idle", "clear"}
    /\ toClose' = [toClose EXCEPT ![t] = {table[k] : k \in Keys} \ {NoPool}]
    /\ table' = [k \in Keys |-> NoPool]
    /\ Does(t, "closing")
    /\ UNCHANGED <<mapClosed, pools, mine, forgotten>>

\* The pools it took are closed, one after the other.
ClosePool(t) ==
    /\ does[t] = "closing"
    /\ \E p \in toClose[t] :
         /\ pools' = [pools EXCEPT ![p].open = FALSE]
         /\ toClose' = [toClose EXCEPT ![t] = @ \ {p}]
    /\ UNCHANGED <<table, mapClosed, does, mine, forgotten>>

\* clear() returns, or is cancelled in one of its awaits.
ClearEnds(t) ==
    /\ does[t] = "closing"
    /\ forgotten' = forgotten \cup toClose[t]
    /\ toClose' = [toClose EXCEPT ![t] = {}]
    /\ Does(t, "idle")
    /\ UNCHANGED <<table, mapClosed, pools, mine>>

MapNext ==
    \E t \in MapUsers :
        \/ \E k \in Keys : PoolFound(t, k) \/ PoolMade(t, k)
        \/ Insert(t) \/ MapAclose(t) \/ ClearTable(t) \/ ClosePool(t) \/ ClearEnds(t)

MapSpec == MapInit /\ [][MapNext]_mapVars

-----------------------------------------------------------------------------
(* Properties.                                                               *)

\* A pool some caller has is reachable until it is closed: it is its key's pool in the
\* table, so that all callers share it, or about to be closed; only a cancelled clear()
\* loses one.
SharedUntilClosed ==
    \A i \in 1..Len(pools) :
        pools[i].given /\ pools[i].open =>
            \/ table[pools[i].key] = i
            \/ \E t \in MapUsers : i \in toClose[t]
            \/ i \in forgotten

\* "no pool is built afterwards" (aclose): once the aclose()s have swapped the table it
\* stays empty, even of a pool whose factory ran while the map was being closed.
ClosedForGood ==
    mapClosed /\ (\A t \in MapUsers : does[t] # "clear") => \A k \in Keys : table[k] = NoPool

\* The safety of the map: pools are shared while open, and closing it is final.
MapSafe == MapTypeOK /\ SharedUntilClosed /\ ClosedForGood

=============================================================================
