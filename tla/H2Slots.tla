------------------------------- MODULE H2Slots -------------------------------
(***************************************************************************)
(* Opening requests on an HTTP/2 client connection: the                     *)
(* MAX_CONCURRENT_STREAMS slots of H2Streams (src/h2/conn.rs), the waiters  *)
(* of httpunk/h2/client.py that share one event (_slot_evt), and what ends  *)
(* the wait: a stream that closes, a new limit, the peer's GOAWAY, the      *)
(* connection's failure.                                                    *)
(*                                                                         *)
(* A task sends one request (_open_stream) or waits for readiness           *)
(* (_wait_until_ready); a stream has the name of the task that opened it.   *)
(* One action is one critical section of the mutex or one act on the event. *)
(* preemptive is the schedule: tonio's threads or asyncio's loop.           *)
(***************************************************************************)
EXTENDS Integers, FiniteSets

CONSTANTS
    Tasks,          \* the application's tasks
    Schedules,      \* a set of BOOLEAN: tasks may run in parallel (tonio), or not (asyncio)
    Limits,         \* SETTINGS_MAX_CONCURRENT_STREAMS the peer may announce
    MaxId,          \* the last usable stream id, counted 1, 2, ... (2^31-1 in the protocol)
    Environment     \* which endings happen

EnvironmentKinds == {"goaway", "eof", "writeError", "cancel", "badHead"}

\* stream_limit is None, goaway is None.
NoLimit == -1
NoGoAway == -1

ASSUME SlotConstants ==
    /\ IsFiniteSet(Tasks) /\ {"rd", "wp"} \cap Tasks = {}
    /\ Schedules \subseteq BOOLEAN /\ Schedules # {}
    /\ Limits \subseteq Nat \cup {NoLimit} /\ Limits # {}
    /\ MaxId \in Nat
    /\ Environment \subseteq EnvironmentKinds

VARIABLES
    preemptive, \* the backend: tasks run in parallel, or until they await
    limit,      \* stream_limit
    open,       \* num_open_streams: claimed slots and the streams that hold one
    nextId,     \* next_id
    id,         \* [Tasks -> the id of the stream the task opened, 0 before]
    st,         \* [Tasks -> "none", "live", "gone"]: the task's stream
    goaway,     \* the last-stream-id of the peer's GOAWAY
    replied,    \* goaway_replied
    failed,     \* the error slot is set
    slotEvt,    \* _slot_evt
    pc,         \* [Tasks -> where the task is]
    probe,      \* [Tasks -> BOOLEAN]: it only waits for readiness
    rpc,        \* where the read pump is
    wpc,        \* where the write pump is
    owes        \* [Actors -> a set of _slot_evt is due]

connVars == <<limit, open, nextId, id, st, goaway, replied, failed>>
vars == <<preemptive, limit, open, nextId, id, st, goaway, replied, failed,
          slotEvt, pc, probe, rpc, wpc, owes>>

Actors == Tasks \cup {"rd", "wp"}

Live == {t \in Tasks : st[t] = "live"}
Dead == failed \/ goaway # NoGoAway

\* can_open, and the guard of try_claim_slot.
HasSlotMutant == limit = NoLimit \/ open <= limit
HasSlot == limit = NoLimit \/ open < limit

TypeOK ==
    /\ preemptive \in Schedules
    /\ limit \in Limits /\ open \in Nat /\ nextId \in 1..(MaxId + 1)
    /\ id \in [Tasks -> 0..MaxId]
    /\ st \in [Tasks -> {"none", "live", "gone"}]
    /\ goaway \in Nat \cup {NoGoAway} /\ replied \in BOOLEAN /\ failed \in BOOLEAN
    /\ slotEvt \in BOOLEAN
    /\ pc \in [Tasks -> {"new", "check", "try1", "dead1", "clear", "dead2", "try2", "wait",
                         "parked", "woken", "open", "undo", "ready", "running", "raised"}]
    /\ probe \in [Tasks -> BOOLEAN]
    /\ rpc \in {"read", "batch", "dying", "done"} /\ wpc \in {"run", "done"}
    /\ owes \in [Actors -> BOOLEAN]

\* connect() has returned: the peer's first SETTINGS are applied.
Init ==
    /\ preemptive \in Schedules
    /\ limit \in Limits /\ open = 0 /\ nextId = 1
    /\ id = [t \in Tasks |-> 0] /\ st = [t \in Tasks |-> "none"]
    /\ goaway = NoGoAway /\ replied = FALSE /\ failed = FALSE
    /\ slotEvt = FALSE
    /\ pc = [t \in Tasks |-> "new"] /\ probe = [t \in Tasks |-> FALSE]
    /\ rpc = "read" /\ wpc = "run"
    /\ owes = [a \in Actors |-> FALSE]

-----------------------------------------------------------------------------
(* The event.                                                                *)

Goto(t, place) == pc' = [pc EXCEPT ![t] = place]

\* Where a task is once its wait returns: the head of its loop.
Resumed(t) == IF probe[t] THEN "check" ELSE "try1"

\* _slot_evt.set(), as _on_slot_freed, _on_conn_done and _open_stream do after the
\* mutex is released: every parked task becomes runnable, whoever clears the event
\* afterwards.
SetSlotEvt(a) ==
    /\ owes[a]
    /\ slotEvt' = TRUE
    /\ pc' = [t \in Tasks |-> IF pc[t] = "parked" THEN "woken"
                              ELSE IF t = a /\ pc[t] = "undo" THEN "raised"
                              ELSE pc[t]]
    /\ owes' = [owes EXCEPT ![a] = FALSE]
    /\ UNCHANGED <<connVars, probe, rpc, wpc>>

-----------------------------------------------------------------------------
(* A task: _open_stream with _acquire_slot, or _wait_until_ready.            *)

Start(t) ==
    /\ pc[t] = "new"
    /\ \E p \in BOOLEAN : probe' = [probe EXCEPT ![t] = p]
    /\ Goto(t, "check")
    /\ UNCHANGED <<connVars, slotEvt, rpc, wpc, owes>>

\* _raise_if_dead: the peer's GOAWAY, then the connection's error.
RaiseIfDead(t) ==
    /\ pc[t] \in {"check", "dead1", "dead2"}
    /\ Goto(t, CASE Dead -> "raised"
                 [] ~Dead /\ pc[t] = "check" -> "try1"
                 [] ~Dead /\ pc[t] = "dead1" -> "clear"
                 [] ~Dead /\ pc[t] = "dead2" -> "try2")
    /\ UNCHANGED <<connVars, slotEvt, probe, rpc, wpc, owes>>

\* try_claim_slot takes a free slot; a probe's can_open only looks.
TryClaimSlot(t) ==
    /\ pc[t] \in {"try1", "try2"} /\ HasSlot
    /\ open' = IF probe[t] THEN open ELSE open + 1
    /\ Goto(t, IF probe[t] THEN "ready" ELSE "open")
    /\ UNCHANGED <<limit, nextId, id, st, goaway, replied, failed, slotEvt, probe, rpc, wpc, owes>>

NoSlot(t) ==
    /\ pc[t] \in {"try1", "try2"} /\ ~HasSlot
    /\ Goto(t, IF pc[t] = "try2" THEN "wait" ELSE IF probe[t] THEN "clear" ELSE "dead1")
    /\ UNCHANGED <<connVars, slotEvt, probe, rpc, wpc, owes>>

ClearSlotEvt(t) ==
    /\ pc[t] = "clear"
    /\ slotEvt' = FALSE
    /\ Goto(t, "dead2")
    /\ UNCHANGED <<connVars, probe, rpc, wpc, owes>>

\* _slot_evt.wait(): returns at once when the event is set.
WaitSlotEvt(t) ==
    /\ pc[t] = "wait"
    /\ Goto(t, IF slotEvt THEN Resumed(t) ELSE "parked")
    /\ UNCHANGED <<connVars, slotEvt, probe, rpc, wpc, owes>>

Wakes(t) ==
    /\ pc[t] = "woken"
    /\ Goto(t, Resumed(t))
    /\ UNCHANGED <<connVars, slotEvt, probe, rpc, wpc, owes>>

\* The caller gives up while parked.
Cancelled(t) ==
    /\ "cancel" \in Environment /\ pc[t] = "parked"
    /\ Goto(t, "raised")
    /\ UNCHANGED <<connVars, slotEvt, probe, rpc, wpc, owes>>

\* open_stream: the stream takes over the claimed slot.
OpenStream(t) ==
    /\ pc[t] = "open" /\ ~Dead /\ nextId <= MaxId
    /\ id' = [id EXCEPT ![t] = nextId]
    /\ nextId' = nextId + 1
    /\ st' = [st EXCEPT ![t] = "live"]
    /\ Goto(t, "running")
    /\ UNCHANGED <<limit, open, goaway, replied, failed, slotEvt, probe, rpc, wpc, owes>>

\* It refuses: the connection is dead, the ids are used up, or the head is invalid.
\* The slot is released in the same step and the event is set before raising.
OpenRefusedMutant(t) ==
    /\ pc[t] = "open"
    /\ Dead \/ nextId > MaxId \/ "badHead" \in Environment
    /\ Goto(t, "undo")
    /\ owes' = [owes EXCEPT ![t] = TRUE]
    /\ UNCHANGED <<connVars, slotEvt, probe, rpc, wpc>>

OpenRefused(t) ==
    /\ pc[t] = "open"
    /\ Dead \/ nextId > MaxId \/ "badHead" \in Environment
    /\ open' = open - 1
    /\ Goto(t, "undo")
    /\ owes' = [owes EXCEPT ![t] = TRUE]
    /\ UNCHANGED <<limit, nextId, id, st, goaway, replied, failed, slotEvt, probe, rpc, wpc>>

TaskStep(t) ==
    \/ RaiseIfDead(t) \/ TryClaimSlot(t) \/ NoSlot(t) \/ ClearSlotEvt(t) \/ WaitSlotEvt(t)
    \/ Wakes(t) \/ OpenStream(t) \/ OpenRefused(t)

-----------------------------------------------------------------------------
(* What closes streams.                                                      *)

\* maybe_goaway_reply: after the peer's GOAWAY, once the store of streams holds none
\* that is active, GOAWAY is answered and the connection is done.
RepliesMutant(live) == goaway' # NoGoAway /\ ~replied /\ ~failed
Replies(live) == goaway' # NoGoAway /\ ~replied /\ ~failed /\ live = {}

\* close_stream for a set of streams, and the reply it may bring.
CloseStreamsMutant(S) ==
    /\ st' = st
    /\ open' = open - Cardinality(S)
    /\ replied' = (replied \/ (S # {} /\ Replies(Live \ S)))

CloseStreams(S) ==
    /\ st' = [t \in Tasks |-> IF t \in S THEN "gone" ELSE st[t]]
    /\ open' = open - Cardinality(S)
    /\ replied' = (replied \/ (S # {} /\ Replies(Live \ S)))

\* A stream ends: the peer's frame, or the task's own END_STREAM or reset.
CloseStream(a, t) ==
    /\ ~owes[a] /\ (IF a = "rd" THEN rpc = "batch" ELSE a = t)
    /\ t \in Live
    /\ goaway' = goaway
    /\ CloseStreams({t})
    /\ failed' = (failed \/ (replied' /\ ~replied))
    /\ owes' = [owes EXCEPT ![a] = TRUE]
    /\ UNCHANGED <<limit, nextId, id, slotEvt, pc, probe, rpc, wpc>>

ReadBatch ==
    /\ rpc = "read"
    /\ rpc' = "batch"
    /\ UNCHANGED <<connVars, slotEvt, pc, probe, wpc, owes>>

\* SETTINGS: a new limit wakes the waiters.
RecvSettingsMutant(l) ==
    /\ rpc = "batch" /\ ~owes["rd"]
    /\ limit' = l
    /\ UNCHANGED <<open, nextId, id, st, goaway, replied, failed, slotEvt, pc, probe, rpc, wpc, owes>>

RecvSettings(l) ==
    /\ rpc = "batch" /\ ~owes["rd"]
    /\ limit' = l
    /\ owes' = [owes EXCEPT !["rd"] = TRUE]
    /\ UNCHANGED <<open, nextId, id, st, goaway, replied, failed, slotEvt, pc, probe, rpc, wpc>>

\* GOAWAY: the streams above last are aborted; the id may not grow again.
RecvGoAwayMutant(last) ==
    /\ "goaway" \in Environment /\ rpc = "batch" /\ ~owes["rd"]
    /\ goaway' = last
    /\ CloseStreams({t \in Live : id[t] > last + 1})
    /\ failed' = (failed \/ (replied' /\ ~replied))
    /\ owes' = [owes EXCEPT !["rd"] = TRUE]
    /\ UNCHANGED <<limit, nextId, id, slotEvt, pc, probe, rpc, wpc>>

RecvGoAway(last) ==
    /\ "goaway" \in Environment /\ rpc = "batch" /\ ~owes["rd"]
    /\ goaway # NoGoAway => last <= goaway
    /\ goaway' = last
    /\ CloseStreams({t \in Live : id[t] > last})
    /\ failed' = (failed \/ (replied' /\ ~replied))
    /\ owes' = [owes EXCEPT !["rd"] = TRUE]
    /\ UNCHANGED <<limit, nextId, id, slotEvt, pc, probe, rpc, wpc>>

RecvGoAwayRaised(last) ==
    /\ "goaway" \in Environment /\ rpc = "batch" /\ ~owes["rd"]
    /\ goaway # NoGoAway /\ last > goaway
    /\ rpc' = "dying"
    /\ UNCHANGED <<connVars, slotEvt, pc, probe, wpc, owes>>

\* The read pump's own check after a batch; having replied it stops.
BatchEndMutant ==
    /\ rpc = "batch" /\ ~owes["rd"]
    /\ rpc' = "read"
    /\ UNCHANGED <<connVars, slotEvt, pc, probe, wpc, owes>>

BatchEnd ==
    /\ rpc = "batch" /\ ~owes["rd"]
    /\ goaway' = goaway
    /\ replied' = (replied \/ Replies(Live))
    /\ failed' = (failed \/ (replied' /\ ~replied))
    /\ owes' = [owes EXCEPT !["rd"] = replied' /\ ~replied]
    /\ rpc' = IF replied' /\ ~replied THEN "done" ELSE "read"
    /\ UNCHANGED <<limit, open, nextId, id, st, slotEvt, pc, probe, wpc>>

\* _fail: the error is recorded, every stream aborted, every waiter woken.
FailAll(a) ==
    /\ failed' = TRUE
    /\ st' = [t \in Tasks |-> IF t \in Live THEN "gone" ELSE st[t]]
    /\ open' = open - Cardinality(Live)
    /\ owes' = [owes EXCEPT ![a] = TRUE]
    /\ UNCHANGED <<limit, nextId, id, goaway, replied, slotEvt, pc, probe>>

ReadFails ==
    /\ rpc = "dying" \/ (rpc = "read" /\ "eof" \in Environment)
    /\ ~owes["rd"]
    /\ FailAll("rd")
    /\ rpc' = "done" /\ wpc' = wpc

WriteFails ==
    /\ wpc = "run" /\ "writeError" \in Environment
    /\ FailAll("wp")
    /\ wpc' = "done" /\ rpc' = rpc

ReadStep ==
    \/ ReadBatch \/ BatchEnd \/ ReadFails
    \/ \E t \in Tasks : CloseStream("rd", t)
    \/ \E l \in Limits : RecvSettings(l)
    \/ \E last \in 0..MaxId : RecvGoAway(last) \/ RecvGoAwayRaised(last)

-----------------------------------------------------------------------------
\* Between two awaits of the actor.
Busy(a) ==
    \/ owes[a]
    \/ a = "rd" /\ rpc = "batch"
    \/ a \in Tasks /\ pc[a] \notin {"new", "parked", "woken", "ready", "running", "raised"}

\* The actor's turn: any time on threads; on asyncio, once the others await. The
\* backend never changes.
Scheduled(a) ==
    /\ preemptive \/ \A b \in Actors \ {a} : ~Busy(b)
    /\ UNCHANGED preemptive

Next ==
    \/ \E t \in Tasks : Scheduled(t) /\ (Start(t) \/ TaskStep(t) \/ Cancelled(t) \/ CloseStream(t, t))
    \/ Scheduled("rd") /\ ReadStep
    \/ Scheduled("wp") /\ WriteFails
    \/ \E a \in Actors : Scheduled(a) /\ SetSlotEvt(a)

Spec == Init /\ [][Next]_vars

-----------------------------------------------------------------------------
(* Properties.                                                               *)

\* The tasks between try_claim_slot and open_stream.
Claimed == {t \in Tasks : pc[t] = "open"}

\* num_open_streams is exactly the claimed slots and the streams that hold one,
\* whatever refuses, aborts or closes them: no slot leaks, none is freed twice.
SlotLedger == TypeOK /\ open = Cardinality(Claimed) + Cardinality(Live)

\* After a GOAWAY no stream above its last id is left, and none is opened.
GoAwayRespected == goaway # NoGoAway => \A t \in Live : id[t] <= goaway

\* GOAWAY is answered only when no stream is active, and never reopened.
RepliedWhenIdle == replied => Live = {} /\ Dead

\* Everyone waits for the peer or the application.
Quiet ==
    /\ rpc # "dying" /\ \A a \in Actors : ~Busy(a)
    /\ \A t \in Tasks : pc[t] # "woken"

\* No lost wakeup on asyncio: nobody is parked while there is a slot, or on a dead
\* connection.
NoStrandedWaiter ==
    ~preemptive /\ Quiet => \A t \in Tasks : pc[t] = "parked" => ~HasSlot /\ ~Dead

\* "A GOAWAY / failure that arrives while parked fails this request PROMPTLY"
\* (_acquire_slot): on a dead connection no waiter is left parked.
DeadFailsWaiters == Quiet /\ Dead => \A t \in Tasks : pc[t] # "parked"

\* A connection the peer said goodbye to ends once its streams have.
IdleGoAwayEnds == Quiet /\ goaway # NoGoAway /\ Live = {} => failed

\* A GOAWAY is answered exactly once the last stream has ended: not before, and not never.
GoAwayAnswered == RepliedWhenIdle /\ IdleGoAwayEnds

\* What a GOAWAY asks for is done: the streams it disowns end, the others are waited for,
\* and then it is answered.
GoAwayHeeded == GoAwayRespected /\ GoAwayAnswered

\* On asyncio no stream starts above the limit in force when its HEADERS are queued.
OpensWithinLimit ==
    [][\A t \in Tasks : ~preemptive /\ t \notin Live /\ t \in Live' =>
           limit = NoLimit \/ open <= limit]_vars
=============================================================================
