---------------------------- MODULE H2SlotsProofs ----------------------------
(***************************************************************************)
(* Proofs about the stream slots of an HTTP/2 client connection, for any    *)
(* finite set of tasks, any limits the peer may announce, and both          *)
(* schedules.                                                               *)
(***************************************************************************)
EXTENDS H2Slots, FiniteSetTheorems, TLAPS

\* num_open_streams counts the claimed slots and the streams.
Ledger == open = Cardinality(Claimed) + Cardinality(Live)

\* Only a task past open_stream has a stream, and only a task that released a slot or
\* ended its stream owes the event a set.
PlacesOK ==
    \A t \in Tasks :
        /\ st[t] # "none" => pc[t] = "running"
        /\ owes[t] => pc[t] \in {"undo", "running"}

\* How far a connection is after the peer's GOAWAY: what the reply, the error slot and
\* the read pump say of the streams.
Farewell ==
    /\ GoAwayRespected
    /\ replied => goaway # NoGoAway /\ failed
    /\ failed => Live = {}
    /\ rpc = "done" => failed
    /\ goaway # NoGoAway /\ Live = {} => failed \/ rpc \in {"batch", "dying"}

\* On asyncio what a task found after it cleared the event still holds when it awaits;
\* from then on, whoever makes it false owes the event a set.
AwaitsOK ==
    ~preemptive =>
        \A t \in Tasks :
            /\ pc[t] \in {"dead2", "try2", "wait"} => ~slotEvt
            /\ pc[t] \in {"try2", "wait"} => ~Dead
            /\ pc[t] = "wait" => ~HasSlot
            /\ pc[t] = "open" => limit = NoLimit \/ open <= limit
            /\ pc[t] = "parked" => (~HasSlot /\ ~Dead) \/ \E a \in Actors : owes[a]

SlotsInv == TypeOK /\ Ledger /\ PlacesOK /\ Farewell /\ AwaitsOK

-----------------------------------------------------------------------------
(* Lemmas.                                                                   *)

\* There are finitely many tasks.
LEMMA TasksFinite ==
    ASSUME NEW S \in SUBSET Tasks PROVE IsFiniteSet(S) /\ Cardinality(S) \in Nat
BY SlotConstants, FS_Subset, FS_CardinalityType

\* The pumps are no tasks.
LEMMA PumpsApart ==
    /\ "rd" \in Actors /\ "wp" \in Actors /\ Tasks \subseteq Actors
    /\ "rd" \notin Tasks /\ "wp" \notin Tasks
BY SlotConstants DEF Actors

\* A set of streams that ends leaves the rest (close_stream, once for each).
LEMMA LiveWithout ==
    ASSUME NEW S \in SUBSET Live
    PROVE  /\ Cardinality(S) \in Nat /\ Cardinality(Live) \in Nat
           /\ Cardinality(Live \ S) = Cardinality(Live) - Cardinality(S)
<1>1. IsFiniteSet(Live) /\ Cardinality(Live) \in Nat /\ Cardinality(S) \in Nat
    BY TasksFinite DEF Live
<1>2. Live \cap S = S
    OBVIOUS
<1> QED
    BY <1>1, <1>2, FS_Difference

\* asyncio: who has the turn is alone between two awaits.
LEMMA Alone ==
    ASSUME NEW a \in Actors, Scheduled(a), ~preemptive
    PROVE  /\ \A b \in Actors : b # a => ~owes[b]
           /\ \A t \in Tasks : t # a =>
                pc[t] \in {"new", "parked", "woken", "ready", "running", "raised"}
BY PumpsApart DEF Scheduled, Busy

\* Nothing is open yet.
LEMMA SlotsInitInv == ASSUME Init PROVE SlotsInv
<1>1. Claimed = {} /\ Live = {}
    BY DEF Init, Claimed, Live
<1>2. Ledger
    BY <1>1, FS_EmptySet DEF Init, Ledger
<1>3. replied \in BOOLEAN /\ failed \in BOOLEAN /\ slotEvt \in BOOLEAN
    BY Zenon DEF Init
<1>4. /\ owes \in [Actors -> BOOLEAN] /\ probe \in [Tasks -> BOOLEAN]
      /\ \A t \in Tasks : ~owes[t]
    BY Zenon, PumpsApart DEF Init
<1>5. TypeOK
    BY <1>3, <1>4, SlotConstants DEF Init, TypeOK, NoGoAway
<1>6. PlacesOK /\ AwaitsOK
    BY <1>4 DEF Init, PlacesOK, AwaitsOK
<1>7. Farewell
    BY <1>1, <1>3 DEF Init, Farewell, GoAwayRespected
<1> QED
    BY <1>2, <1>5, <1>6, <1>7 DEF SlotsInv

-----------------------------------------------------------------------------
(* One lemma per operation.                                                  *)

\* The steps of a task that touch no slot: what it reads is what it will rely on.
LEMMA WaiterInv ==
    ASSUME SlotsInv, NEW t \in Tasks, Scheduled(t),
           \/ Start(t) \/ RaiseIfDead(t) \/ NoSlot(t) \/ ClearSlotEvt(t) \/ WaitSlotEvt(t)
           \/ Wakes(t) \/ Cancelled(t)
    PROVE  SlotsInv'
<1> USE DEF SlotsInv, connVars
<1>1. /\ UNCHANGED <<connVars, rpc, wpc, owes, preemptive>>
      /\ probe' \in [Tasks -> BOOLEAN] /\ slotEvt' \in BOOLEAN
      /\ \E place \in {"check", "dead1", "clear", "dead2", "try1", "try2", "wait", "parked", "raised"} :
             pc' = [pc EXCEPT ![t] = place]
      /\ pc[t] \notin {"open", "running", "undo"}
    BY DEF Scheduled, Start, RaiseIfDead, NoSlot, ClearSlotEvt, WaitSlotEvt, Wakes, Cancelled, Goto,
       Resumed, TypeOK
<1>2. TypeOK'
    BY <1>1 DEF TypeOK
<1>3. Claimed' = Claimed
    BY <1>1 DEF TypeOK, Claimed
<1>4. Ledger' /\ PlacesOK' /\ Farewell'
    BY <1>1, <1>3 DEF TypeOK, Ledger, PlacesOK, Farewell, GoAwayRespected, Live
<1>5. AwaitsOK'
    BY <1>1, Alone, PumpsApart
       DEF AwaitsOK, TypeOK, Dead, HasSlot, Start, RaiseIfDead, NoSlot, ClearSlotEvt, WaitSlotEvt, Wakes,
           Cancelled, Goto, Resumed
<1> QED
    BY <1>2, <1>4, <1>5

\* A claimed slot is within the limit, and counted.
LEMMA TryClaimSlotInv ==
    ASSUME SlotsInv, NEW t \in Tasks, Scheduled(t), TryClaimSlot(t) PROVE SlotsInv'
<1> USE DEF SlotsInv
<1>1. /\ UNCHANGED <<preemptive, limit, nextId, id, st, goaway, replied, failed, slotEvt, probe, rpc, wpc, owes>>
      /\ open' = IF probe[t] THEN open ELSE open + 1
      /\ pc' = [pc EXCEPT ![t] = IF probe[t] THEN "ready" ELSE "open"]
      /\ pc[t] \in {"try1", "try2"} /\ HasSlot
    BY DEF Scheduled, TryClaimSlot, Goto
<1>2. TypeOK'
    BY <1>1 DEF TypeOK
<1>3. Ledger'
  <2>1. Live' = Live /\ t \notin Claimed /\ IsFiniteSet(Claimed)
        /\ Cardinality(Live) \in Nat /\ Cardinality(Claimed) \in Nat
      BY <1>1, TasksFinite DEF Live, Claimed
  <2>2. CASE probe[t]
    <3>1. Claimed' = Claimed
        BY <1>1, <2>2 DEF TypeOK, Claimed
    <3> QED
        BY <1>1, <2>1, <2>2, <3>1 DEF Ledger
  <2>3. CASE ~probe[t]
    <3>1. pc' = [pc EXCEPT ![t] = "open"]
        BY <1>1, <2>3
    <3>2. \A u \in Tasks : pc'[u] = "open" <=> (u = t \/ pc[u] = "open")
        BY <3>1 DEF TypeOK
    <3>3. Claimed' = Claimed \cup {t}
        BY <3>2, Zenon DEF Claimed
    <3>4. Cardinality(Claimed') = Cardinality(Claimed) + 1
        BY <2>1, <3>3, FS_AddElement
    <3> QED
        BY <1>1, <2>1, <2>3, <3>4 DEF Ledger
  <2> QED
      BY <2>2, <2>3
<1>4. PlacesOK' /\ Farewell'
    BY <1>1 DEF TypeOK, PlacesOK, Farewell, GoAwayRespected, Live
<1>5. AwaitsOK'
    BY <1>1, Alone, PumpsApart, SlotConstants DEF AwaitsOK, TypeOK, Dead, HasSlot, NoLimit
<1> QED
    BY <1>2, <1>3, <1>4, <1>5

\* open_stream: the slot passes from the claim to the stream.
LEMMA OpenStreamInv ==
    ASSUME SlotsInv, NEW t \in Tasks, Scheduled(t), OpenStream(t) PROVE SlotsInv'
<1> USE DEF SlotsInv
<1>1. /\ UNCHANGED <<preemptive, limit, open, goaway, replied, failed, slotEvt, probe, rpc, wpc, owes>>
      /\ st' = [st EXCEPT ![t] = "live"] /\ pc' = [pc EXCEPT ![t] = "running"]
      /\ pc[t] = "open" /\ ~failed /\ goaway = NoGoAway
    BY DEF Scheduled, OpenStream, Goto, Dead
<1>2. TypeOK'
    BY <1>1, SlotConstants DEF TypeOK, OpenStream
<1>3. Ledger'
  <2>1. /\ IsFiniteSet(Claimed) /\ IsFiniteSet(Live)
        /\ Cardinality(Live) \in Nat /\ Cardinality(Claimed) \in Nat
      BY TasksFinite DEF Live, Claimed
  <2>2. t \in Claimed /\ Claimed' = Claimed \ {t}
      BY <1>1 DEF TypeOK, Claimed
  <2>3. t \notin Live /\ \A u \in Tasks : st'[u] = "live" <=> (u = t \/ st[u] = "live")
      BY <1>1 DEF TypeOK, Live, PlacesOK
  <2>4. Live' = Live \cup {t}
      BY <2>3, Zenon DEF Live
  <2>5. Cardinality(Claimed') = Cardinality(Claimed) - 1
      BY <2>1, <2>2, FS_RemoveElement
  <2>6. t \notin Live /\ Cardinality(Live') = Cardinality(Live) + 1
      BY <2>1, <2>3, <2>4, FS_AddElement
  <2> QED
      BY <1>1, <2>1, <2>5, <2>6 DEF Ledger
<1>4. PlacesOK'
    BY <1>1 DEF TypeOK, PlacesOK
<1>5. Farewell'
    BY <1>1 DEF Farewell, GoAwayRespected
<1>6. AwaitsOK'
    BY <1>1, Alone, PumpsApart DEF AwaitsOK, TypeOK, Dead, HasSlot
<1> QED
    BY <1>2, <1>3, <1>4, <1>5, <1>6

\* A refusal gives the slot back, and owes the event a set.
LEMMA OpenRefusedInv ==
    ASSUME SlotsInv, NEW t \in Tasks, Scheduled(t), OpenRefused(t) PROVE SlotsInv'
<1> USE DEF SlotsInv
<1>1. /\ UNCHANGED <<preemptive, limit, nextId, id, st, goaway, replied, failed, slotEvt, probe, rpc, wpc>>
      /\ open' = open - 1
      /\ pc' = [pc EXCEPT ![t] = "undo"] /\ owes' = [owes EXCEPT ![t] = TRUE]
      /\ pc[t] = "open"
    BY DEF Scheduled, OpenRefused, Goto
<1>2. /\ IsFiniteSet(Claimed) /\ Cardinality(Live) \in Nat /\ Cardinality(Claimed) \in Nat
      /\ t \in Claimed /\ Claimed' = Claimed \ {t} /\ Live' = Live
    BY <1>1, TasksFinite DEF TypeOK, Live, Claimed
<1>3. Cardinality(Claimed') = Cardinality(Claimed) - 1 /\ Cardinality(Claimed') \in Nat
    BY <1>2, TasksFinite, FS_RemoveElement DEF Claimed
<1>4. open' \in Nat /\ Ledger'
    BY <1>1, <1>2, <1>3 DEF Ledger
<1>5. owes' \in [Actors -> BOOLEAN] /\ owes'[t]
    BY <1>1, PumpsApart DEF TypeOK
<1>6. TypeOK'
    BY <1>1, <1>4, <1>5 DEF TypeOK
<1>7. PlacesOK' /\ Farewell'
    BY <1>1 DEF TypeOK, PlacesOK, Farewell, GoAwayRespected, Live
<1>8. AwaitsOK'
    BY <1>1, <1>5, Alone, PumpsApart DEF AwaitsOK, TypeOK, Dead, HasSlot
<1> QED
    BY <1>4, <1>6, <1>7, <1>8

\* _slot_evt.set(): nobody is parked, and on asyncio nobody is between the clear and
\* the wait.
LEMMA SetSlotEvtInv ==
    ASSUME SlotsInv, NEW a \in Actors, Scheduled(a), SetSlotEvt(a) PROVE SlotsInv'
<1> USE DEF SlotsInv, connVars
<1>1. /\ UNCHANGED <<preemptive, connVars, probe, rpc, wpc>>
      /\ owes[a] /\ slotEvt' = TRUE
      /\ pc' = [t \in Tasks |-> IF pc[t] = "parked" THEN "woken"
                                ELSE IF t = a /\ pc[t] = "undo" THEN "raised"
                                ELSE pc[t]]
      /\ owes' = [owes EXCEPT ![a] = FALSE]
    BY DEF Scheduled, SetSlotEvt
<1>2. slotEvt' \in BOOLEAN /\ owes' \in [Actors -> BOOLEAN] /\ ~owes'[a]
      /\ \A b \in Actors : b # a => owes'[b] = owes[b]
    BY <1>1, Zenon DEF TypeOK
<1>3. TypeOK'
    BY <1>1, <1>2 DEF TypeOK
<1>4. Claimed' = Claimed
    BY <1>1 DEF TypeOK, Claimed
<1>5. Ledger' /\ Farewell'
    BY <1>1, <1>4 DEF Ledger, Farewell, GoAwayRespected, Live
<1>6. PlacesOK'
    BY <1>1, <1>2, PumpsApart DEF PlacesOK, TypeOK
<1>7. AwaitsOK'
    BY <1>1, Alone, PumpsApart DEF PlacesOK, AwaitsOK, TypeOK, Dead, HasSlot
<1> QED
    BY <1>3, <1>5, <1>6, <1>7

-----------------------------------------------------------------------------
(* The pumps, and the end of streams.                                        *)

\* What close_stream leaves for a set of streams: the ledger, the places, and the reply.
LEMMA StreamsClosed ==
    ASSUME SlotsInv, NEW S \in SUBSET Live, CloseStreams(S),
           failed' = (failed \/ (replied' /\ ~replied)),
           goaway' \in Nat \cup {NoGoAway},
           \A t \in Live \ S : goaway' # NoGoAway => id[t] <= goaway',
           goaway # NoGoAway => goaway' # NoGoAway,
           goaway' = goaway \/ rpc = "batch",
           UNCHANGED <<id, pc, rpc>>
    PROVE  /\ open' \in Nat /\ open' <= open /\ Ledger'
           /\ st' \in [Tasks -> {"none", "live", "gone"}] /\ \A t \in Tasks : st'[t] # "none" => st[t] # "none"
           /\ replied' \in BOOLEAN /\ failed' \in BOOLEAN /\ Farewell'
<1> USE DEF SlotsInv
<1>1. st' = [t \in Tasks |-> IF t \in S THEN "gone" ELSE st[t]] /\ open' = open - Cardinality(S)
    BY DEF CloseStreams
<1>2. Live' = Live \ S
    BY <1>1 DEF Live
<1>3. Claimed' = Claimed /\ Cardinality(Claimed) \in Nat
    BY TasksFinite DEF Claimed
<1>4. /\ Cardinality(S) \in Nat /\ Cardinality(Live') \in Nat
      /\ Cardinality(Live') = Cardinality(Live) - Cardinality(S)
      /\ Cardinality(Live) \in Nat
    BY <1>2, LiveWithout, TasksFinite DEF Live
<1>5. open' \in Nat /\ open' <= open /\ Ledger'
    BY <1>1, <1>3, <1>4 DEF Ledger
<1>6. replied' = (replied \/ (S # {} /\ goaway' # NoGoAway /\ ~replied /\ ~failed /\ Live' = {}))
    BY <1>2 DEF CloseStreams, Replies
<1>7. replied' \in BOOLEAN /\ failed' \in BOOLEAN
    BY <1>6, Zenon DEF TypeOK
<1>8. st' \in [Tasks -> {"none", "live", "gone"}] /\ \A t \in Tasks : st'[t] # "none" => st[t] # "none"
    BY <1>1 DEF TypeOK, Live
<1>9. GoAwayRespected'
    BY <1>2 DEF GoAwayRespected, Live
<1>10. Farewell'
    BY <1>2, <1>6, <1>7, <1>9 DEF Farewell, TypeOK
<1> QED
    BY <1>5, <1>7, <1>8, <1>10

\* A stream ends: who ended it owes the event a set.
LEMMA CloseStreamInv ==
    ASSUME SlotsInv, NEW a \in Actors, Scheduled(a), NEW t \in Tasks, CloseStream(a, t)
    PROVE  SlotsInv'
<1> USE DEF SlotsInv
<1>1. /\ UNCHANGED <<preemptive, limit, nextId, id, slotEvt, pc, probe, rpc, wpc>>
      /\ goaway' = goaway /\ t \in Live /\ CloseStreams({t})
      /\ failed' = (failed \/ (replied' /\ ~replied))
      /\ owes' = [owes EXCEPT ![a] = TRUE]
      /\ a # "rd" => a = t
    BY DEF Scheduled, CloseStream
<1>2. /\ open' \in Nat /\ open' <= open /\ Ledger'
      /\ st' \in [Tasks -> {"none", "live", "gone"}] /\ \A u \in Tasks : st'[u] # "none" => st[u] # "none"
      /\ replied' \in BOOLEAN /\ failed' \in BOOLEAN /\ Farewell'
    BY <1>1, StreamsClosed DEF TypeOK, Farewell, GoAwayRespected
<1>3. owes' \in [Actors -> BOOLEAN] /\ owes'[a] /\ \A b \in Actors : b # a => owes'[b] = owes[b]
    BY <1>1, Zenon DEF TypeOK
<1>4. TypeOK'
    BY <1>1, <1>2, <1>3 DEF TypeOK
<1>5. PlacesOK'
    BY <1>1, <1>2, <1>3, PumpsApart DEF PlacesOK, Live
<1>6. AwaitsOK'
    BY <1>1, <1>3, Alone, PumpsApart DEF AwaitsOK, PlacesOK, TypeOK, Live
<1> QED
    BY <1>2, <1>4, <1>5, <1>6

\* The peer's GOAWAY: the streams above its last id end.
LEMMA RecvGoAwayInv ==
    ASSUME SlotsInv, Scheduled("rd"), NEW last \in 0..MaxId, RecvGoAway(last) PROVE SlotsInv'
<1> USE DEF SlotsInv
<1>1. /\ UNCHANGED <<preemptive, limit, nextId, id, slotEvt, pc, probe, rpc, wpc>>
      /\ goaway' = last /\ CloseStreams({t \in Live : id[t] > last})
      /\ failed' = (failed \/ (replied' /\ ~replied))
      /\ owes' = [owes EXCEPT !["rd"] = TRUE] /\ rpc = "batch"
    BY DEF Scheduled, RecvGoAway
<1>2. /\ open' \in Nat /\ open' <= open /\ Ledger'
      /\ st' \in [Tasks -> {"none", "live", "gone"}] /\ \A u \in Tasks : st'[u] # "none" => st[u] # "none"
      /\ replied' \in BOOLEAN /\ failed' \in BOOLEAN /\ Farewell'
  <2>1. last \in Nat /\ last # NoGoAway
      BY SlotConstants DEF NoGoAway
  <2>2. \A t \in Live : id[t] \in Int
      BY SlotConstants DEF TypeOK, Live
  <2>3. \A t \in Live \ {u \in Live : id[u] > last} : id[t] <= last
      BY <2>1, <2>2
  <2> QED
      BY <1>1, <2>1, <2>3, StreamsClosed
<1>3. owes' \in [Actors -> BOOLEAN] /\ owes'["rd"] /\ \A b \in Actors : b # "rd" => owes'[b] = owes[b]
    BY <1>1, PumpsApart, Zenon DEF TypeOK
<1>4. TypeOK'
    BY <1>1, <1>2, <1>3, SlotConstants DEF TypeOK
<1>5. PlacesOK'
    BY <1>1, <1>2, <1>3, PumpsApart DEF PlacesOK
<1>6. AwaitsOK'
    BY <1>1, <1>3, Alone, PumpsApart DEF AwaitsOK, TypeOK
<1> QED
    BY <1>2, <1>4, <1>5, <1>6

\* The other steps of the read pump within a batch, and between batches: a GOAWAY that
\* leaves no stream is answered at the end of its batch.
LEMMA ReadPumpInv ==
    ASSUME SlotsInv, Scheduled("rd"),
           \/ ReadBatch \/ BatchEnd
           \/ \E l \in Limits : RecvSettings(l)
           \/ \E last \in 0..MaxId : RecvGoAwayRaised(last)
    PROVE  SlotsInv'
<1> USE DEF SlotsInv
<1>1. CASE ReadBatch \/ \E last \in 0..MaxId : RecvGoAwayRaised(last)
  <2>1. /\ UNCHANGED <<preemptive, connVars, slotEvt, pc, probe, wpc, owes>>
        /\ rpc' \in {"batch", "dying"} /\ rpc # "done"
      BY <1>1 DEF Scheduled, ReadBatch, RecvGoAwayRaised
  <2> QED
      BY <2>1 DEF connVars, TypeOK, Ledger, Claimed, Live, PlacesOK, Farewell, GoAwayRespected, AwaitsOK,
         Dead, HasSlot
<1>2. CASE \E l \in Limits : RecvSettings(l)
  <2>1. PICK l \in Limits : RecvSettings(l)
      BY <1>2
  <2>2. /\ UNCHANGED <<preemptive, open, nextId, id, st, goaway, replied, failed, slotEvt, pc, probe, rpc, wpc>>
        /\ limit' = l /\ owes' = [owes EXCEPT !["rd"] = TRUE]
      BY <2>1 DEF Scheduled, RecvSettings
  <2>3. owes' \in [Actors -> BOOLEAN] /\ owes'["rd"] /\ \A b \in Actors : b # "rd" => owes'[b] = owes[b]
      BY <2>2, PumpsApart, Zenon DEF TypeOK
  <2>4. TypeOK' /\ Ledger' /\ Farewell'
      BY <2>2, <2>3 DEF TypeOK, Ledger, Claimed, Live, Farewell, GoAwayRespected
  <2>5. PlacesOK'
      BY <2>2, <2>3, PumpsApart DEF PlacesOK
  <2>6. AwaitsOK'
      BY <2>2, <2>3, Alone, PumpsApart DEF AwaitsOK, TypeOK
  <2> QED
      BY <2>4, <2>5, <2>6
<1>3. CASE BatchEnd
  <2>1. /\ UNCHANGED <<preemptive, limit, open, nextId, id, st, goaway, slotEvt, pc, probe, wpc>>
        /\ replied' = (replied \/ (goaway # NoGoAway /\ ~replied /\ ~failed /\ Live = {}))
        /\ failed' = (failed \/ (replied' /\ ~replied))
        /\ owes' = [owes EXCEPT !["rd"] = replied' /\ ~replied]
        /\ rpc' = IF replied' /\ ~replied THEN "done" ELSE "read"
        /\ ~owes["rd"] /\ rpc = "batch"
      BY <1>3 DEF Scheduled, BatchEnd, Replies
  <2>2. replied' \in BOOLEAN /\ failed' \in BOOLEAN
      BY <2>1, Zenon DEF TypeOK
  <2>3. /\ owes' \in [Actors -> BOOLEAN] /\ owes'["rd"] = (replied' /\ ~replied)
        /\ \A b \in Actors : b # "rd" => owes'[b] = owes[b]
      BY <2>1, PumpsApart, Zenon DEF TypeOK
  <2>4. rpc' \in {"read", "done"}
      BY <2>1
  <2>5. TypeOK' /\ Ledger'
      BY <2>1, <2>2, <2>3, <2>4 DEF TypeOK, Ledger, Claimed, Live
  <2>6. Farewell'
      BY <2>1, <2>2 DEF Farewell, GoAwayRespected, TypeOK, Live
  <2>7. PlacesOK'
      BY <2>1, <2>3, PumpsApart DEF PlacesOK
  <2>8. AwaitsOK'
      BY <2>1, <2>2, <2>3, Alone, PumpsApart DEF AwaitsOK, TypeOK, Dead, HasSlot
  <2> QED
      BY <2>5, <2>6, <2>7, <2>8
<1> QED
    BY <1>1, <1>2, <1>3

\* _fail: every stream ends, and whoever failed the connection owes the event a set.
LEMMA FailAllInv ==
    ASSUME SlotsInv, NEW a \in {"rd", "wp"}, Scheduled(a), FailAll(a),
           rpc' \in {rpc, "done"}, wpc' \in {wpc, "done"}
    PROVE  SlotsInv'
<1> USE DEF SlotsInv
<1>1. /\ UNCHANGED <<preemptive, limit, nextId, id, goaway, replied, slotEvt, pc, probe>>
      /\ failed' = TRUE /\ owes' = [owes EXCEPT ![a] = TRUE]
      /\ st' = [t \in Tasks |-> IF t \in Live THEN "gone" ELSE st[t]]
      /\ open' = open - Cardinality(Live)
    BY DEF Scheduled, FailAll
<1>2. Live' = {} /\ Claimed' = Claimed
    BY <1>1 DEF Live, Claimed
<1>3. Cardinality(Claimed) \in Nat /\ Cardinality(Live) \in Nat
    BY TasksFinite DEF Live, Claimed
<1>4. open' \in Nat /\ Ledger'
    BY <1>1, <1>2, <1>3, FS_EmptySet DEF Ledger
<1>5. owes' \in [Actors -> BOOLEAN] /\ owes'[a] /\ \A b \in Actors : b # a => owes'[b] = owes[b]
  <2>1. owes \in [Actors -> BOOLEAN] /\ a \in Actors
      BY PumpsApart DEF TypeOK
  <2> QED
      BY <1>1, <2>1, Zenon
<1>6. st' \in [Tasks -> {"none", "live", "gone"}] /\ \A t \in Tasks : st'[t] # "none" => st[t] # "none"
    BY <1>1 DEF TypeOK, Live
<1>7. failed' \in BOOLEAN
    BY <1>1, Zenon
<1>8. TypeOK'
    BY <1>1, <1>4, <1>5, <1>6, <1>7 DEF TypeOK
<1>9. Farewell'
    BY <1>1, <1>2 DEF Farewell, GoAwayRespected, Live
<1>10. PlacesOK'
    BY <1>1, <1>5, <1>6, PumpsApart DEF PlacesOK
<1>11. AwaitsOK'
    BY <1>1, <1>5, Alone, PumpsApart DEF AwaitsOK, TypeOK
<1> QED
    BY <1>4, <1>8, <1>9, <1>10, <1>11

\* The whole next-state relation.
LEMMA SlotsNextInv == ASSUME SlotsInv, [Next]_vars PROVE SlotsInv'
<1>1. CASE UNCHANGED vars
    BY <1>1 DEF vars, SlotsInv, TypeOK, Ledger, Claimed, Live, PlacesOK, Farewell, GoAwayRespected, AwaitsOK,
       Dead, HasSlot
<1>2. ASSUME NEW t \in Tasks, Scheduled(t), Start(t) \/ TaskStep(t) \/ Cancelled(t) \/ CloseStream(t, t)
      PROVE  SlotsInv'
    BY <1>2, WaiterInv, TryClaimSlotInv, OpenStreamInv, OpenRefusedInv, CloseStreamInv, PumpsApart
       DEF TaskStep
<1>3. CASE Scheduled("rd") /\ ReadStep
  <2>1. CASE ReadFails
      BY <1>3, <2>1, FailAllInv DEF ReadFails
  <2>2. CASE \E t \in Tasks : CloseStream("rd", t)
      BY <1>3, <2>2, CloseStreamInv, PumpsApart
  <2>3. CASE \E last \in 0..MaxId : RecvGoAway(last)
      BY <1>3, <2>3, RecvGoAwayInv
  <2> QED
      BY <1>3, <2>1, <2>2, <2>3, ReadPumpInv DEF ReadStep
<1>4. CASE Scheduled("wp") /\ WriteFails
    BY <1>4, FailAllInv DEF WriteFails
<1>5. CASE \E a \in Actors : Scheduled(a) /\ SetSlotEvt(a)
    BY <1>5, SetSlotEvtInv
<1> QED
    BY <1>1, <1>2, <1>3, <1>4, <1>5 DEF Next

-----------------------------------------------------------------------------
(* Theorems.                                                                 *)

\* The invariant every operation on the slots keeps (the mutex sections of H2Streams and
\* the steps of _acquire_slot), on threads and on asyncio.
THEOREM SlotsInvariant == Spec => []SlotsInv
<1>1. Init => SlotsInv
    BY SlotsInitInv
<1>2. SlotsInv /\ [Next]_vars => SlotsInv'
    BY SlotsNextInv
<1> QED
    BY <1>1, <1>2, PTL DEF Spec

\* No slot leaks and none is freed twice: num_open_streams is the claimed slots and the
\* streams, through refusals, closes, GOAWAY and failure (try_claim_slot, open_stream,
\* close_stream, _fail).
THEOREM SlotsCounted == Spec => []SlotLedger
<1>1. SlotsInv => SlotLedger
    BY DEF SlotsInv, Ledger, SlotLedger
<1> QED
    BY <1>1, SlotsInvariant, PTL

\* The peer's GOAWAY ends the streams above its last id, lets none begin, and is answered
\* when the last stream has ended, neither before nor never (recv_goaway,
\* maybe_goaway_reply).
THEOREM SlotsHeedGoAway == Spec => []GoAwayHeeded
<1>1. SlotsInv => GoAwayRespected /\ RepliedWhenIdle
    BY DEF SlotsInv, Farewell, RepliedWhenIdle, Dead
<1>2. SlotsInv /\ Quiet => rpc \notin {"batch", "dying"}
    BY PumpsApart DEF Quiet, Busy
<1>3. SlotsInv => IdleGoAwayEnds
    BY <1>2 DEF SlotsInv, Farewell, IdleGoAwayEnds
<1> QED
    BY <1>1, <1>3, SlotsInvariant, PTL DEF GoAwayHeeded, GoAwayAnswered

\* No wakeup is lost on asyncio (_acquire_slot and _wait_until_ready clear the event, look
\* again, then await): when everyone awaits, nobody is parked beside a free slot or on a
\* dead connection.
THEOREM SlotsStrandNobody == Spec => []NoStrandedWaiter
<1>1. SlotsInv => NoStrandedWaiter
    BY DEF SlotsInv, AwaitsOK, NoStrandedWaiter, Quiet, Busy
<1> QED
    BY <1>1, SlotsInvariant, PTL

\* Only open_stream makes a stream live, from a claim.
LEMMA OnlyOpenStream ==
    ASSUME SlotsInv, [Next]_vars, NEW t \in Tasks, t \notin Live, t \in Live' PROVE pc[t] = "open"
<1>1. CASE st' = st
    BY <1>1 DEF Live
<1>2. CASE \E u \in Tasks : OpenStream(u)
    BY <1>2 DEF OpenStream, Live, SlotsInv, TypeOK
<1>3. CASE \E a \in Actors, u \in Tasks : CloseStream(a, u)
    BY <1>3 DEF CloseStream, CloseStreams, Live
<1>4. CASE \E last \in 0..MaxId : RecvGoAway(last)
    BY <1>4 DEF RecvGoAway, CloseStreams, Live
<1>5. CASE FailAll("rd") \/ FailAll("wp")
    BY <1>5 DEF FailAll, Live
<1> QED
    BY <1>1, <1>2, <1>3, <1>4, <1>5, PumpsApart
       DEF Next, vars, connVars, TaskStep, ReadStep, Start, RaiseIfDead, TryClaimSlot, NoSlot, ClearSlotEvt,
           WaitSlotEvt, Wakes, Cancelled, OpenRefused, SetSlotEvt, ReadBatch, BatchEnd, RecvSettings,
           RecvGoAwayRaised, ReadFails, WriteFails

\* On asyncio no stream begins above the limit in force: a lower limit of the peer's
\* SETTINGS cannot come between try_claim_slot and open_stream.
THEOREM SlotsOpenWithinLimit == Spec => OpensWithinLimit
<1>1. ASSUME SlotsInv, [Next]_vars
      PROVE  \A t \in Tasks : ~preemptive /\ t \notin Live /\ t \in Live' =>
                 limit = NoLimit \/ open <= limit
    BY <1>1, OnlyOpenStream DEF SlotsInv, AwaitsOK
<1> QED
    BY <1>1, SlotsInvariant, PTL DEF Spec, OpensWithinLimit

=============================================================================
