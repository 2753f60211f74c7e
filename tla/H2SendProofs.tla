---------------------------- MODULE H2SendProofs ----------------------------
(***************************************************************************)
(* What H2Send's runs check on small instances, for every instance: the    *)
(* windows' available capacity, their bounds and the send-buffer ledger; the*)
(* two queues and their flags; and that no wake-up is lost.                *)
(***************************************************************************)
EXTENDS H2Send, SequenceTheorems, WellFoundedInduction, TLAPS

QType == [send : Seq(Streams), cap : Seq(Streams),
          inSend : [Streams -> BOOLEAN], inCap : [Streams -> BOOLEAN],
          turn : [Streams -> Nat]]

\* What a queue operation does to the turns: keeps each or ends it.
TurnsKept(q2, q1) == \A s \in Streams : q2.turn[s] = q1.turn[s] \/ q2.turn[s] = 0

-----------------------------------------------------------------------------
(* The queues.                                                               *)

\* A non-empty set of naturals has a least element.
LEMMA Least ==
    ASSUME NEW T \in SUBSET Nat, T # {}
    PROVE  \E x \in T : \A y \in T : x <= y
<1>1. PICK x \in T : \A y \in T : ~(<<y, x>> \in OpToRel(<, Nat))
  BY NatLessThanWellFounded, WFMin, Zenon
<1>2. OpToRel(<, Nat) = {ss \in Nat \X Nat : ss[1] < ss[2]}
  BY Zenon DEF OpToRel
<1>3. ASSUME NEW y \in T PROVE x <= y
  <2>1. ~(<<y, x>> \in {ss \in Nat \X Nat : ss[1] < ss[2]})
    BY <1>1, <1>2, Zenon
  <2> QED BY <2>1
<1> QED BY <1>3

\* Dropping stale entries at the front leaves a queue of streams.
LEMMA FromFirstType ==
    ASSUME NEW queue \in Seq(Streams), NEW live
    PROVE  FromFirst(queue, live) \in Seq(Streams)
<1> DEFINE at == {i \in 1..Len(queue) : queue[i] \in live}
           k == CHOOSE i \in at : \A j \in at : i <= j
<1>1. CASE at = {}
  BY <1>1 DEF FromFirst
<1>2. CASE at # {}
  <2>1. at \in SUBSET Nat
    OBVIOUS
  <2>2. \E i \in at : \A j \in at : i <= j
    BY <1>2, <2>1, Least
  <2>3. k \in at
    BY <2>2
  <2>4. k \in 1..Len(queue)
    BY <2>3
  <2>5. FromFirst(queue, live) = SubSeq(queue, k, Len(queue))
    BY <1>2 DEF FromFirst
  <2> HIDE DEF k
  <2> QED BY <2>4, <2>5
<1> QED BY <1>1, <1>2

\* Removing a stream leaves a queue of streams.
LEMMA WithoutType ==
    ASSUME NEW queue \in Seq(Streams), NEW s \in Streams
    PROVE  Without(queue, s) \in Seq(Streams)
<1> DEFINE at == {i \in 1..Len(queue) : queue[i] = s}
           k == CHOOSE i \in at : TRUE
<1>1. CASE at = {}
  BY <1>1 DEF Without
<1>2. CASE at # {}
  <2>1. k \in 1..Len(queue)
    BY <1>2
  <2>2. Without(queue, s) = SubSeq(queue, 1, k - 1) \o SubSeq(queue, k + 1, Len(queue))
    BY <1>2 DEF Without
  <2> HIDE DEF k
  <2>3. SubSeq(queue, 1, k - 1) \in Seq(Streams)
    BY <2>1
  <2>4. SubSeq(queue, k + 1, Len(queue)) \in Seq(Streams)
    BY <2>1
  <2> QED BY <2>2, <2>3, <2>4
<1> QED BY <1>1, <1>2

\* send_front and capacity_front.
LEMMA PruneType ==
    ASSUME NEW qq \in QType
    PROVE  /\ PruneSend(qq) \in QType /\ TurnsKept(PruneSend(qq), qq)
           /\ PruneCap(qq) \in QType /\ TurnsKept(PruneCap(qq), qq)
<1>1. qq.send \in Seq(Streams) /\ qq.cap \in Seq(Streams)
  BY DEF QType
<1>2. ASSUME NEW x \in Seq(Streams)
      PROVE  /\ [qq EXCEPT !.send = x] \in QType /\ [qq EXCEPT !.send = x].turn = qq.turn
             /\ [qq EXCEPT !.cap = x] \in QType /\ [qq EXCEPT !.cap = x].turn = qq.turn
  BY DEF QType
<1>3. \A live : FromFirst(qq.send, live) \in Seq(Streams) /\ FromFirst(qq.cap, live) \in Seq(Streams)
  BY <1>1, FromFirstType
<1>4. PruneSend(qq) \in QType /\ PruneSend(qq).turn = qq.turn
  BY <1>2, <1>3, Zenon DEF PruneSend
<1>5. PruneCap(qq) \in QType /\ PruneCap(qq).turn = qq.turn
  BY <1>2, <1>3, Zenon DEF PruneCap
<1> QED BY <1>4, <1>5 DEF TurnsKept

\* enqueue_send and enqueue_capacity.
LEMMA EnqueueType ==
    ASSUME NEW qq \in QType, NEW s \in Streams
    PROVE  /\ EnqueueSend(qq, s) \in QType /\ TurnsKept(EnqueueSend(qq, s), qq)
           /\ EnqueueCapacity(qq, s) \in QType /\ TurnsKept(EnqueueCapacity(qq, s), qq)
<1>1. qq.send \in Seq(Streams) /\ qq.cap \in Seq(Streams)
  BY DEF QType
<1>2. Append(qq.send, s) \in Seq(Streams) /\ Append(qq.cap, s) \in Seq(Streams)
  BY <1>1
<1>3. ASSUME NEW x \in Seq(Streams)
      PROVE  LET q1 == [qq EXCEPT !.inSend[s] = TRUE, !.turn[s] = 0, !.send = x]
                 q2 == [qq EXCEPT !.inCap[s] = TRUE, !.cap = x]
             IN  q1 \in QType /\ TurnsKept(q1, qq) /\ q2 \in QType /\ TurnsKept(q2, qq)
  BY DEF QType, TurnsKept
<1>4. TurnsKept(qq, qq)
  BY DEF TurnsKept
<1> QED BY <1>2, <1>3, <1>4, Zenon DEF EnqueueSend, EnqueueCapacity

\* leave_send_queue, leave_capacity_queue and both.
LEMMA LeaveType ==
    ASSUME NEW qq \in QType, NEW s \in Streams
    PROVE  /\ LeaveSend(qq, s) \in QType /\ TurnsKept(LeaveSend(qq, s), qq)
           /\ LeaveCapacity(qq, s) \in QType /\ TurnsKept(LeaveCapacity(qq, s), qq)
<1>1. qq.send \in Seq(Streams) /\ qq.cap \in Seq(Streams)
  BY DEF QType
<1>2. Without(qq.send, s) \in Seq(Streams) /\ Without(qq.cap, s) \in Seq(Streams)
  BY <1>1, WithoutType
<1>3. ASSUME NEW x \in Seq(Streams)
      PROVE  LET q1 == [qq EXCEPT !.inSend[s] = FALSE, !.turn[s] = 0, !.send = x]
                 q2 == [qq EXCEPT !.inCap[s] = FALSE, !.cap = x]
             IN  q1 \in QType /\ TurnsKept(q1, qq) /\ q2 \in QType /\ TurnsKept(q2, qq)
  BY DEF QType, TurnsKept
<1>4. TurnsKept(qq, qq)
  BY DEF TurnsKept
<1> QED BY <1>2, <1>3, <1>4, Zenon DEF LeaveSend, LeaveCapacity

\* Turns kept twice are kept.
LEMMA TurnsKeptTransitive ==
    ASSUME NEW q1, NEW q2, NEW q3, TurnsKept(q3, q2), TurnsKept(q2, q1)
    PROVE  TurnsKept(q3, q1)
BY DEF TurnsKept

\* close_stream's two leaves.
LEMMA LeaveQueuesType ==
    ASSUME NEW qq \in QType, NEW s \in Streams
    PROVE  LeaveQueues(qq, s) \in QType /\ TurnsKept(LeaveQueues(qq, s), qq)
BY LeaveType, TurnsKeptTransitive, Zenon DEF LeaveQueues

\* yield_send_turn.
LEMMA YieldType ==
    ASSUME NEW qq \in QType, NEW s \in Streams
    PROVE  YieldTurn(qq, s) \in QType /\ TurnsKept(YieldTurn(qq, s), qq)
<1>1. CASE Leads(qq.send, s)
  <2>1. qq.send \in Seq(Streams) /\ qq.send # <<>>
    BY <1>1 DEF QType, Leads
  <2>2. Append(Tail(qq.send), s) \in Seq(Streams)
    BY <2>1
  <2>3. ASSUME NEW x \in Seq(Streams)
        PROVE  LET q1 == [qq EXCEPT !.send = x, !.turn[s] = 0]
               IN  q1 \in QType /\ TurnsKept(q1, qq)
    BY DEF QType, TurnsKept
  <2> QED BY <1>1, <2>2, <2>3, Zenon DEF YieldTurn
<1>2. CASE ~Leads(qq.send, s)
  BY <1>2 DEF YieldTurn, TurnsKept
<1> QED BY <1>1, <1>2

\* admit_capacity_front.
LEMMA AdmitType ==
    ASSUME NEW qq \in QType, NEW cw
    PROVE  AdmitCapacityFront(qq, cw) \in QType /\ TurnsKept(AdmitCapacityFront(qq, cw), qq)
<1> DEFINE p == PruneSend(qq)
           c == PruneCap(p)
           s == Head(c.cap)
           d == [c EXCEPT !.inCap[s] = FALSE, !.cap = Tail(@)]
<1>1. p \in QType /\ TurnsKept(p, qq)
  BY PruneType
<1>2. c \in QType /\ TurnsKept(c, p)
  BY <1>1, PruneType
<1>3. TurnsKept(c, qq)
  BY <1>1, <1>2, TurnsKeptTransitive
<1>4. CASE cw = 0
  BY <1>4 DEF AdmitCapacityFront, TurnsKept
<1>5. CASE cw # 0 /\ p.send # <<>>
  BY <1>5, <1>1 DEF AdmitCapacityFront
<1>6. CASE cw # 0 /\ p.send = <<>> /\ c.cap = <<>>
  BY <1>6, <1>2, <1>3 DEF AdmitCapacityFront
<1>7. CASE cw # 0 /\ p.send = <<>> /\ c.cap # <<>>
  <2>1. AdmitCapacityFront(qq, cw) = EnqueueSend(d, s)
    BY <1>7, Zenon DEF AdmitCapacityFront
  <2> HIDE DEF c
  <2>2. c.cap \in Seq(Streams)
    BY <1>2 DEF QType
  <2>3. s \in Streams /\ Tail(c.cap) \in Seq(Streams)
    BY <2>2, <1>7
  <2>4. d \in QType /\ TurnsKept(d, c)
    <3> HIDE DEF s
    <3>1. ASSUME NEW x \in Seq(Streams)
          PROVE  LET e == [c EXCEPT !.inCap[s] = FALSE, !.cap = x]
                 IN  e \in QType /\ TurnsKept(e, c)
      BY <1>2, <2>3 DEF QType, TurnsKept
    <3> QED BY <3>1, <2>3, Zenon
  <2> HIDE DEF s, d
  <2>5. EnqueueSend(d, s) \in QType /\ TurnsKept(EnqueueSend(d, s), d)
    BY <2>3, <2>4, EnqueueType
  <2> QED BY <2>1, <2>4, <2>5, <1>3, TurnsKeptTransitive, Zenon
<1> QED BY <1>4, <1>5, <1>6, <1>7, Zenon

-----------------------------------------------------------------------------
(* Type correctness.                                                         *)

OwesType == [Actors -> [set : SUBSET Streams, wake : BOOLEAN, cap : BOOLEAN]]

\* The verdicts' acts have their type whatever a step adds to them.
LEMMA OwesUpdate ==
    ASSUME NEW o \in OwesType, NEW a \in Actors, NEW S \in SUBSET Streams,
           NEW w \in BOOLEAN, NEW c \in BOOLEAN
    PROVE  /\ [o EXCEPT ![a].set = S] \in OwesType
           /\ [o EXCEPT ![a].wake = w] \in OwesType
           /\ [o EXCEPT ![a].cap = c] \in OwesType
           /\ [o EXCEPT ![a] = Verdict(S, w, c)] \in OwesType
BY DEF OwesType, Verdict

\* The initial state is well typed.
LEMMA TypeInit == Init => TypeOK
<1> SUFFICES ASSUME Init PROVE TypeOK
  OBVIOUS
<1>1. q \in QType
  BY DEF Init, NoQueues, QType
<1>2. owes \in OwesType
  BY DEF Init, OwesType, Clear, Verdict, Actors
<1>3. /\ sst \in [Streams -> {"idle", "awaiting", "streaming", "halfclosed", "gone"}]
      /\ initWin \in InitWindows
      /\ conn \in [win : Int, avail : Int]
      /\ flow \in [Streams -> [win : Int, avail : Int]]
      /\ chunk \in [Streams -> [want : Nat, eos : BOOLEAN]]
  BY SendConstants DEF Init
<1>4. /\ buffered \in [Streams -> 0..MaxSendBuf]
      /\ credit \in [Streams -> Nat] /\ inflight \in [Streams -> Nat]
  BY SendConstants DEF Init
<1>5. /\ recvDone \in [Streams -> BOOLEAN] /\ failed \in BOOLEAN
      /\ evt \in [Streams -> BOOLEAN] /\ writeEvt \in BOOLEAN
      /\ pc \in [Streams -> {"start", "idle", "try1", "clear", "try2", "wait", "end"}]
      /\ wpc \in {"wait", "take", "write", "fail", "exit"}
      /\ rpc \in {"read", "dying", "flush", "fail", "done"}
  BY DEF Init
<1> QED BY <1>1, <1>2, <1>3, <1>4, <1>5 DEF TypeOK, QType, OwesType

\* Acting on a verdict keeps the types.
LEMMA TypeAct ==
    ASSUME TypeOK, NEW a \in Actors, Act(a)
    PROVE  TypeOK'
<1>1. owes \in OwesType /\ q \in QType
  BY DEF TypeOK, OwesType, QType
<1>2. ASSUME NEW s \in Streams, SetWindowEvt(a, s) PROVE TypeOK'
  <2>1. owes[a].set \ {s} \in SUBSET Streams
    BY <1>1 DEF OwesType
  <2>2. owes' \in OwesType
    BY <1>1, <1>2, <2>1, OwesUpdate DEF SetWindowEvt
  <2> QED BY <1>2, <2>2 DEF SetWindowEvt, TypeOK, OwesType, stateVars
<1>3. CASE AfterWake(a)
  <2>1. owes' \in OwesType
    BY <1>1, <1>3, OwesUpdate DEF AfterWake
  <2> QED BY <1>3, <2>1 DEF AfterWake, TypeOK, OwesType, stateVars
<1>4. CASE AfterCapacity(a)
  <2> DEFINE p == PruneSend(AdmitCapacityFront(q, WindowSize(conn)))
             S == IF p.send = <<>> THEN {} ELSE {Head(p.send)}
  <2>1. p \in QType
    BY <1>1, AdmitType, PruneType
  <2>2. q' = p /\ owes' = [owes EXCEPT ![a] = Verdict(S, FALSE, FALSE)]
    BY <1>4 DEF AfterCapacity
  <2> HIDE DEF p
  <2>3. S \in SUBSET Streams
    <3>1. p.send \in Seq(Streams)
      BY <2>1 DEF QType
    <3> QED BY <3>1
  <2> HIDE DEF S
  <2>4. owes' \in OwesType
    BY <1>1, <2>2, <2>3, OwesUpdate
  <2> QED BY <1>4, <2>1, <2>2, <2>4 DEF AfterCapacity, TypeOK, OwesType, QType
<1> QED BY <1>2, <1>3, <1>4 DEF Act

-----------------------------------------------------------------------------
(* The inductive invariant: the ledger of a stored stream balances because    *)
(* one that is not stored yet has nothing in it.                              *)

IdleClean ==
    \A s \in Streams : sst[s] = "idle" =>
        buffered[s] = 0 /\ credit[s] = 0 /\ inflight[s] = 0 /\ q.turn[s] = 0

SendInv == TypeOK /\ AvailEqualsWindow /\ WindowsBounded /\ BufferLedger /\ IdleClean

\* The windows are untouched.
LEMMA SameWindows ==
    ASSUME AvailEqualsWindow, WindowsBounded, UNCHANGED <<conn, flow>>
    PROVE  AvailEqualsWindow' /\ WindowsBounded'
BY DEF AvailEqualsWindow, WindowsBounded

\* The ledger is untouched when no byte moves, turns are kept or ended, and no
\* stream comes back.
LEMMA SameLedger ==
    ASSUME TypeOK, TypeOK', BufferLedger, IdleClean,
           UNCHANGED <<buffered, credit, inflight>>, TurnsKept(q', q),
           \A s \in Streams : sst'[s] = sst[s] \/ (sst'[s] # "idle" /\ sst[s] # "gone")
    PROVE  BufferLedger' /\ IdleClean'
<1>1. ASSUME NEW s \in Streams
      PROVE  q'.turn[s] \in Nat /\ q.turn[s] \in Nat /\ buffered[s] \in Nat
             /\ (q'.turn[s] = q.turn[s] \/ q'.turn[s] = 0)
  BY DEF TypeOK, TurnsKept
<1>2. \A s \in Streams :
         sst[s] \in {"idle", "awaiting", "streaming", "halfclosed", "gone"}
         /\ sst'[s] \in {"idle", "awaiting", "streaming", "halfclosed", "gone"}
  BY DEF TypeOK
<1>3. ASSUME NEW s \in Streams, sst'[s] = "idle"
      PROVE  buffered[s] = 0 /\ credit[s] = 0 /\ inflight[s] = 0 /\ q'.turn[s] = 0
  BY <1>1, <1>3 DEF IdleClean
<1>4. ASSUME NEW s \in Streams, s \in Active'
      PROVE  buffered[s] = credit[s] + inflight[s] /\ q'.turn[s] <= buffered[s]
  <2>1. s \in Active \/ sst[s] = "idle"
    BY <1>2, <1>4 DEF Active
  <2>2. CASE s \in Active
    BY <1>1, <2>2 DEF BufferLedger
  <2>3. CASE sst[s] = "idle"
    BY <1>1, <2>3 DEF IdleClean
  <2> QED BY <2>1, <2>2, <2>3
<1>5. Active' \subseteq Streams
  BY DEF Active
<1> QED BY <1>3, <1>4, <1>5 DEF BufferLedger, IdleClean

\* The initial state satisfies the invariant.
LEMMA InitInv == Init => SendInv
<1> SUFFICES ASSUME Init PROVE SendInv
  OBVIOUS
<1>1. TypeOK
  BY TypeInit
<1>2. AvailEqualsWindow /\ WindowsBounded
  BY SendConstants DEF Init, AvailEqualsWindow, WindowsBounded
<1>3. \A s \in Streams : q.turn[s] = 0
  BY DEF Init, NoQueues
<1>4. BufferLedger /\ IdleClean
  BY <1>3 DEF Init, BufferLedger, IdleClean, Active
<1> QED BY <1>1, <1>2, <1>4 DEF SendInv

\* Acts on events.
LEMMA ActInv ==
    ASSUME SendInv, NEW a \in Actors, Act(a)
    PROVE  SendInv'
<1>1. TypeOK'
  BY TypeAct DEF SendInv
<1>2. UNCHANGED <<sst, conn, flow, buffered, credit, inflight>>
  BY DEF Act, SetWindowEvt, AfterWake, AfterCapacity, stateVars
<1>3. TurnsKept(q', q)
  <2>1. q \in QType
    BY DEF SendInv, TypeOK, QType
  <2>2. CASE AfterCapacity(a)
    <3> DEFINE ad == AdmitCapacityFront(q, WindowSize(conn))
    <3>1. ad \in QType /\ TurnsKept(ad, q)
      BY <2>1, AdmitType
    <3>2. TurnsKept(PruneSend(ad), ad)
      BY <3>1, PruneType
    <3>3. q' = PruneSend(ad)
      BY <2>2 DEF AfterCapacity
    <3> QED BY <3>1, <3>2, <3>3, TurnsKeptTransitive
  <2>3. CASE q' = q
    BY <2>3 DEF TurnsKept
  <2> QED BY <2>2, <2>3 DEF Act, SetWindowEvt, AfterWake, stateVars
<1> QED BY <1>1, <1>2, <1>3, SameWindows, SameLedger DEF SendInv

-----------------------------------------------------------------------------
(* The sender.                                                               *)

\* A step that opens the stream, or touches only the sender's own place.
LEMMA OpenInv ==
    ASSUME SendInv, scene \in Scenarios,
           NEW s \in Streams, Open(s) \/ OpenStopped(s) \/ NextChunk(s)
    PROVE  SendInv'
<1>1. owes \in OwesType /\ s \in Actors
  BY DEF SendInv, TypeOK, OwesType, Actors
<1>2. TurnsKept(q', q) /\ UNCHANGED <<q, conn, buffered, credit, inflight>>
  BY DEF TurnsKept, Open, OpenStopped, NextChunk, stateVars
<1>3. CASE Open(s)
  <2>1. owes' \in OwesType
    BY <1>1, <1>3, OwesUpdate DEF Open
  <2>2. initWin \in Int /\ initWin <= MaxWindow
    BY SendConstants DEF SendInv, TypeOK
  <2>3. /\ flow' \in [Streams -> [win : Int, avail : Int]]
        /\ \A x \in Streams : flow'[x].avail = flow'[x].win /\ flow'[x].win <= MaxWindow
    <3>1. CASE scene.server
      BY <1>3, <3>1 DEF Open, SendInv, TypeOK, AvailEqualsWindow, WindowsBounded
    <3>2. CASE ~scene.server
      <4>1. flow' = [flow EXCEPT ![s] = [win |-> initWin, avail |-> initWin]]
        BY <1>3, <3>2 DEF Open
      <4> QED BY <2>2, <4>1 DEF SendInv, TypeOK, AvailEqualsWindow, WindowsBounded
    <3> QED BY <3>1, <3>2
  <2>4. AvailEqualsWindow' /\ WindowsBounded'
    BY <1>2, <2>3 DEF SendInv, AvailEqualsWindow, WindowsBounded
  <2>5. TypeOK'
    BY <1>3, <2>1, <2>3 DEF SendInv, TypeOK, Open, OwesType
  <2>6. \A x \in Streams : sst'[x] = sst[x] \/ (sst'[x] # "idle" /\ sst[x] # "gone")
    <3>1. sst[s] # "gone" /\ sst' = [sst EXCEPT ![s] = "streaming"]
      BY <1>3 DEF Open
    <3> QED BY <3>1 DEF SendInv, TypeOK
  <2> QED BY <1>2, <2>4, <2>5, <2>6, SameLedger DEF SendInv
<1>4. CASE OpenStopped(s)
  <2>1. TypeOK'
    BY <1>4 DEF SendInv, TypeOK, OpenStopped, stateVars
  <2> QED BY <1>2, <1>4, <2>1, SameWindows, SameLedger DEF SendInv, OpenStopped, stateVars
<1>5. CASE NextChunk(s)
  <2>1. PICK c \in scene.chunks : chunk' = [chunk EXCEPT ![s] = c]
    BY <1>5 DEF NextChunk
  <2>2. c \in [want : Nat, eos : BOOLEAN]
    BY SendConstants DEF SceneOK
  <2>3. chunk' \in [Streams -> [want : Nat, eos : BOOLEAN]]
    BY <2>1, <2>2 DEF SendInv, TypeOK
  <2>4. TypeOK'
    BY <1>5, <2>3 DEF SendInv, TypeOK, NextChunk, stateVars
  <2> QED BY <1>2, <1>5, <2>4, SameWindows, SameLedger DEF SendInv, NextChunk, stateVars
<1> QED BY <1>3, <1>4, <1>5

\* The steps of the sender that queue no bytes: only its place and the queues move.
LEMMA ParkInv ==
    ASSUME SendInv, NEW s \in Streams,
           UNCHANGED <<sst, recvDone, failed, initWin, conn, flow, buffered, credit, inflight,
                       writeEvt, chunk, wpc, rpc>>,
           q' \in QType, TurnsKept(q', q), owes' \in OwesType,
           evt' \in [Streams -> BOOLEAN],
           pc' \in [Streams -> {"start", "idle", "try1", "clear", "try2", "wait", "end"}]
    PROVE  SendInv'
<1>1. TypeOK'
  BY DEF SendInv, TypeOK, QType, OwesType
<1> QED BY <1>1, SameWindows, SameLedger DEF SendInv

\* Where a sender parks is a place of the sender.
LEMMA ParkedType ==
    ASSUME TypeOK, NEW s \in Streams
    PROVE  Parked(s) \in [Streams -> {"start", "idle", "try1", "clear", "try2", "wait", "end"}]
BY DEF TypeOK, Parked

\* The queues as send_data sees them.
LEMMA ReadyType ==
    ASSUME TypeOK, NEW s \in Streams
    PROVE  /\ ReadyQueues(s) \in QType /\ TurnsKept(ReadyQueues(s), q)
           /\ TurnQueues(s) \in QType /\ TurnsKept(TurnQueues(s), q)
<1>1. q \in QType
  BY DEF TypeOK, QType
<1>2. LeaveCapacity(q, s) \in QType /\ TurnsKept(LeaveCapacity(q, s), q)
  BY <1>1, LeaveType
<1>3. /\ PruneSend(LeaveCapacity(q, s)) \in QType
      /\ TurnsKept(PruneSend(LeaveCapacity(q, s)), LeaveCapacity(q, s))
  BY <1>2, PruneType
<1>4. ReadyQueues(s) \in QType /\ TurnsKept(ReadyQueues(s), q)
  BY <1>2, <1>3, TurnsKeptTransitive DEF ReadyQueues
<1>5. /\ EnqueueSend(ReadyQueues(s), s) \in QType
      /\ TurnsKept(EnqueueSend(ReadyQueues(s), s), ReadyQueues(s))
  BY <1>4, EnqueueType
<1>6. TurnsKept(EnqueueSend(ReadyQueues(s), s), q)
  BY <1>4, <1>5, TurnsKeptTransitive
<1> QED BY <1>4, <1>5, <1>6 DEF TurnQueues

\* Every flag is a Boolean.
LEMMA FlagType ==
    ASSUME NEW qq \in QType, NEW s \in Streams, NEW cw
    PROVE  /\ QueueWake(qq, cw) \in BOOLEAN
           /\ LeaveSendFlag(qq, s, cw) \in BOOLEAN
           /\ LeaveQueuesFlag(qq, s, cw) \in BOOLEAN
BY DEF QueueWake, LeaveSendFlag, LeaveQueuesFlag

\* The calls of send_data that queue nothing, and the waiter's own steps.
LEMMA WaitInv ==
    ASSUME SendInv, NEW s \in Streams,
           \/ SendStopped(s) \/ SendNoWindow(s) \/ SendNotMyTurn(s) \/ SendYield(s)
           \/ SendPause(s) \/ ClearWindowEvt(s) \/ WindowEvtWakes(s)
    PROVE  SendInv'
<1> DEFINE PcType == [Streams -> {"start", "idle", "try1", "clear", "try2", "wait", "end"}]
<1>1. TypeOK /\ owes \in OwesType /\ s \in Actors /\ q \in QType
  BY DEF SendInv, TypeOK, OwesType, Actors, QType
<1>2. TurnsKept(q, q) /\ evt \in [Streams -> BOOLEAN] /\ pc \in PcType
  BY <1>1 DEF TurnsKept, TypeOK
<1>3. Parked(s) \in PcType
  BY <1>1, ParkedType
<1>4. CASE SendStopped(s)
  <2>1. pc' \in PcType
    BY <1>2, <1>4 DEF SendStopped
  <2> QED BY <1>1, <1>2, <1>4, <2>1, ParkInv DEF SendStopped, stateVars
<1>5. CASE SendNoWindow(s)
  <2> DEFINE lined == IF WindowSize(conn) = 0 /\ StreamRoom(s) > 0
                      THEN EnqueueCapacity(q, s) ELSE q
  <2>1. lined \in QType /\ TurnsKept(lined, q)
    BY <1>1, <1>2, EnqueueType
  <2>2. /\ q' = LeaveSend(lined, s)
        /\ owes' = [owes EXCEPT ![s].cap = LeaveSendFlag(lined, s, WindowSize(conn))]
        /\ pc' = Parked(s)
    BY <1>5 DEF SendNoWindow
  <2> HIDE DEF lined
  <2>3. q' \in QType /\ TurnsKept(q', q)
    BY <2>1, <2>2, LeaveType, TurnsKeptTransitive
  <2>4. owes' \in OwesType
    BY <1>1, <2>1, <2>2, FlagType, OwesUpdate
  <2> QED BY <1>2, <1>3, <1>5, <2>2, <2>3, <2>4, ParkInv DEF SendNoWindow
<1>6. CASE SendNotMyTurn(s)
  <2>1. q' = EnqueueSend(ReadyQueues(s), s) /\ pc' = Parked(s)
    BY <1>6 DEF SendNotMyTurn
  <2>2. q' \in QType /\ TurnsKept(q', q)
    BY <1>1, <2>1, ReadyType, EnqueueType, TurnsKeptTransitive
  <2> QED BY <1>1, <1>2, <1>3, <1>6, <2>1, <2>2, ParkInv DEF SendNotMyTurn
<1>7. CASE SendYield(s)
  <2>1. /\ q' = YieldTurn(TurnQueues(s), s) /\ pc' = Parked(s)
        /\ owes' = [owes EXCEPT ![s].cap =
               QueueWake(YieldTurn(TurnQueues(s), s), WindowSize(conn))]
    BY <1>7 DEF SendYield
  <2>2. q' \in QType /\ TurnsKept(q', q)
    BY <1>1, <2>1, ReadyType, YieldType, TurnsKeptTransitive
  <2>3. owes' \in OwesType
    BY <1>1, <2>1, <2>2, FlagType, OwesUpdate
  <2> QED BY <1>2, <1>3, <1>7, <2>1, <2>2, <2>3, ParkInv DEF SendYield
<1>8. CASE SendPause(s)
  <2>1. q' = TurnQueues(s) /\ pc' = Parked(s)
    BY <1>8 DEF SendPause
  <2>2. q' \in QType /\ TurnsKept(q', q)
    BY <1>1, <2>1, ReadyType
  <2> QED BY <1>1, <1>2, <1>3, <1>8, <2>1, <2>2, ParkInv DEF SendPause
<1>9. CASE ClearWindowEvt(s)
  <2>1. pc' \in PcType /\ evt' \in [Streams -> BOOLEAN]
    BY <1>2, <1>9 DEF ClearWindowEvt
  <2> QED BY <1>1, <1>2, <1>9, <2>1, ParkInv DEF ClearWindowEvt, stateVars
<1>10. CASE WindowEvtWakes(s)
  <2>1. pc' \in PcType
    BY <1>2, <1>10 DEF WindowEvtWakes
  <2> QED BY <1>1, <1>2, <1>10, <2>1, ParkInv DEF WindowEvtWakes, stateVars
<1> QED BY <1>4, <1>5, <1>6, <1>7, <1>8, <1>9, <1>10

\* A stream ends its send half.
LEMMA EndStreamType ==
    ASSUME TypeOK, NEW s \in Streams, sst[s] = "streaming"
    PROVE  /\ AfterEndStream(s) \in
                 [Streams -> {"idle", "awaiting", "streaming", "halfclosed", "gone"}]
           /\ \A x \in Streams :
                 AfterEndStream(s)[x] = sst[x] \/ (AfterEndStream(s)[x] # "idle" /\ sst[x] # "gone")
BY DEF TypeOK, AfterEndStream

\* The place of the sender after a frame.
LEMMA AfterFrameType ==
    ASSUME TypeOK, NEW s \in Streams, NEW done
    PROVE  AfterFrame(s, done) \in
              [Streams -> {"start", "idle", "try1", "clear", "try2", "wait", "end"}]
BY DEF TypeOK, AfterFrame

\* The empty DATA frame.
LEMMA EmptyInv ==
    ASSUME SendInv, NEW s \in Streams, SendEmpty(s)
    PROVE  SendInv'
<1>1. TypeOK /\ owes \in OwesType /\ s \in Actors /\ q \in QType /\ sst[s] = "streaming"
  BY DEF SendInv, TypeOK, OwesType, Actors, QType, SendEmpty, Sending
<1>2. /\ sst' \in [Streams -> {"idle", "awaiting", "streaming", "halfclosed", "gone"}]
      /\ \A x \in Streams : sst'[x] = sst[x] \/ (sst'[x] # "idle" /\ sst[x] # "gone")
  <2>1. sst' = IF chunk[s].eos THEN AfterEndStream(s) ELSE sst
    BY DEF SendEmpty
  <2>2. CASE chunk[s].eos
    BY <1>1, <2>1, <2>2, EndStreamType
  <2>3. CASE ~chunk[s].eos
    BY <1>1, <2>1, <2>3 DEF TypeOK
  <2> QED BY <2>2, <2>3
<1>3. q' \in QType /\ TurnsKept(q', q)
  BY <1>1, LeaveQueuesType DEF SendEmpty, TurnsKept
<1>4. owes' \in OwesType
  <2> DEFINE c == sst'[s] = "gone" /\ LeaveQueuesFlag(q, s, WindowSize(conn))
  <2>1. c \in BOOLEAN /\ {} \in SUBSET Streams
    OBVIOUS
  <2>2. owes' = [owes EXCEPT ![s] = Verdict({}, TRUE, c)]
    BY DEF SendEmpty
  <2> HIDE DEF c
  <2> QED BY <1>1, <2>1, <2>2, OwesUpdate
<1>5. pc' \in [Streams -> {"start", "idle", "try1", "clear", "try2", "wait", "end"}]
  BY <1>1, AfterFrameType DEF SendEmpty
<1>6. TypeOK'
  BY <1>1, <1>2, <1>3, <1>4, <1>5 DEF SendEmpty, TypeOK, QType, OwesType
<1> QED BY <1>2, <1>3, <1>6, SameWindows, SameLedger DEF SendInv, SendEmpty

\* What a frame reserves: at least one byte, within the chunk, both windows and the
\* room left in the send buffer.
LEMMA FrameSizeBounds ==
    ASSUME TypeOK, WindowsBounded, NEW s \in Streams, Ready(s)
    PROVE  /\ FrameSize(s) \in Nat /\ FrameSize(s) > 0
           /\ FrameSize(s) <= chunk[s].want
           /\ FrameSize(s) <= conn.win
           /\ FrameSize(s) <= flow[s].win
           /\ FrameSize(s) <= MaxSendBuf - buffered[s]
<1>1. /\ conn.win \in Int /\ flow[s].win \in Int /\ buffered[s] \in 0..MaxSendBuf
      /\ chunk[s].want \in Nat /\ chunk[s].want > 0 /\ Budget(s) > 0
      /\ MaxSendBuf \in Nat /\ MaxFrame \in Nat \ {0}
  BY SendConstants DEF TypeOK, Ready
<1>2. /\ StreamRoom(s) \in Nat
      /\ StreamRoom(s) > 0 => StreamRoom(s) <= flow[s].win /\ StreamRoom(s) <= MaxSendBuf - buffered[s]
  BY <1>1 DEF StreamRoom, WindowSize, Min2
<1>3. /\ WindowSize(conn) \in Nat
      /\ WindowSize(conn) > 0 => WindowSize(conn) <= conn.win
  BY <1>1 DEF WindowSize
<1>4. /\ Budget(s) \in Nat /\ Budget(s) <= conn.win /\ Budget(s) <= flow[s].win
      /\ Budget(s) <= MaxSendBuf - buffered[s]
  BY <1>1, <1>2, <1>3 DEF Budget, Min2
<1> QED BY <1>1, <1>4 DEF FrameSize, Min2

\* A frame counts in the turn.
LEMMA FramedType ==
    ASSUME NEW qq \in QType, NEW s \in Streams
    PROVE  /\ [qq EXCEPT !.turn[s] = @ + 1] \in QType
           /\ [qq EXCEPT !.turn[s] = @ + 1].turn = [qq.turn EXCEPT ![s] = @ + 1]
<1>1. qq.turn \in [Streams -> Nat] /\ qq.turn[s] + 1 \in Nat
  BY DEF QType
<1>2. ASSUME NEW k \in Nat
      PROVE  /\ [qq EXCEPT !.turn[s] = k] \in QType
             /\ [qq EXCEPT !.turn[s] = k].turn = [qq.turn EXCEPT ![s] = k]
  BY DEF QType
<1> QED BY <1>1, <1>2, Zenon

\* One DATA frame.
LEMMA FrameInv ==
    ASSUME SendInv, NEW s \in Streams, SendFrame(s)
    PROVE  SendInv'
<1> DEFINE n == FrameSize(s)
           done == n = chunk[s].want
           framed == [TurnQueues(s) EXCEPT !.turn[s] = @ + 1]
           cw == WindowSize(conn')
           room == StreamRoom(s)'
           lined == LinedAfterFrame(framed, s, n, room, cw)
           leaves == LeavesAfterFrame(s, n, room, cw)
           left == IF leaves THEN LeaveSend(lined, s) ELSE lined
           flag == \/ leaves /\ LeaveSendFlag(lined, s, cw)
                   \/ sst'[s] = "gone" /\ LeaveQueuesFlag(left, s, cw)
<1>1. TypeOK /\ owes \in OwesType /\ s \in Actors /\ sst[s] = "streaming" /\ Ready(s)
  BY DEF SendInv, TypeOK, OwesType, Actors, SendFrame, MyTurn, Ready, Sending
<1>2. /\ n \in Nat /\ n > 0 /\ n <= chunk[s].want /\ n <= conn.win /\ n <= flow[s].win
      /\ n <= MaxSendBuf - buffered[s]
  BY <1>1, FrameSizeBounds DEF SendInv
<1>3. /\ conn' = Shrunk(conn, n)
      /\ flow' = [flow EXCEPT ![s] = Shrunk(@, n)]
      /\ buffered' = [buffered EXCEPT ![s] = @ + n]
      /\ credit' = [credit EXCEPT ![s] = @ + n]
      /\ chunk' = [chunk EXCEPT ![s].want = @ - n]
      /\ pc' = AfterFrame(s, done)
      /\ sst' = IF done /\ chunk[s].eos THEN AfterEndStream(s) ELSE sst
      /\ q' = IF sst'[s] = "gone" THEN LeaveQueues(left, s) ELSE left
      /\ owes' = [owes EXCEPT ![s] = Verdict({}, TRUE, flag)]
      /\ UNCHANGED <<recvDone, failed, initWin, inflight, evt, writeEvt, wpc, rpc>>
  BY Zenon DEF SendFrame
<1>4. flag \in BOOLEAN
  OBVIOUS
<1>5. framed \in QType /\ \A x \in Streams :
         framed.turn[x] = q.turn[x] \/ framed.turn[x] = 0
         \/ (x = s /\ framed.turn[x] \in {1, q.turn[x] + 1})
  <2>1. TurnQueues(s) \in QType /\ TurnsKept(TurnQueues(s), q)
    BY <1>1, ReadyType
  <2>2. framed \in QType /\ framed.turn = [TurnQueues(s).turn EXCEPT ![s] = @ + 1]
    BY <2>1, FramedType, Zenon
  <2>3. TurnQueues(s).turn \in [Streams -> Nat]
    BY <2>1 DEF QType
  <2> HIDE DEF framed
  <2>4. ASSUME NEW x \in Streams
        PROVE  framed.turn[x] = q.turn[x] \/ framed.turn[x] = 0
               \/ (x = s /\ framed.turn[x] \in {1, q.turn[x] + 1})
    <3>1. TurnQueues(s).turn[x] = q.turn[x] \/ TurnQueues(s).turn[x] = 0
      BY <2>1 DEF TurnsKept
    <3>2. x # s => framed.turn[x] = TurnQueues(s).turn[x]
      BY <2>2, <2>3
    <3>3. x = s => framed.turn[x] = TurnQueues(s).turn[x] + 1
      BY <2>2, <2>3
    <3> QED BY <3>1, <3>2, <3>3
  <2> QED BY <2>2, <2>4
<1>6. q' \in QType /\ TurnsKept(q', framed)
  <2> HIDE DEF framed, room, cw, n
  <2>1. lined \in QType /\ TurnsKept(lined, framed)
    BY <1>5, EnqueueType DEF LinedAfterFrame, TurnsKept
  <2> HIDE DEF lined
  <2>2. left \in QType /\ TurnsKept(left, framed)
    BY <2>1, LeaveType, TurnsKeptTransitive
  <2> HIDE DEF left
  <2>3. LeaveQueues(left, s) \in QType /\ TurnsKept(LeaveQueues(left, s), framed)
    BY <2>2, LeaveQueuesType, TurnsKeptTransitive
  <2> QED BY <1>3, <2>2, <2>3
<1> HIDE DEF n, framed, cw, room, lined, leaves, left, flag
<1>7. /\ sst' \in [Streams -> {"idle", "awaiting", "streaming", "halfclosed", "gone"}]
      /\ \A x \in Streams : sst'[x] = sst[x] \/ (x = s /\ sst'[x] # "idle")
  <2>1. CASE done /\ chunk[s].eos
    BY <1>1, <1>3, <2>1 DEF TypeOK, AfterEndStream
  <2>2. CASE ~(done /\ chunk[s].eos)
    BY <1>1, <1>3, <2>2 DEF TypeOK
  <2> QED BY <2>1, <2>2
<1>8. pc' \in [Streams -> {"start", "idle", "try1", "clear", "try2", "wait", "end"}]
  BY <1>1, <1>3, AfterFrameType
<1>9. owes' \in OwesType
  BY <1>1, <1>3, <1>4, OwesUpdate
<1>10. /\ conn \in [win : Int, avail : Int] /\ flow \in [Streams -> [win : Int, avail : Int]]
       /\ buffered \in [Streams -> 0..MaxSendBuf] /\ credit \in [Streams -> Nat]
       /\ chunk \in [Streams -> [want : Nat, eos : BOOLEAN]]
       /\ MaxSendBuf \in Nat /\ MaxWindow \in Nat
  BY <1>1, SendConstants DEF TypeOK
<1>11. /\ conn' = Shrunk(conn, n) /\ flow' = [flow EXCEPT ![s] = Shrunk(@, n)]
       /\ buffered' = [buffered EXCEPT ![s] = @ + n]
       /\ credit' = [credit EXCEPT ![s] = @ + n]
       /\ chunk' = [chunk EXCEPT ![s].want = @ - n]
  BY <1>3
<1>12. /\ conn' \in [win : Int, avail : Int]
       /\ flow' \in [Streams -> [win : Int, avail : Int]]
       /\ AvailEqualsWindow' /\ WindowsBounded'
  <2>1. AvailEqualsWindow /\ WindowsBounded
    BY DEF SendInv
  <2>2. /\ conn' \in [win : Int, avail : Int]
        /\ conn'.avail = conn'.win /\ conn'.win \in 0..MaxWindow
    BY <1>2, <1>10, <1>11, <2>1 DEF Shrunk, AvailEqualsWindow, WindowsBounded
  <2>3. /\ Shrunk(flow[s], n) \in [win : Int, avail : Int]
        /\ Shrunk(flow[s], n).avail = Shrunk(flow[s], n).win
        /\ Shrunk(flow[s], n).win <= MaxWindow
    BY <1>2, <1>10, <2>1 DEF Shrunk, AvailEqualsWindow, WindowsBounded
  <2>4. flow' \in [Streams -> [win : Int, avail : Int]]
    BY <1>10, <1>11, <2>3
  <2>5. ASSUME NEW x \in Streams PROVE flow'[x].avail = flow'[x].win /\ flow'[x].win <= MaxWindow
    <3>1. x # s => flow'[x] = flow[x]
      BY <1>10, <1>11
    <3>2. flow'[s] = Shrunk(flow[s], n)
      BY <1>10, <1>11
    <3> QED BY <2>1, <2>3, <3>1, <3>2 DEF AvailEqualsWindow, WindowsBounded
  <2> QED BY <2>2, <2>4, <2>5 DEF AvailEqualsWindow, WindowsBounded
<1>13. /\ buffered' \in [Streams -> 0..MaxSendBuf] /\ credit' \in [Streams -> Nat]
       /\ chunk' \in [Streams -> [want : Nat, eos : BOOLEAN]]
  <2>1. buffered[s] + n \in 0..MaxSendBuf /\ credit[s] + n \in Nat /\ chunk[s].want - n \in Nat
    BY <1>2, <1>10
  <2>2. buffered' \in [Streams -> 0..MaxSendBuf] /\ credit' \in [Streams -> Nat]
    BY <1>10, <1>11, <2>1
  <2>3. chunk' \in [Streams -> [want : Nat, eos : BOOLEAN]]
    BY <1>10, <1>11, <2>1
  <2> QED BY <2>2, <2>3
<1>14. TypeOK'
  BY <1>1, <1>3, <1>6, <1>7, <1>8, <1>9, <1>12, <1>13 DEF TypeOK, QType, OwesType
<1>15. ASSUME NEW x \in Streams
       PROVE  /\ sst'[x] = "idle" =>
                    buffered'[x] = 0 /\ credit'[x] = 0 /\ inflight'[x] = 0 /\ q'.turn[x] = 0
              /\ x \in Active' =>
                    buffered'[x] = credit'[x] + inflight'[x] /\ q'.turn[x] <= buffered'[x]
  <2>1. /\ q'.turn[x] = framed.turn[x] \/ q'.turn[x] = 0
        /\ q'.turn[x] \in Nat /\ q.turn[x] \in Nat /\ framed.turn[x] \in Nat
        /\ buffered[x] \in Nat /\ credit[x] \in Nat /\ inflight[x] \in Nat
    BY <1>1, <1>5, <1>6 DEF TurnsKept, QType, TypeOK
  <2>2. CASE x = s
    <3>1. buffered[s] = credit[s] + inflight[s] /\ q.turn[s] <= buffered[s]
      BY <1>1 DEF SendInv, BufferLedger, Active
    <3>2. buffered'[s] = buffered[s] + n /\ credit'[s] = credit[s] + n
      BY <1>1, <1>3 DEF TypeOK
    <3>3. q'.turn[s] <= q.turn[s] + 1
      BY <1>5, <2>1, <2>2
    <3> QED BY <1>1, <1>2, <1>3, <1>7, <2>1, <2>2, <3>1, <3>2, <3>3
  <2>3. CASE x # s
    <3>1. buffered'[x] = buffered[x] /\ credit'[x] = credit[x] /\ sst'[x] = sst[x]
      BY <1>1, <1>3, <1>7, <2>3 DEF TypeOK
    <3>2. q'.turn[x] = q.turn[x] \/ q'.turn[x] = 0
      BY <1>5, <2>1, <2>3
    <3> QED BY <1>3, <2>1, <3>1, <3>2 DEF SendInv, BufferLedger, IdleClean, Active
  <2> QED BY <2>2, <2>3
<1>16. BufferLedger' /\ IdleClean'
  BY <1>15 DEF BufferLedger, IdleClean, Active
<1> QED BY <1>12, <1>14, <1>16 DEF SendInv

-----------------------------------------------------------------------------
(* The pumps.                                                                *)

StateType == {"idle", "awaiting", "streaming", "halfclosed", "gone"}
FlowType == [win : Int, avail : Int]

\* A step that closes streams, or changes nothing of the ledger but the turns.
LEMMA CloseInv ==
    ASSUME SendInv,
           UNCHANGED <<initWin, conn, flow, buffered, credit, inflight, evt, writeEvt, pc, chunk>>,
           recvDone' \in [Streams -> BOOLEAN], failed' \in BOOLEAN,
           sst' \in [Streams -> StateType],
           \A s \in Streams : sst'[s] = sst[s] \/ (sst'[s] # "idle" /\ sst[s] # "gone"),
           q' \in QType, TurnsKept(q', q), owes' \in OwesType,
           wpc' \in {"wait", "take", "write", "fail", "exit"},
           rpc' \in {"read", "dying", "flush", "fail", "done"}
    PROVE  SendInv'
<1>1. TypeOK'
  BY DEF SendInv, TypeOK, QType, OwesType, StateType
<1> QED BY <1>1, SameWindows, SameLedger DEF SendInv

\* reset_stream, by any actor.
LEMMA ResetType ==
    ASSUME SendInv, NEW a \in Actors, NEW s \in Active, ResetBy(a, s)
    PROVE  /\ sst' \in [Streams -> StateType]
           /\ \A x \in Streams : sst'[x] = sst[x] \/ (sst'[x] # "idle" /\ sst[x] # "gone")
           /\ q' \in QType /\ TurnsKept(q', q) /\ owes' \in OwesType
<1>1. /\ s \in Streams /\ sst \in [Streams -> StateType] /\ sst[s] # "gone"
      /\ q \in QType /\ owes \in OwesType
  BY DEF Active, SendInv, TypeOK, StateType, QType, OwesType
<1>2. q' \in QType /\ TurnsKept(q', q)
  BY <1>1, LeaveQueuesType DEF ResetBy
<1>3. owes' \in OwesType
  <2>1. LeaveQueuesFlag(q, s, WindowSize(conn)) \in BOOLEAN /\ {s} \in SUBSET Streams
    BY <1>1, FlagType
  <2> QED BY <1>1, <2>1, OwesUpdate DEF ResetBy
<1> QED BY <1>1, <1>2, <1>3 DEF ResetBy, StateType

\* fail_all.
LEMMA FailType ==
    ASSUME SendInv, NEW a \in Actors, FailAll(a)
    PROVE  /\ failed' \in BOOLEAN /\ sst' \in [Streams -> StateType]
           /\ \A x \in Streams : sst'[x] = sst[x] \/ (sst'[x] # "idle" /\ sst[x] # "gone")
           /\ q' \in QType /\ TurnsKept(q', q) /\ owes' \in OwesType
<1>1. sst \in [Streams -> StateType] /\ owes \in OwesType
  BY DEF SendInv, TypeOK, StateType, OwesType
<1>2. q' \in QType /\ TurnsKept(q', q)
  BY DEF FailAll, NoQueues, QType, TurnsKept
<1>3. owes' \in OwesType
  <2>1. Active \in SUBSET Streams
    BY DEF Active
  <2> QED BY <1>1, <2>1, OwesUpdate DEF FailAll
<1>4. /\ sst' = [s \in Streams |-> IF s \in Active THEN "gone" ELSE sst[s]]
      /\ failed' = TRUE
  BY DEF FailAll
<1>5. \A x \in Active : sst[x] # "gone"
  BY DEF Active
<1> QED BY <1>1, <1>2, <1>3, <1>4, <1>5 DEF StateType

\* Frames and endings that close streams.
LEMMA TeardownInv ==
    ASSUME SendInv,
           \/ \E s \in Streams : RecvEndStream(s) \/ RecvReset(s) \/ AppReset(s)
           \/ ReadFails \/ PumpFails
    PROVE  SendInv'
<1>1. /\ "rd" \in Actors /\ "wp" \in Actors /\ "app" \in Actors
      /\ sst \in [Streams -> StateType] /\ q \in QType /\ owes \in OwesType
      /\ recvDone \in [Streams -> BOOLEAN] /\ failed \in BOOLEAN
      /\ wpc \in {"wait", "take", "write", "fail", "exit"}
      /\ rpc \in {"read", "dying", "flush", "fail", "done"}
  BY DEF Actors, SendInv, TypeOK, StateType, QType, OwesType
<1>2. ASSUME NEW s \in Streams, RecvEndStream(s) PROVE SendInv'
  <2>1. q' \in QType /\ TurnsKept(q', q)
    BY <1>1, <1>2, LeaveQueuesType DEF RecvEndStream, TurnsKept
  <2>2. owes' \in OwesType
    <3> DEFINE c == sst[s] = "halfclosed" /\ LeaveQueuesFlag(q, s, WindowSize(conn))
    <3>1. c \in BOOLEAN /\ owes' = [owes EXCEPT !["rd"].cap = c]
      BY <1>2 DEF RecvEndStream
    <3> HIDE DEF c
    <3>2. {} \in SUBSET Streams /\ TRUE \in BOOLEAN
      OBVIOUS
    <3> QED BY <1>1, <3>1, <3>2, OwesUpdate
  <2>3. /\ sst' \in [Streams -> StateType]
        /\ \A x \in Streams : sst'[x] = sst[x] \/ (sst'[x] # "idle" /\ sst[x] # "gone")
        /\ recvDone' \in [Streams -> BOOLEAN]
    BY <1>1, <1>2 DEF RecvEndStream, StateType
  <2> QED BY <1>1, <1>2, <2>1, <2>2, <2>3, CloseInv DEF RecvEndStream
<1>3. ASSUME NEW s \in Streams, RecvReset(s) PROVE SendInv'
  <2>1. q' \in QType /\ TurnsKept(q', q)
    BY <1>1, <1>3, LeaveQueuesType DEF RecvReset
  <2>2. owes' \in OwesType
    <3>1. LeaveQueuesFlag(q, s, WindowSize(conn)) \in BOOLEAN /\ {s} \in SUBSET Streams
      BY <1>1, FlagType
    <3> QED BY <1>1, <1>3, <3>1, OwesUpdate DEF RecvReset
  <2>3. sst[s] # "gone"
    BY <1>3 DEF RecvReset, Active
  <2>4. /\ sst' \in [Streams -> StateType]
        /\ \A x \in Streams : sst'[x] = sst[x] \/ (sst'[x] # "idle" /\ sst[x] # "gone")
    BY <1>1, <1>3, <2>3 DEF RecvReset, StateType
  <2> QED BY <1>1, <1>3, <2>1, <2>2, <2>4, CloseInv DEF RecvReset
<1>4. ASSUME NEW s \in Streams, AppReset(s) PROVE SendInv'
  BY <1>1, <1>4, ResetType, CloseInv DEF AppReset
<1>5. CASE ReadFails
  BY <1>1, <1>5, FailType, CloseInv DEF ReadFails
<1>6. CASE PumpFails
  BY <1>1, <1>6, FailType, CloseInv DEF PumpFails
<1> QED BY <1>2, <1>3, <1>4, <1>5, <1>6

\* A step that grows windows and closes streams, moving no byte.
LEMMA WindowInv ==
    ASSUME SendInv,
           UNCHANGED <<recvDone, failed, buffered, credit, inflight, evt, writeEvt, pc, chunk, wpc>>,
           initWin' \in InitWindows, conn' \in FlowType, flow' \in [Streams -> FlowType],
           AvailEqualsWindow', WindowsBounded',
           sst' \in [Streams -> StateType],
           \A s \in Streams : sst'[s] = sst[s] \/ (sst'[s] # "idle" /\ sst[s] # "gone"),
           q' \in QType, TurnsKept(q', q), owes' \in OwesType,
           rpc' \in {"read", "dying", "flush", "fail", "done"}
    PROVE  SendInv'
<1>1. TypeOK'
  BY DEF SendInv, TypeOK, QType, OwesType, StateType, FlowType
<1> QED BY <1>1, SameLedger DEF SendInv

\* A window grown within the limit.
LEMMA GrownWindow ==
    ASSUME NEW f \in FlowType, NEW d \in Int, f.avail = f.win, ~Overflows(f, d)
    PROVE  /\ Grown(f, d) \in FlowType /\ Grown(f, d).avail = Grown(f, d).win
           /\ Grown(f, d).win = f.win + d /\ Grown(f, d).win <= MaxWindow
BY SendConstants DEF Grown, Overflows, FlowType

\* Stream windows of which each stays, or grows within the limit.
LEMMA GrownWindows ==
    ASSUME SendInv, conn' = conn, flow' \in [Streams -> FlowType],
           \A s \in Streams : flow'[s].avail = flow'[s].win /\ flow'[s].win <= MaxWindow
    PROVE  AvailEqualsWindow' /\ WindowsBounded'
BY DEF SendInv, AvailEqualsWindow, WindowsBounded

\* The frames that open streams and change windows.
LEMMA WindowFramesInv ==
    ASSUME SendInv,
           \/ \E s \in Streams : RecvRequest(s)
           \/ \E n \in Increments : RecvConnWindowUpdate(n)
           \/ \E s \in Streams, n \in Increments : RecvStreamWindowUpdate(s, n)
           \/ \E w \in InitWindows : RecvSettings(w)
    PROVE  SendInv'
<1>1. /\ "rd" \in Actors /\ TurnsKept(q, q)
      /\ sst \in [Streams -> StateType] /\ q \in QType /\ owes \in OwesType
      /\ conn \in FlowType /\ flow \in [Streams -> FlowType] /\ initWin \in InitWindows
      /\ rpc \in {"read", "dying", "flush", "fail", "done"}
      /\ AvailEqualsWindow /\ WindowsBounded
  BY DEF Actors, SendInv, TypeOK, StateType, QType, OwesType, FlowType, TurnsKept
<1>2. \A s \in Streams : flow[s].avail = flow[s].win /\ flow[s].win <= MaxWindow
  BY <1>1 DEF AvailEqualsWindow, WindowsBounded
<1>3. InitWindows \subseteq 0..MaxWindow /\ Increments \subseteq Nat /\ MaxWindow \in Nat
  BY SendConstants
<1>4. \A S \in SUBSET Streams : \A w \in BOOLEAN :
         /\ [owes EXCEPT !["rd"].set = S] \in OwesType
         /\ [owes EXCEPT !["rd"].wake = w] \in OwesType
         /\ [owes EXCEPT !["rd"] = Verdict(S, w, FALSE)] \in OwesType
  BY <1>1, OwesUpdate
<1>5. ASSUME NEW s \in Streams, RecvRequest(s) PROVE SendInv'
  <2>1. flow' = [flow EXCEPT ![s] = [win |-> initWin, avail |-> initWin]]
    BY <1>5 DEF RecvRequest
  <2>2. initWin \in Int /\ initWin <= MaxWindow
    BY <1>1, <1>3
  <2>3. /\ flow' \in [Streams -> FlowType]
        /\ \A x \in Streams : flow'[x].avail = flow'[x].win /\ flow'[x].win <= MaxWindow
    BY <1>1, <1>2, <2>1, <2>2 DEF FlowType
  <2>4. /\ sst' \in [Streams -> StateType]
        /\ \A x \in Streams : sst'[x] = sst[x] \/ (sst'[x] # "idle" /\ sst[x] # "gone")
    BY <1>1, <1>5 DEF RecvRequest, StateType
  <2>5. conn' = conn
    BY <1>5 DEF RecvRequest
  <2>6. AvailEqualsWindow' /\ WindowsBounded'
    BY <2>3, <2>5, GrownWindows
  <2> QED BY <1>1, <1>5, <2>3, <2>4, <2>6, WindowInv DEF RecvRequest
<1>6. ASSUME NEW n \in Increments, RecvConnWindowUpdate(n) PROVE SendInv'
  <2>1. CASE Overflows(conn, n)
    <3>1. /\ UNCHANGED <<conn, q, flow, sst, initWin>> /\ rpc' = "dying"
          /\ owes' = [owes EXCEPT !["rd"].wake = TRUE]
      BY <1>6, <2>1 DEF RecvConnWindowUpdate, ConnectionError
    <3>2. owes' \in OwesType
      BY <1>4, <3>1
    <3>3. AvailEqualsWindow' /\ WindowsBounded'
      BY <1>1, <3>1, SameWindows
    <3> QED BY <1>1, <1>6, <3>1, <3>2, <3>3, WindowInv DEF RecvConnWindowUpdate
  <2>2. CASE ~Overflows(conn, n)
    <3> DEFINE ad == AdmitCapacityFront(q, WindowSize(conn'))
               p == PruneSend(ad)
               S == IF p.send = <<>> THEN {} ELSE {Head(p.send)}
    <3>1. /\ conn' = Grown(conn, n) /\ q' = p /\ owes' = [owes EXCEPT !["rd"].set = S]
          /\ UNCHANGED <<flow, sst, initWin, rpc>>
      BY <1>6, <2>2 DEF RecvConnWindowUpdate
    <3>2. ad \in QType /\ TurnsKept(ad, q)
      BY <1>1, AdmitType
    <3>3. p \in QType /\ TurnsKept(p, q)
      BY <3>2, PruneType, TurnsKeptTransitive
    <3> HIDE DEF ad, p
    <3>4. S \in SUBSET Streams
      <4>1. p.send \in Seq(Streams)
        BY <3>3 DEF QType
      <4> QED BY <4>1
    <3> HIDE DEF S
    <3>5. owes' \in OwesType
      BY <1>4, <3>1, <3>4
    <3>6. conn.avail = conn.win /\ conn.win \in 0..MaxWindow /\ n \in Nat
      BY <1>1, <1>3 DEF AvailEqualsWindow, WindowsBounded
    <3>7. /\ conn' \in FlowType /\ conn'.avail = conn'.win /\ conn'.win = conn.win + n
          /\ conn'.win <= MaxWindow
      BY <1>1, <2>2, <3>1, <3>6, GrownWindow
    <3>8. AvailEqualsWindow' /\ WindowsBounded'
      BY <1>1, <1>3, <3>1, <3>6, <3>7 DEF AvailEqualsWindow, WindowsBounded
    <3> QED BY <1>1, <1>6, <3>1, <3>3, <3>5, <3>7, <3>8, WindowInv DEF RecvConnWindowUpdate
  <2> QED BY <2>1, <2>2
<1>7. ASSUME NEW s \in Streams, NEW n \in Increments, RecvStreamWindowUpdate(s, n) PROVE SendInv'
  <2>1. s \in Active /\ conn' = conn /\ initWin' = initWin /\ rpc' = rpc
    BY <1>7 DEF RecvStreamWindowUpdate
  <2>2. CASE Overflows(flow[s], n)
    <3>1. ResetBy("rd", s) /\ flow' = flow
      BY <1>7, <2>2 DEF RecvStreamWindowUpdate
    <3>2. AvailEqualsWindow' /\ WindowsBounded'
      BY <1>1, <2>1, <3>1, SameWindows
    <3> QED BY <1>1, <1>7, <2>1, <3>1, <3>2, ResetType, WindowInv DEF RecvStreamWindowUpdate
  <2>3. CASE ~Overflows(flow[s], n)
    <3>1. /\ flow' = [flow EXCEPT ![s] = Grown(@, n)] /\ UNCHANGED <<sst, q>>
          /\ owes' = [owes EXCEPT !["rd"].set = {s}]
      BY <1>7, <2>3 DEF RecvStreamWindowUpdate
    <3>2. owes' \in OwesType
      BY <1>4, <3>1
    <3>3. flow[s] \in FlowType /\ n \in Int
      BY <1>1, <1>3
    <3>4. /\ Grown(flow[s], n) \in FlowType /\ Grown(flow[s], n).avail = Grown(flow[s], n).win
          /\ Grown(flow[s], n).win <= MaxWindow
      BY <1>2, <2>3, <3>3, GrownWindow
    <3>5. /\ flow' \in [Streams -> FlowType]
          /\ \A x \in Streams : flow'[x].avail = flow'[x].win /\ flow'[x].win <= MaxWindow
      BY <1>1, <1>2, <3>1, <3>4
    <3>6. AvailEqualsWindow' /\ WindowsBounded'
      BY <2>1, <3>5, GrownWindows
    <3> QED BY <1>1, <1>7, <2>1, <3>1, <3>2, <3>5, <3>6, WindowInv DEF RecvStreamWindowUpdate
  <2> QED BY <2>2, <2>3
<1>8. ASSUME NEW w \in InitWindows, RecvSettings(w) PROVE SendInv'
  <2> DEFINE d == w - initWin
             over == {s \in SendOpen : d > 0 /\ Overflows(flow[s], d)}
  <2>1. initWin' = w /\ UNCHANGED <<sst, conn, q>> /\ d \in Int
    BY <1>1, <1>3, <1>8 DEF RecvSettings
  <2>2. ASSUME NEW s \in Streams, s \notin over, s \in SendOpen
        PROVE  /\ Grown(flow[s], d) \in FlowType
               /\ Grown(flow[s], d).avail = Grown(flow[s], d).win
               /\ Grown(flow[s], d).win <= MaxWindow
    <3>1. flow[s] \in FlowType /\ flow[s].win \in Int
      BY <1>1 DEF FlowType
    <3>2. ~Overflows(flow[s], d)
      BY <1>2, <1>3, <2>1, <2>2, <3>1 DEF Overflows
    <3> QED BY <1>2, <2>1, <3>1, <3>2, GrownWindow
  <2>3. /\ owes' \in OwesType
        /\ rpc' \in {"read", "dying", "flush", "fail", "done"}
        /\ \E grown \in SUBSET (SendOpen \ over) :
              flow' = [s \in Streams |-> IF s \in grown THEN Grown(flow[s], d) ELSE flow[s]]
    <3>1. CASE over = {}
      <4> DEFINE S == IF d > 0 THEN SendOpen ELSE {}
      <4>1. /\ flow' = [s \in Streams |-> IF s \in SendOpen THEN Grown(flow[s], d) ELSE flow[s]]
            /\ owes' = [owes EXCEPT !["rd"] = Verdict(S, TRUE, FALSE)]
            /\ rpc' = rpc
        BY <1>8, <3>1 DEF RecvSettings
      <4>2. S \in SUBSET Streams
        BY DEF SendOpen
      <4> HIDE DEF S
      <4>3. owes' \in OwesType
        BY <1>4, <4>1, <4>2
      <4>4. SendOpen \in SUBSET (SendOpen \ over)
        BY <3>1
      <4> QED BY <1>1, <4>1, <4>3, <4>4
    <3>2. CASE over # {}
      <4>1. /\ \E visited \in SUBSET (SendOpen \ over) :
                  flow' = [s \in Streams |->
                              IF s \in visited THEN Grown(flow[s], d) ELSE flow[s]]
            /\ ConnectionError
        BY <1>8, <3>2 DEF RecvSettings
      <4>2. owes' = [owes EXCEPT !["rd"].wake = TRUE] /\ rpc' = "dying"
        BY <4>1 DEF ConnectionError
      <4>3. owes' \in OwesType
        BY <1>4, <4>2
      <4> QED BY <4>1, <4>2, <4>3
    <3> QED BY <3>1, <3>2
  <2>4. PICK grown \in SUBSET (SendOpen \ over) :
           flow' = [s \in Streams |-> IF s \in grown THEN Grown(flow[s], d) ELSE flow[s]]
    BY <2>3
  <2>5. ASSUME NEW s \in Streams
        PROVE  /\ flow'[s] \in FlowType
               /\ flow'[s].avail = flow'[s].win /\ flow'[s].win <= MaxWindow
    BY <1>1, <1>2, <2>2, <2>4
  <2>6. flow' \in [Streams -> FlowType]
    BY <2>4, <2>5
  <2>7. AvailEqualsWindow' /\ WindowsBounded'
    BY <2>1, <2>5, <2>6, GrownWindows
  <2> QED BY <1>1, <1>8, <2>1, <2>3, <2>6, <2>7, WindowInv DEF RecvSettings
<1> QED BY <1>5, <1>6, <1>7, <1>8

\* A step that moves bytes from the queue to the batch being written, or credits the
\* batch, keeps the rest of the state.
LEMMA BatchInv ==
    ASSUME SendInv,
           UNCHANGED <<sst, recvDone, failed, initWin, conn, flow, evt, pc, chunk>>,
           buffered' \in [Streams -> 0..MaxSendBuf], credit' \in [Streams -> Nat],
           inflight' \in [Streams -> Nat], q' \in QType, owes' \in OwesType,
           writeEvt' \in BOOLEAN,
           wpc' \in {"wait", "take", "write", "fail", "exit"},
           rpc' \in {"read", "dying", "flush", "fail", "done"},
           \A s \in Streams : sst[s] = "idle" =>
               buffered'[s] = 0 /\ credit'[s] = 0 /\ inflight'[s] = 0 /\ q'.turn[s] = 0,
           \A s \in Active :
               buffered'[s] = credit'[s] + inflight'[s] /\ q'.turn[s] <= buffered'[s]
    PROVE  SendInv'
<1>1. TypeOK'
  BY DEF SendInv, TypeOK, QType, OwesType
<1>2. BufferLedger' /\ IdleClean'
  BY DEF BufferLedger, IdleClean, Active
<1> QED BY <1>1, <1>2, SameWindows DEF SendInv

\* take_pending: the queued bytes become the batch's.
LEMMA TakeInv ==
    ASSUME SendInv, FlushTake \/ PumpTake
    PROVE  SendInv'
<1>1. /\ TakePending
      /\ UNCHANGED <<sst, recvDone, failed, initWin, conn, flow, evt, pc, chunk>>
      /\ UNCHANGED <<buffered, q, owes, writeEvt>>
  BY DEF FlushTake, PumpTake
<1>2. /\ buffered \in [Streams -> 0..MaxSendBuf] /\ credit \in [Streams -> Nat]
      /\ inflight \in [Streams -> Nat] /\ q \in QType /\ owes \in OwesType
      /\ writeEvt \in BOOLEAN
      /\ wpc' \in {"wait", "take", "write", "fail", "exit"}
      /\ rpc' \in {"read", "dying", "flush", "fail", "done"}
  BY DEF SendInv, TypeOK, QType, OwesType, FlushTake, PumpTake
<1>3. /\ inflight' = [s \in Streams |-> inflight[s] + credit[s]]
      /\ credit' = [s \in Streams |-> 0]
  BY <1>1 DEF TakePending
<1>4. inflight' \in [Streams -> Nat] /\ credit' \in [Streams -> Nat]
  BY <1>2, <1>3
<1>5. \A s \in Streams : sst[s] = "idle" =>
         buffered'[s] = 0 /\ credit'[s] = 0 /\ inflight'[s] = 0 /\ q'.turn[s] = 0
  BY <1>1, <1>2, <1>3 DEF SendInv, IdleClean
<1>6. \A s \in Active :
         buffered'[s] = credit'[s] + inflight'[s] /\ q'.turn[s] <= buffered'[s]
  <2>1. ASSUME NEW s \in Active
        PROVE  buffered'[s] = credit'[s] + inflight'[s] /\ q'.turn[s] <= buffered'[s]
    <3>1. s \in Streams /\ credit[s] \in Nat /\ inflight[s] \in Nat
      BY <1>2 DEF Active
    <3>2. buffered[s] = credit[s] + inflight[s] /\ q.turn[s] <= buffered[s]
      BY DEF SendInv, BufferLedger
    <3> QED BY <1>1, <1>3, <3>1, <3>2
  <2> QED BY <2>1
<1> QED BY <1>1, <1>2, <1>4, <1>5, <1>6, BatchInv

\* credit_written: the batch's bytes leave the buffers, and the turns they paid for end.
LEMMA CreditInv ==
    ASSUME SendInv, FlushWritten \/ PumpWritten
    PROVE  SendInv'
<1>1. PICK a \in {"rd", "wp"} : CreditWritten(a)
  BY DEF FlushWritten, PumpWritten
<1>2. /\ UNCHANGED <<sst, recvDone, failed, initWin, conn, flow, evt, pc, chunk>>
      /\ UNCHANGED <<credit, writeEvt>>
  BY DEF FlushWritten, PumpWritten
<1>3. /\ buffered \in [Streams -> 0..MaxSendBuf] /\ credit \in [Streams -> Nat]
      /\ inflight \in [Streams -> Nat] /\ q \in QType /\ owes \in OwesType
      /\ writeEvt \in BOOLEAN /\ MaxSendBuf \in Nat
      /\ wpc' \in {"wait", "take", "write", "fail", "exit"}
      /\ rpc' \in {"read", "dying", "flush", "fail", "done"}
  BY SendConstants DEF SendInv, TypeOK, QType, OwesType, FlushWritten, PumpWritten
<1>4. /\ inflight' = [s \in Streams |-> 0]
      /\ buffered' = [s \in Streams |->
            IF s \notin Credited THEN buffered[s]
            ELSE IF buffered[s] <= inflight[s] THEN 0 ELSE buffered[s] - inflight[s]]
      /\ q' = [q EXCEPT !.turn = [s \in Streams |-> IF s \in Credited THEN 0 ELSE q.turn[s]]]
      /\ owes' = [owes EXCEPT ![a].set = Credited]
  BY <1>1, <1>3 DEF CreditWritten, QType
<1>5. Credited \in SUBSET Streams /\ a \in Actors /\ Credited \in SUBSET Active
  BY DEF Credited, Active, Actors
<1>6. owes' \in OwesType
  BY <1>3, <1>4, <1>5, OwesUpdate
<1>7. /\ q' \in QType
      /\ \A s \in Streams : q'.turn[s] = IF s \in Credited THEN 0 ELSE q.turn[s]
  BY <1>3, <1>4 DEF QType
<1>8. inflight' \in [Streams -> Nat]
  BY <1>4
<1>9. buffered' \in [Streams -> 0..MaxSendBuf]
  <2>1. ASSUME NEW s \in Streams PROVE buffered'[s] \in 0..MaxSendBuf
    <3>1. buffered[s] \in 0..MaxSendBuf /\ inflight[s] \in Nat
      BY <1>3
    <3> QED BY <1>3, <1>4, <3>1
  <2> QED BY <1>4, <2>1
<1>10. \A s \in Streams : sst[s] = "idle" =>
          buffered'[s] = 0 /\ credit'[s] = 0 /\ inflight'[s] = 0 /\ q'.turn[s] = 0
  <2>1. ASSUME NEW s \in Streams, sst[s] = "idle" PROVE s \notin Credited
    BY <2>1 DEF Credited, Active
  <2> QED BY <1>2, <1>4, <1>7, <2>1 DEF SendInv, IdleClean
<1>11. ASSUME NEW s \in Active
       PROVE  buffered'[s] = credit'[s] + inflight'[s] /\ q'.turn[s] <= buffered'[s]
  <2>1. s \in Streams /\ credit[s] \in Nat /\ inflight[s] \in Nat
    BY <1>3 DEF Active
  <2>2. /\ buffered[s] = credit[s] + inflight[s] /\ q.turn[s] <= buffered[s]
        /\ s \in Credited <=> inflight[s] > 0
    BY DEF SendInv, BufferLedger, Credited
  <2> QED BY <1>2, <1>4, <1>7, <2>1, <2>2
<1> QED BY <1>2, <1>3, <1>6, <1>7, <1>8, <1>9, <1>10, <1>11, BatchInv

\* The remaining steps of the pumps move nothing but their own place.
LEMMA PumpPlaceInv ==
    ASSUME SendInv, FlushFails \/ PumpWake
    PROVE  SendInv'
<1>1. /\ UNCHANGED <<stateVars, evt, pc, chunk, owes>>
      /\ UNCHANGED <<sst, recvDone, failed, initWin, conn, flow, buffered, credit, inflight, q>>
  BY DEF FlushFails, PumpWake, stateVars
<1>2. /\ buffered \in [Streams -> 0..MaxSendBuf] /\ credit \in [Streams -> Nat]
      /\ inflight \in [Streams -> Nat] /\ q \in QType /\ owes \in OwesType
      /\ writeEvt' \in BOOLEAN
      /\ wpc' \in {"wait", "take", "write", "fail", "exit"}
      /\ rpc' \in {"read", "dying", "flush", "fail", "done"}
  BY DEF SendInv, TypeOK, QType, OwesType, FlushFails, PumpWake
<1> QED BY <1>1, <1>2, BatchInv DEF SendInv, IdleClean, BufferLedger

-----------------------------------------------------------------------------
(* The theorems.                                                             *)

\* Every step of every actor keeps the inductive invariant.
LEMMA NextInv == SendInv /\ scene \in Scenarios /\ [Next]_vars => SendInv'
<1> SUFFICES ASSUME SendInv, scene \in Scenarios, [Next]_vars PROVE SendInv'
  OBVIOUS
<1>1. ASSUME NEW s \in Streams, Open(s) \/ OpenStopped(s) \/ NextChunk(s) PROVE SendInv'
  BY <1>1, OpenInv
<1>2. ASSUME NEW s \in Streams, SenderStep(s) PROVE SendInv'
  BY <1>2, WaitInv, EmptyInv, FrameInv DEF SenderStep, SendData
<1>3. ASSUME NEW s \in Streams, AppReset(s) PROVE SendInv'
  BY <1>3, TeardownInv
<1>4. CASE ReadStep
  BY <1>4, TeardownInv, WindowFramesInv, TakeInv, CreditInv, PumpPlaceInv DEF ReadStep
<1>5. CASE PumpStep
  BY <1>5, TeardownInv, TakeInv, CreditInv, PumpPlaceInv DEF PumpStep
<1>6. ASSUME NEW a \in Actors, Act(a) PROVE SendInv'
  BY <1>6, ActInv
<1>7. CASE UNCHANGED vars
  <2>1. UNCHANGED <<sst, recvDone, failed, initWin, conn, flow, buffered, credit, inflight, q,
                    evt, writeEvt, pc, chunk, wpc, rpc, owes>>
    BY <1>7 DEF vars
  <2>2. TurnsKept(q', q)
    BY <2>1 DEF TurnsKept
  <2>3. TypeOK'
    BY <2>1 DEF SendInv, TypeOK
  <2> QED BY <2>1, <2>2, <2>3, SameWindows, SameLedger DEF SendInv
<1> QED BY <1>1, <1>2, <1>3, <1>4, <1>5, <1>6, <1>7 DEF Next

\* Every reachable state of the sending half, whatever the streams, windows, chunks
\* and schedule, satisfies the inductive invariant.
THEOREM SendInvariant == Spec => []SendInv
<1>1. Init => scene \in Scenarios
  BY DEF Init
<1>2. scene \in Scenarios /\ [Next]_vars => (scene \in Scenarios)'
  BY DEF Next, vars
<1> QED BY <1>1, <1>2, InitInv, NextInv, PTL DEF Spec

\* Type correctness; in particular send_buffered never exceeds max_send_buf_size.
THEOREM SendTypeCorrect == Spec => []TypeOK
<1>1. SendInv => TypeOK
  BY DEF SendInv
<1> QED BY <1>1, SendInvariant, PTL

\* The available capacity of each send window equals the window: stream_room may read
\* either, as its DIVERGENCE comment claims.
THEOREM SendAvailEqualsWindow == Spec => []AvailEqualsWindow
<1>1. SendInv => AvailEqualsWindow
  BY DEF SendInv
<1> QED BY <1>1, SendInvariant, PTL

\* No interleaving overruns the connection window, and no window passes the limit.
THEOREM SendWindowsBounded == Spec => []WindowsBounded
<1>1. SendInv => WindowsBounded
  BY DEF SendInv
<1> QED BY <1>1, SendInvariant, PTL

\* send_buffered is exactly the bytes queued or being written, and covers the frames of
\* the turn: a sender paused at the burst bound has a credit coming.
THEOREM SendBufferLedger == Spec => []BufferLedger
<1>1. SendInv => BufferLedger
  BY DEF SendInv
<1> QED BY <1>1, SendInvariant, PTL

\* All accounts of the sending half hold together, as the model-checked run states them.
THEOREM SendAccounts == Spec => []SendLedgers
<1>1. SendInv => SendLedgers
  BY DEF SendInv, SendLedgers
<1> QED BY <1>1, SendInvariant, PTL
-----------------------------------------------------------------------------
(* The queues and the wake-ups: what holds between the steps.               *)

\* A stream in a queue is one whose sender is in the middle of a chunk.
QueuedMidChunk ==
    \A s \in Streams : q.inSend[s] \/ q.inCap[s] =>
        pc[s] \in {"try1", "clear", "try2", "wait"} /\ chunk[s].want > 0

\* No verdict names the stream, and its sender is parked with the event cleared.
Unnamed(s) == \A a \in Actors : s \notin owes[a].set
Asleep(s) == pc[s] = "wait" /\ ~evt[s] /\ Unnamed(s)

CapOwed == \E a \in Actors : owes[a].cap

\* A sleeper's stream may still send; one in neither queue lacks room of its own.
SleepersOK ==
    \A s \in Streams : Asleep(s) =>
        /\ sst[s] = "streaming"
        /\ rpc = "read" /\ ~q.inSend[s] /\ ~q.inCap[s] => StreamRoom(s) = 0

\* The front of the rotation sleeps only as long as the burst bound holds it or a wake
\* is due; waiters for connection window that is there have somebody before them.
RotationMoves ==
    /\ q.send # <<>> => CapOwed \/ ~Asleep(Head(q.send)) \/ q.turn[Head(q.send)] > 0
    /\ q.cap # <<>> /\ WindowSize(conn) > 0 => q.send # <<>> \/ CapOwed

\* A pump that takes or writes has acted on its last verdict.
PumpsOweNothing ==
    /\ wpc \in {"take", "write"} => Free("wp")
    /\ rpc = "flush" => Free("rd")

\* Queued bytes have a wake of the write pump due, or the pump is about to take them.
BytesOnTheWay ==
    (\E s \in Streams : credit[s] > 0) =>
        writeEvt \/ wpc \in {"take", "fail", "exit"} \/ \E a \in Actors : owes[a].wake

\* A batch that was taken is being written, or the connection is failing.
BatchHeld ==
    (\E s \in Streams : inflight[s] > 0) =>
        wpc = "write" \/ rpc \in {"flush", "fail"} \/ failed

\* Nothing is stored on a failed connection, and a pump that is done has failed it.
FailedIsEmpty ==
    /\ failed => Active = {}
    /\ rpc = "done" \/ wpc = "exit" => failed

\* The inductive invariant: the queues; who sleeps and who is next; the pumps' books.
QueueInv == QueuesMatchFlags /\ QueuedMidChunk
WakeCore == QueueInv /\ SleepersOK /\ RotationMoves
BooksInv == PumpsOweNothing /\ BytesOnTheWay /\ BatchHeld /\ FailedIsEmpty
WakeInv == QueueInv /\ SleepersOK /\ RotationMoves /\ BooksInv

-----------------------------------------------------------------------------
(* The queues and their flags.                                               *)

\* A queue without repetition holds exactly the streams that are marked.
Holds(queue, marked) ==
    /\ \A s \in Streams : marked[s] <=> \E i \in DOMAIN queue : queue[i] = s
    /\ \A i, j \in DOMAIN queue : queue[i] = queue[j] => i = j

\* Both queues of a record, whatever the state of their streams.
InLine(qq) == qq \in QType /\ Holds(qq.send, qq.inSend) /\ Holds(qq.cap, qq.inCap)

Marks == [Streams -> BOOLEAN]

\* Nothing is dropped from a queue of live streams: the front is live.
LEMMA FromFirstAll ==
    ASSUME NEW queue \in Seq(Streams), NEW live, \A i \in 1..Len(queue) : queue[i] \in live
    PROVE  FromFirst(queue, live) = queue
<1> DEFINE at == {i \in 1..Len(queue) : queue[i] \in live}
           k == CHOOSE i \in at : \A j \in at : i <= j
<1>1. at = 1..Len(queue)
  OBVIOUS
<1>2. CASE queue = <<>>
  <2>1. at = {}
    BY <1>1, <1>2
  <2> QED BY <1>2, <2>1 DEF FromFirst
<1>3. CASE queue # <<>>
  <2>1. Len(queue) \in Nat /\ Len(queue) >= 1
    BY <1>3
  <2>2. 1 \in at /\ \A j \in at : 1 <= j
    BY <1>1, <2>1
  <2>3. k \in at /\ \A j \in at : k <= j
    BY <2>2
  <2>4. k \in Nat
    BY <2>3, <1>1
  <2>5. k = 1
    BY <2>2, <2>3, <2>4
  <2>6. FromFirst(queue, live) = SubSeq(queue, k, Len(queue))
    BY <2>2 DEF FromFirst
  <2> HIDE DEF k
  <2>7. SubSeq(queue, 1, Len(queue)) = queue
    BY <2>1
  <2> QED BY <2>5, <2>6, <2>7
<1> QED BY <1>2, <1>3

\* Appending a stream that is not marked, and marking it.
LEMMA HoldsAppend ==
    ASSUME NEW queue \in Seq(Streams), NEW marked \in Marks, Holds(queue, marked),
           NEW s \in Streams, ~marked[s]
    PROVE  Holds(Append(queue, s), [marked EXCEPT ![s] = TRUE])
<1> DEFINE longer == Append(queue, s)
<1>1. /\ Len(longer) = Len(queue) + 1 /\ longer[Len(queue) + 1] = s
      /\ \A i \in 1..Len(queue) : longer[i] = queue[i]
      /\ DOMAIN longer = 1..(Len(queue) + 1) /\ DOMAIN queue = 1..Len(queue)
      /\ Len(queue) \in Nat
  OBVIOUS
<1>2. \A i \in DOMAIN queue : queue[i] # s
  BY DEF Holds
<1> HIDE DEF longer
<1>3. ASSUME NEW x \in Streams
      PROVE  [marked EXCEPT ![s] = TRUE][x] <=> \E i \in DOMAIN longer : longer[i] = x
  <2>1. CASE x = s
    BY <1>1, <2>1 DEF Marks
  <2>2. CASE x # s
    <3>1. [marked EXCEPT ![s] = TRUE][x] <=> marked[x]
      BY <2>2 DEF Marks
    <3>2. marked[x] <=> \E i \in DOMAIN queue : queue[i] = x
      BY DEF Holds
    <3>3. (\E i \in DOMAIN queue : queue[i] = x) <=> \E i \in DOMAIN longer : longer[i] = x
      BY <1>1, <2>2
    <3> QED BY <3>1, <3>2, <3>3
  <2> QED BY <2>1, <2>2
<1>4. ASSUME NEW i \in DOMAIN longer, NEW j \in DOMAIN longer, longer[i] = longer[j]
      PROVE  i = j
  <2>1. CASE i \in DOMAIN queue /\ j \in DOMAIN queue
    BY <1>1, <1>4, <2>1 DEF Holds
  <2>2. CASE i \notin DOMAIN queue \/ j \notin DOMAIN queue
    BY <1>1, <1>2, <1>4, <2>2
  <2> QED BY <2>1, <2>2
<1> QED BY <1>3, <1>4 DEF Holds, longer

\* Taking the front away.
LEMMA HoldsTail ==
    ASSUME NEW queue \in Seq(Streams), queue # <<>>, NEW marked \in Marks, Holds(queue, marked)
    PROVE  /\ Head(queue) \in Streams /\ marked[Head(queue)] /\ Tail(queue) \in Seq(Streams)
           /\ Holds(Tail(queue), [marked EXCEPT ![Head(queue)] = FALSE])
<1> DEFINE rest == Tail(queue)
           h == Head(queue)
<1>1. /\ h \in Streams /\ h = queue[1] /\ 1 \in DOMAIN queue
      /\ DOMAIN queue = 1..Len(queue) /\ DOMAIN rest = 1..(Len(queue) - 1)
      /\ \A i \in DOMAIN rest : rest[i] = queue[i + 1]
      /\ Len(queue) \in Nat /\ rest \in Seq(Streams)
  OBVIOUS
<1>2. marked[h]
  BY <1>1 DEF Holds
<1> HIDE DEF rest, h
<1>3. ASSUME NEW x \in Streams
      PROVE  [marked EXCEPT ![h] = FALSE][x] <=> \E i \in DOMAIN rest : rest[i] = x
  <2>1. CASE x = h
    <3>1. ASSUME NEW i \in DOMAIN rest, rest[i] = h
          PROVE  FALSE
      <4>1. i + 1 \in DOMAIN queue /\ queue[i + 1] = queue[1] /\ i + 1 # 1
        BY <1>1, <3>1
      <4> QED BY <1>1, <4>1 DEF Holds
    <3> QED BY <1>1, <2>1, <3>1 DEF Marks
  <2>2. CASE x # h
    <3>1. [marked EXCEPT ![h] = FALSE][x] <=> marked[x]
      BY <2>2 DEF Marks
    <3>2. marked[x] <=> \E i \in DOMAIN queue : queue[i] = x
      BY DEF Holds
    <3>3. ASSUME NEW i \in DOMAIN queue, queue[i] = x
          PROVE  \E j \in DOMAIN rest : rest[j] = x
      <4>1. i # 1
        BY <1>1, <2>2, <3>3
      <4>2. i - 1 \in DOMAIN rest /\ (i - 1) + 1 = i
        BY <1>1, <4>1
      <4>3. rest[i - 1] = x
        BY <1>1, <4>2, <3>3
      <4> QED BY <4>2, <4>3
    <3>4. ASSUME NEW j \in DOMAIN rest, rest[j] = x
          PROVE  \E i \in DOMAIN queue : queue[i] = x
      <4>1. j + 1 \in DOMAIN queue /\ queue[j + 1] = x
        BY <1>1, <3>4
      <4> QED BY <4>1
    <3> QED BY <3>1, <3>2, <3>3, <3>4
  <2> QED BY <2>1, <2>2
<1>4. ASSUME NEW i \in DOMAIN rest, NEW j \in DOMAIN rest, rest[i] = rest[j]
      PROVE  i = j
  <2>1. i \in Int /\ j \in Int /\ i + 1 \in DOMAIN queue /\ j + 1 \in DOMAIN queue
    BY <1>1
  <2>2. queue[i + 1] = queue[j + 1]
    BY <1>1, <1>4
  <2>3. i + 1 = j + 1
    BY <2>1, <2>2 DEF Holds
  <2> QED BY <2>1, <2>3
<1>5. Holds(rest, [marked EXCEPT ![h] = FALSE])
  BY <1>3, <1>4 DEF Holds
<1> QED BY <1>1, <1>2, <1>5 DEF rest, h

\* What follows a place of a queue.
LEMMA AfterPlace ==
    ASSUME NEW queue \in Seq(Streams), NEW k \in 1..Len(queue)
    PROVE  /\ SubSeq(queue, k + 1, Len(queue)) \in Seq(Streams)
           /\ Len(SubSeq(queue, k + 1, Len(queue))) = Len(queue) - k
           /\ \A j \in 1..(Len(queue) - k) : SubSeq(queue, k + 1, Len(queue))[j] = queue[k + j]
<1> DEFINE n == Len(queue)
           m == k + 1
<1>1. m \in Int /\ n \in Int /\ k \in Int /\ k <= n /\ \A i \in m..n : queue[i] \in Streams
  OBVIOUS
<1> HIDE DEF m, n
<1>2. /\ SubSeq(queue, m, n) \in Seq(Streams)
      /\ Len(SubSeq(queue, m, n)) = IF m <= n THEN n - m + 1 ELSE 0
      /\ \A j \in 1..(n - m + 1) : SubSeq(queue, m, n)[j] = queue[m + j - 1]
  BY <1>1, SubSeqProperties
<1>3. n - m + 1 = n - k /\ (m <= n \/ n - k = 0)
  BY <1>1 DEF m
<1>4. \A j \in Int : m + j - 1 = k + j
  BY <1>1 DEF m
<1>5. \A j \in 1..(n - k) : SubSeq(queue, m, n)[j] = queue[k + j]
  BY <1>1, <1>2, <1>3, <1>4
<1> QED BY <1>2, <1>3, <1>5 DEF m, n

\* Removing a marked stream from wherever it stands.
LEMMA HoldsWithout ==
    ASSUME NEW queue \in Seq(Streams), NEW marked \in Marks, Holds(queue, marked),
           NEW s \in Streams, marked[s]
    PROVE  /\ Holds(Without(queue, s), [marked EXCEPT ![s] = FALSE])
           /\ Head(queue) # s => Without(queue, s) # <<>> /\ Head(Without(queue, s)) = Head(queue)
<1> DEFINE at == {i \in 1..Len(queue) : queue[i] = s}
           k == CHOOSE i \in at : TRUE
           cut == Without(queue, s)
<1>1. DOMAIN queue = 1..Len(queue) /\ Len(queue) \in Nat
  OBVIOUS
<1>2. PICK i \in DOMAIN queue : queue[i] = s
  BY DEF Holds
<1>3. at # {}
  BY <1>1, <1>2
<1>4. k \in 1..Len(queue) /\ queue[k] = s
  BY <1>3
<1> HIDE DEF k
<1> DEFINE front == SubSeq(queue, 1, k - 1)
           back == SubSeq(queue, k + 1, Len(queue))
<1>5. cut = front \o back
  BY <1>3 DEF Without, k
<1>6. front \in Seq(Streams) /\ Len(front) = k - 1 /\ \A j \in 1..(k - 1) : front[j] = queue[j]
  BY <1>1, <1>4
<1>7. /\ back \in Seq(Streams) /\ Len(back) = Len(queue) - k
      /\ \A j \in 1..(Len(queue) - k) : back[j] = queue[k + j]
  BY <1>4, AfterPlace
<1> HIDE DEF front, back, cut
<1>8. cut \in Seq(Streams) /\ Len(cut) = Len(queue) - 1 /\ DOMAIN cut = 1..(Len(queue) - 1)
  <2>1. cut \in Seq(Streams) /\ Len(cut) = Len(front) + Len(back)
    BY <1>5, <1>6, <1>7
  <2> QED BY <1>1, <1>4, <1>6, <1>7, <2>1
<1>9. ASSUME NEW j \in 1..(k - 1) PROVE cut[j] = queue[j]
  <2>1. j \in 1..Len(front)
    BY <1>6
  <2>2. cut[j] = front[j]
    BY <1>5, <1>6, <1>7, <2>1
  <2> QED BY <1>6, <2>2
<1>10. ASSUME NEW j \in k..(Len(queue) - 1) PROVE cut[j] = queue[j + 1]
  <2>1. j - (k - 1) \in 1..(Len(queue) - k) /\ k + (j - (k - 1)) = j + 1
    BY <1>1, <1>4
  <2>2. j \in 1..(Len(front) + Len(back)) /\ ~(j <= Len(front)) /\ j - Len(front) = j - (k - 1)
    BY <1>1, <1>4, <1>6, <1>7
  <2>3. cut[j] = back[j - Len(front)]
    BY <1>5, <1>6, <1>7, <2>2
  <2> QED BY <1>7, <2>1, <2>2, <2>3
<1>11. ASSUME NEW x \in Streams
       PROVE  [marked EXCEPT ![s] = FALSE][x] <=> \E j \in DOMAIN cut : cut[j] = x
  <2>1. CASE x = s
    <3>1. ASSUME NEW j \in DOMAIN cut, cut[j] = s PROVE FALSE
      <4>1. CASE j \in 1..(k - 1)
        <5>1. queue[j] = queue[k] /\ j \in DOMAIN queue /\ k \in DOMAIN queue /\ j # k
          BY <1>1, <1>4, <1>9, <3>1, <4>1
        <5> QED BY <5>1 DEF Holds
      <4>2. CASE j \in k..(Len(queue) - 1)
        <5>1. queue[j + 1] = queue[k] /\ j + 1 \in DOMAIN queue /\ k \in DOMAIN queue /\ j + 1 # k
          BY <1>1, <1>4, <1>10, <3>1, <4>2
        <5> QED BY <5>1 DEF Holds
      <4> QED BY <1>4, <1>8, <4>1, <4>2
    <3> QED BY <2>1, <3>1 DEF Marks
  <2>2. CASE x # s
    <3>1. [marked EXCEPT ![s] = FALSE][x] <=> marked[x]
      BY <2>2 DEF Marks
    <3>2. marked[x] <=> \E j \in DOMAIN queue : queue[j] = x
      BY DEF Holds
    <3>3. ASSUME NEW j \in DOMAIN queue, queue[j] = x
          PROVE  \E l \in DOMAIN cut : cut[l] = x
      <4>1. j # k /\ j \in 1..Len(queue)
        BY <1>1, <1>4, <2>2, <3>3
      <4>2. CASE j < k
        <5>1. j \in 1..(k - 1) /\ j \in DOMAIN cut
          BY <1>1, <1>4, <1>8, <4>1, <4>2
        <5> QED BY <1>9, <3>3, <5>1
      <4>3. CASE j > k
        <5>1. j - 1 \in k..(Len(queue) - 1) /\ j - 1 \in DOMAIN cut /\ (j - 1) + 1 = j
          BY <1>1, <1>4, <1>8, <4>1, <4>3
        <5> QED BY <1>10, <3>3, <5>1
      <4> QED BY <1>4, <4>1, <4>2, <4>3
    <3>4. ASSUME NEW l \in DOMAIN cut, cut[l] = x
          PROVE  \E j \in DOMAIN queue : queue[j] = x
      <4>1. CASE l \in 1..(k - 1)
        <5>1. l \in DOMAIN queue
          BY <1>1, <1>4, <4>1
        <5> QED BY <1>9, <3>4, <4>1, <5>1
      <4>2. CASE l \in k..(Len(queue) - 1)
        <5>1. l + 1 \in DOMAIN queue
          BY <1>1, <1>4, <4>2
        <5> QED BY <1>10, <3>4, <4>2, <5>1
      <4> QED BY <1>4, <1>8, <4>1, <4>2
    <3> QED BY <3>1, <3>2, <3>3, <3>4
  <2> QED BY <2>1, <2>2
<1>12. ASSUME NEW i1 \in DOMAIN cut, NEW j1 \in DOMAIN cut, cut[i1] = cut[j1]
       PROVE  i1 = j1
  <2> DEFINE old(n) == IF n < k THEN n ELSE n + 1
  <2>1. ASSUME NEW n \in DOMAIN cut PROVE old(n) \in DOMAIN queue /\ cut[n] = queue[old(n)]
    <3>1. n \in Int /\ k \in Int
      BY <1>4, <1>8
    <3>2. CASE n < k
      <4>1. n \in 1..(k - 1) /\ n \in DOMAIN queue
        BY <1>1, <1>4, <1>8, <3>2
      <4> QED BY <1>9, <3>2, <4>1
    <3>3. CASE ~(n < k)
      <4>1. n \in k..(Len(queue) - 1) /\ n + 1 \in DOMAIN queue
        BY <1>1, <1>4, <1>8, <3>3
      <4> QED BY <1>10, <3>3, <4>1
    <3> QED BY <3>2, <3>3
  <2>2. old(i1) = old(j1)
    <3> HIDE DEF old
    <3> QED BY <2>1, <1>12 DEF Holds
  <2>3. i1 \in Int /\ j1 \in Int /\ k \in Int
    BY <1>4, <1>8
  <2> QED BY <2>2, <2>3
<1>13. ASSUME Head(queue) # s PROVE cut # <<>> /\ Head(cut) = Head(queue)
  <2>1. Len(queue) >= 1 /\ queue # <<>> /\ Head(queue) = queue[1]
    BY <1>1, <1>4
  <2>2. k > 1 /\ k - 1 >= 1 /\ 1 \in 1..(k - 1) /\ Len(cut) >= 1
    BY <1>1, <1>4, <1>8, <1>13, <2>1
  <2>3. cut # <<>> /\ Head(cut) = cut[1]
    BY <1>8, <2>2
  <2> QED BY <1>9, <2>1, <2>2, <2>3
<1>14. Holds(cut, [marked EXCEPT ![s] = FALSE])
  BY <1>11, <1>12 DEF Holds
<1> QED BY <1>13, <1>14 DEF cut

\* The rotation has the same front, or is empty in both.
SameFront(q2, q1) ==
    /\ q2.send = <<>> <=> q1.send = <<>>
    /\ q1.send # <<>> => Head(q2.send) = Head(q1.send)

\* Only streams that may still send are queued.
Live(qq) == \A s \in Streams : qq.inSend[s] \/ qq.inCap[s] => sst[s] = "streaming"

\* The fields of a record of queues have their types.
LEMMA LineType ==
    ASSUME NEW qq, InLine(qq)
    PROVE  /\ qq \in QType /\ qq.send \in Seq(Streams) /\ qq.cap \in Seq(Streams)
           /\ qq.inSend \in Marks /\ qq.inCap \in Marks
           /\ Holds(qq.send, qq.inSend) /\ Holds(qq.cap, qq.inCap)
BY DEF InLine, QType, Marks

\* leave_send_queue takes a stream out of the rotation; unless it led, the front stays.
LEMMA LeaveSendLine ==
    ASSUME NEW qq, InLine(qq), NEW s \in Streams
    PROVE  /\ InLine(LeaveSend(qq, s))
           /\ LeaveSend(qq, s).inSend = [qq.inSend EXCEPT ![s] = FALSE]
           /\ LeaveSend(qq, s).inCap = qq.inCap /\ LeaveSend(qq, s).cap = qq.cap
           /\ \A x \in Streams \ {s} : LeaveSend(qq, s).turn[x] = qq.turn[x]
           /\ ~(qq.inSend[s] /\ Leads(qq.send, s)) => SameFront(LeaveSend(qq, s), qq)
<1> DEFINE r == LeaveSend(qq, s)
<1>1. /\ qq \in QType /\ qq.send \in Seq(Streams) /\ qq.inSend \in Marks
      /\ Holds(qq.send, qq.inSend) /\ Holds(qq.cap, qq.inCap)
  BY LineType
<1>2. r \in QType
  BY <1>1, LeaveType
<1>3. CASE ~qq.inSend[s]
  <2>1. r = qq
    BY <1>3 DEF LeaveSend
  <2>2. [qq.inSend EXCEPT ![s] = FALSE] = qq.inSend
    BY <1>1, <1>3 DEF Marks
  <2> QED BY <2>1, <2>2 DEF SameFront
<1>4. CASE qq.inSend[s]
  <2>1. r = [qq EXCEPT !.inSend[s] = FALSE, !.turn[s] = 0, !.send = Without(@, s)]
    BY <1>4 DEF LeaveSend
  <2>2. /\ r.send = Without(qq.send, s) /\ r.inSend = [qq.inSend EXCEPT ![s] = FALSE]
        /\ r.cap = qq.cap /\ r.inCap = qq.inCap /\ r.turn = [qq.turn EXCEPT ![s] = 0]
    BY <1>1, <2>1 DEF QType
  <2>3. \A x \in Streams \ {s} : r.turn[x] = qq.turn[x]
    BY <1>1, <2>2 DEF QType
  <2>4. /\ Holds(Without(qq.send, s), [qq.inSend EXCEPT ![s] = FALSE])
        /\ Head(qq.send) # s => /\ Without(qq.send, s) # <<>>
                                /\ Head(Without(qq.send, s)) = Head(qq.send)
    BY <1>1, <1>4, HoldsWithout
  <2> HIDE DEF r
  <2>5. InLine(r)
    BY <1>1, <1>2, <2>2, <2>4 DEF InLine
  <2>6. qq.send # <<>>
    <3>1. PICK i \in DOMAIN qq.send : qq.send[i] = s
      BY <1>1, <1>4 DEF Holds
    <3>2. DOMAIN qq.send # {}
      BY <3>1
    <3> QED BY <3>2
  <2>7. ~Leads(qq.send, s) => SameFront(r, qq)
    BY <2>2, <2>4, <2>6 DEF Leads, SameFront
  <2> QED BY <1>4, <2>2, <2>3, <2>5, <2>7 DEF r
<1> QED BY <1>3, <1>4

\* leave_capacity_queue takes a stream out of the line for connection window.
LEMMA LeaveCapLine ==
    ASSUME NEW qq, InLine(qq), NEW s \in Streams
    PROVE  /\ InLine(LeaveCapacity(qq, s))
           /\ LeaveCapacity(qq, s).inCap = [qq.inCap EXCEPT ![s] = FALSE]
           /\ LeaveCapacity(qq, s).inSend = qq.inSend /\ LeaveCapacity(qq, s).send = qq.send
           /\ LeaveCapacity(qq, s).turn = qq.turn
           /\ LeaveCapacity(qq, s).cap # <<>> => qq.cap # <<>>
<1> DEFINE r == LeaveCapacity(qq, s)
<1>1. /\ qq \in QType /\ qq.cap \in Seq(Streams) /\ qq.inCap \in Marks
      /\ Holds(qq.send, qq.inSend) /\ Holds(qq.cap, qq.inCap)
  BY LineType
<1>2. r \in QType
  BY <1>1, LeaveType
<1>3. CASE ~qq.inCap[s]
  <2>1. r = qq
    BY <1>3 DEF LeaveCapacity
  <2>2. [qq.inCap EXCEPT ![s] = FALSE] = qq.inCap
    BY <1>1, <1>3 DEF Marks
  <2> QED BY <2>1, <2>2
<1>4. CASE qq.inCap[s]
  <2>1. r = [qq EXCEPT !.inCap[s] = FALSE, !.cap = Without(@, s)]
    BY <1>4 DEF LeaveCapacity
  <2>2. /\ r.cap = Without(qq.cap, s) /\ r.inCap = [qq.inCap EXCEPT ![s] = FALSE]
        /\ r.send = qq.send /\ r.inSend = qq.inSend /\ r.turn = qq.turn
    BY <1>1, <2>1 DEF QType
  <2>3. Holds(Without(qq.cap, s), [qq.inCap EXCEPT ![s] = FALSE])
    BY <1>1, <1>4, HoldsWithout
  <2> HIDE DEF r
  <2>4. InLine(r)
    BY <1>1, <1>2, <2>2, <2>3 DEF InLine
  <2>5. qq.cap # <<>>
    <3>1. PICK i \in DOMAIN qq.cap : qq.cap[i] = s
      BY <1>1, <1>4 DEF Holds
    <3> QED BY <3>1, <1>1
  <2> QED BY <2>2, <2>4, <2>5 DEF r
<1> QED BY <1>3, <1>4

\* enqueue_send puts a stream at the end of the rotation, once.
LEMMA EnqueueSendLine ==
    ASSUME NEW qq, InLine(qq), NEW s \in Streams
    PROVE  /\ InLine(EnqueueSend(qq, s))
           /\ EnqueueSend(qq, s).inSend = [qq.inSend EXCEPT ![s] = TRUE]
           /\ EnqueueSend(qq, s).inCap = qq.inCap /\ EnqueueSend(qq, s).cap = qq.cap
           /\ \A x \in Streams \ {s} : EnqueueSend(qq, s).turn[x] = qq.turn[x]
           /\ EnqueueSend(qq, s).send # <<>>
           /\ qq.send # <<>> => SameFront(EnqueueSend(qq, s), qq)
           /\ qq.send = <<>> => Head(EnqueueSend(qq, s).send) = s
<1> DEFINE r == EnqueueSend(qq, s)
<1>1. /\ qq \in QType /\ qq.send \in Seq(Streams) /\ qq.inSend \in Marks
      /\ Holds(qq.send, qq.inSend) /\ Holds(qq.cap, qq.inCap)
  BY LineType
<1>2. r \in QType
  BY <1>1, EnqueueType
<1>3. CASE qq.inSend[s]
  <2>1. r = qq
    BY <1>3 DEF EnqueueSend
  <2>2. [qq.inSend EXCEPT ![s] = TRUE] = qq.inSend
    BY <1>1, <1>3 DEF Marks
  <2>3. qq.send # <<>>
    <3>1. PICK i \in DOMAIN qq.send : qq.send[i] = s
      BY <1>1, <1>3 DEF Holds
    <3> QED BY <3>1, <1>1
  <2> QED BY <2>1, <2>2, <2>3 DEF SameFront
<1>4. CASE ~qq.inSend[s]
  <2>1. r = [qq EXCEPT !.inSend[s] = TRUE, !.turn[s] = 0, !.send = Append(@, s)]
    BY <1>4 DEF EnqueueSend
  <2>2. /\ r.send = Append(qq.send, s) /\ r.inSend = [qq.inSend EXCEPT ![s] = TRUE]
        /\ r.cap = qq.cap /\ r.inCap = qq.inCap /\ r.turn = [qq.turn EXCEPT ![s] = 0]
    BY <1>1, <2>1 DEF QType
  <2>3. \A x \in Streams \ {s} : r.turn[x] = qq.turn[x]
    BY <1>1, <2>2 DEF QType
  <2>4. Holds(Append(qq.send, s), [qq.inSend EXCEPT ![s] = TRUE])
    BY <1>1, <1>4, HoldsAppend
  <2> HIDE DEF r
  <2>5. InLine(r)
    BY <1>1, <1>2, <2>2, <2>4 DEF InLine
  <2>6. /\ Append(qq.send, s) # <<>>
        /\ qq.send # <<>> => Head(Append(qq.send, s)) = Head(qq.send)
        /\ qq.send = <<>> => Head(Append(qq.send, s)) = s
    <3>1. CASE qq.send = <<>>
      BY <3>1
    <3>2. CASE qq.send # <<>>
      BY <1>1, <3>2, AppendProperties, HeadTailAppend
    <3> QED BY <3>1, <3>2
  <2>7. qq.send # <<>> => SameFront(r, qq)
    BY <2>2, <2>6 DEF SameFront
  <2> QED BY <2>2, <2>3, <2>5, <2>6, <2>7 DEF r
<1> QED BY <1>3, <1>4

\* enqueue_capacity puts a stream at the end of the line for connection window, once.
LEMMA EnqueueCapLine ==
    ASSUME NEW qq, InLine(qq), NEW s \in Streams
    PROVE  /\ InLine(EnqueueCapacity(qq, s))
           /\ EnqueueCapacity(qq, s).inCap = [qq.inCap EXCEPT ![s] = TRUE]
           /\ EnqueueCapacity(qq, s).inSend = qq.inSend /\ EnqueueCapacity(qq, s).send = qq.send
           /\ EnqueueCapacity(qq, s).turn = qq.turn
<1> DEFINE r == EnqueueCapacity(qq, s)
<1>1. /\ qq \in QType /\ qq.cap \in Seq(Streams) /\ qq.inCap \in Marks
      /\ Holds(qq.send, qq.inSend) /\ Holds(qq.cap, qq.inCap)
  BY LineType
<1>2. r \in QType
  BY <1>1, EnqueueType
<1>3. CASE qq.inCap[s]
  <2>1. r = qq
    BY <1>3 DEF EnqueueCapacity
  <2>2. [qq.inCap EXCEPT ![s] = TRUE] = qq.inCap
    BY <1>1, <1>3 DEF Marks
  <2> QED BY <2>1, <2>2
<1>4. CASE ~qq.inCap[s]
  <2>1. r = [qq EXCEPT !.inCap[s] = TRUE, !.cap = Append(@, s)]
    BY <1>4 DEF EnqueueCapacity
  <2>2. /\ r.cap = Append(qq.cap, s) /\ r.inCap = [qq.inCap EXCEPT ![s] = TRUE]
        /\ r.send = qq.send /\ r.inSend = qq.inSend /\ r.turn = qq.turn
    BY <1>1, <2>1 DEF QType
  <2>3. Holds(Append(qq.cap, s), [qq.inCap EXCEPT ![s] = TRUE])
    BY <1>1, <1>4, HoldsAppend
  <2> HIDE DEF r
  <2> QED BY <1>1, <1>2, <2>2, <2>3 DEF InLine, r
<1> QED BY <1>3, <1>4

\* yield_send_turn moves the front to the back.
LEMMA YieldLine ==
    ASSUME NEW qq, InLine(qq), NEW s \in Streams
    PROVE  /\ InLine(YieldTurn(qq, s))
           /\ YieldTurn(qq, s).inSend = qq.inSend /\ YieldTurn(qq, s).inCap = qq.inCap
           /\ YieldTurn(qq, s).cap = qq.cap
           /\ qq.send # <<>> => YieldTurn(qq, s).send # <<>>
<1> DEFINE r == YieldTurn(qq, s)
<1>1. /\ qq \in QType /\ qq.send \in Seq(Streams) /\ qq.inSend \in Marks
      /\ Holds(qq.send, qq.inSend) /\ Holds(qq.cap, qq.inCap)
  BY LineType
<1>2. r \in QType
  BY <1>1, YieldType
<1>3. CASE ~Leads(qq.send, s)
  BY <1>3 DEF YieldTurn
<1>4. CASE Leads(qq.send, s)
  <2>1. r = [qq EXCEPT !.send = Append(Tail(@), s), !.turn[s] = 0]
    BY <1>4 DEF YieldTurn
  <2>2. /\ r.send = Append(Tail(qq.send), s) /\ r.inSend = qq.inSend
        /\ r.cap = qq.cap /\ r.inCap = qq.inCap
    BY <1>1, <2>1 DEF QType
  <2>3. qq.send # <<>> /\ Head(qq.send) = s
    BY <1>4 DEF Leads
  <2> DEFINE rest == [qq.inSend EXCEPT ![s] = FALSE]
  <2>4. /\ Tail(qq.send) \in Seq(Streams) /\ qq.inSend[s] /\ Holds(Tail(qq.send), rest)
    BY <1>1, <2>3, HoldsTail
  <2>5. rest \in Marks /\ ~rest[s] /\ [rest EXCEPT ![s] = TRUE] = qq.inSend
    BY <1>1, <2>4 DEF Marks
  <2> HIDE DEF rest
  <2>6. Holds(Append(Tail(qq.send), s), qq.inSend)
    <3>1. Holds(Append(Tail(qq.send), s), [rest EXCEPT ![s] = TRUE])
      BY <2>4, <2>5, HoldsAppend, Zenon
    <3> QED BY <2>5, <3>1
  <2>7. Append(Tail(qq.send), s) # <<>>
    BY <2>4
  <2> HIDE DEF r
  <2> QED BY <1>1, <1>2, <2>2, <2>6, <2>7 DEF InLine, r
<1> QED BY <1>3, <1>4

\* Nothing is stale in queues of live streams: send_front and capacity_front drop nothing.
LEMMA PruneLine ==
    ASSUME NEW qq, InLine(qq), Live(qq)
    PROVE  PruneSend(qq) = qq /\ PruneCap(qq) = qq
<1>1. /\ qq \in QType /\ qq.send \in Seq(Streams) /\ qq.cap \in Seq(Streams)
      /\ Holds(qq.send, qq.inSend) /\ Holds(qq.cap, qq.inCap)
  BY LineType
<1>2. ASSUME NEW i \in 1..Len(qq.send)
      PROVE  qq.send[i] \in {s \in Streams : qq.inSend[s] /\ sst[s] = "streaming"}
  BY <1>1 DEF Holds, Live
<1>3. ASSUME NEW i \in 1..Len(qq.cap)
      PROVE  qq.cap[i] \in {s \in Streams : qq.inCap[s] /\ sst[s] = "streaming"}
  BY <1>1 DEF Holds, Live
<1>4. FromFirst(qq.send, {s \in Streams : qq.inSend[s] /\ sst[s] = "streaming"}) = qq.send
  BY <1>1, <1>2, FromFirstAll
<1>5. FromFirst(qq.cap, {s \in Streams : qq.inCap[s] /\ sst[s] = "streaming"}) = qq.cap
  BY <1>1, <1>3, FromFirstAll
<1>6. PruneSend(qq) = [qq EXCEPT !.send = qq.send]
  BY <1>4 DEF PruneSend
<1>7. PruneCap(qq) = [qq EXCEPT !.cap = qq.cap]
  BY <1>5 DEF PruneCap
<1> QED BY <1>1, <1>6, <1>7 DEF QType

\* admit_capacity_front moves at most the first waiter, and afterwards nobody waits for
\* connection window that is there with an empty rotation before him.
LEMMA AdmitLine ==
    ASSUME NEW qq, InLine(qq), Live(qq), NEW cw, \A x \in Streams : ~(qq.inSend[x] /\ qq.inCap[x])
    PROVE  LET r == AdmitCapacityFront(qq, cw)
           IN  /\ InLine(r)
               /\ \A x \in Streams : /\ r.inSend[x] \/ r.inCap[x] <=> qq.inSend[x] \/ qq.inCap[x]
                                     /\ ~(r.inSend[x] /\ r.inCap[x])
               /\ r.cap # <<>> /\ cw # 0 => r.send # <<>>
<1> DEFINE r == AdmitCapacityFront(qq, cw)
           h == Head(qq.cap)
           d == [qq EXCEPT !.inCap[h] = FALSE, !.cap = Tail(@)]
<1>1. /\ qq \in QType /\ qq.cap \in Seq(Streams) /\ qq.inSend \in Marks /\ qq.inCap \in Marks
      /\ Holds(qq.send, qq.inSend) /\ Holds(qq.cap, qq.inCap)
  BY LineType
<1>2. PruneSend(qq) = qq /\ PruneCap(qq) = qq
  BY PruneLine
<1>3. CASE cw = 0 \/ qq.send # <<>> \/ qq.cap = <<>>
  <2>1. r = qq
    BY <1>2, <1>3 DEF AdmitCapacityFront
  <2> QED BY <1>3, <2>1
<1>4. CASE cw # 0 /\ qq.send = <<>> /\ qq.cap # <<>>
  <2>1. r = EnqueueSend(d, h)
    BY <1>2, <1>4, Zenon DEF AdmitCapacityFront
  <2>2. /\ h \in Streams /\ qq.inCap[h] /\ Tail(qq.cap) \in Seq(Streams)
        /\ Holds(Tail(qq.cap), [qq.inCap EXCEPT ![h] = FALSE])
    BY <1>1, <1>4, HoldsTail
  <2> HIDE DEF h, r
  <2>3. /\ d.cap = Tail(qq.cap) /\ d.inCap = [qq.inCap EXCEPT ![h] = FALSE]
        /\ d.send = qq.send /\ d.inSend = qq.inSend
    BY <1>1, <2>2 DEF QType
  <2>4. d \in QType
    BY <1>1, <2>2 DEF QType
  <2> HIDE DEF d
  <2>5. InLine(d)
    BY <1>1, <2>2, <2>3, <2>4 DEF InLine
  <2>6. /\ InLine(r) /\ r.inSend = [d.inSend EXCEPT ![h] = TRUE] /\ r.inCap = d.inCap
        /\ r.send # <<>>
    BY <2>1, <2>2, <2>5, EnqueueSendLine
  <2>7. ASSUME NEW x \in Streams
        PROVE  /\ r.inSend[x] \/ r.inCap[x] <=> qq.inSend[x] \/ qq.inCap[x]
               /\ ~(r.inSend[x] /\ r.inCap[x])
    <3>1. /\ r.inSend[x] = IF x = h THEN TRUE ELSE qq.inSend[x]
          /\ r.inCap[x] = IF x = h THEN FALSE ELSE qq.inCap[x]
      <4>1. /\ \A f \in Marks : [f EXCEPT ![h] = TRUE][x] = (IF x = h THEN TRUE ELSE f[x])
            /\ \A f \in Marks : [f EXCEPT ![h] = FALSE][x] = (IF x = h THEN FALSE ELSE f[x])
        BY <2>2 DEF Marks
      <4>2. /\ r.inSend = [qq.inSend EXCEPT ![h] = TRUE]
            /\ r.inCap = [qq.inCap EXCEPT ![h] = FALSE]
        BY <2>3, <2>6
      <4> QED BY <1>1, <4>1, <4>2, Zenon
    <3> QED BY <2>2, <3>1, Zenon
  <2> QED BY <2>6, <2>7 DEF r
<1> QED BY <1>3, <1>4

-----------------------------------------------------------------------------
(* The parts of the invariant that most steps leave alone.                   *)

MidChunk == {"try1", "clear", "try2", "wait"}

\* What the invariant of the queues says of the record of queues.
LEMMA QueueFacts ==
    ASSUME TypeOK, QueueInv
    PROVE  /\ InLine(q) /\ Live(q) /\ \A x \in Streams : ~(q.inSend[x] /\ q.inCap[x])
           /\ q.send # <<>> => Head(q.send) \in Streams /\ q.inSend[Head(q.send)]
           /\ q.cap # <<>> => Head(q.cap) \in Streams /\ q.inCap[Head(q.cap)]
<1>1. q \in QType
  BY DEF TypeOK, QType
<1>2. InLine(q)
  BY <1>1 DEF QueueInv, QueuesMatchFlags, InLine, Holds
<1>3. Live(q) /\ \A x \in Streams : ~(q.inSend[x] /\ q.inCap[x])
  BY DEF QueueInv, QueuesMatchFlags, Live
<1>4. /\ q.send # <<>> => Head(q.send) \in Streams /\ q.inSend[Head(q.send)]
      /\ q.cap # <<>> => Head(q.cap) \in Streams /\ q.inCap[Head(q.cap)]
  BY <1>2, LineType, HoldsTail
<1> QED BY <1>2, <1>3, <1>4

\* The invariant of the queues from what it says stream by stream.
LEMMA QueueFrom ==
    ASSUME InLine(q)',
           \A x \in Streams : (q.inSend[x] \/ q.inCap[x])' =>
               /\ sst'[x] = "streaming" /\ ~(q.inSend[x] /\ q.inCap[x])'
               /\ pc'[x] \in MidChunk /\ chunk'[x].want > 0
    PROVE  QueueInv'
<1>1. QueuesMatchFlags'
  BY DEF InLine, Holds, QueuesMatchFlags
<1>2. QueuedMidChunk'
  BY DEF QueuedMidChunk, MidChunk
<1> QED BY <1>1, <1>2 DEF QueueInv

\* An actor that had nothing left to do gets a verdict.
LEMMA Answer ==
    ASSUME TypeOK, NEW a \in Actors, owes[a].set = {}, ~owes[a].cap,
           \A b \in Actors \ {a} : owes'[b] = owes[b]
    PROVE  /\ CapOwed => CapOwed'
           /\ owes'[a].cap => CapOwed'
           /\ \A x \in Streams : Unnamed(x)' => Unnamed(x) /\ x \notin owes'[a].set
BY DEF CapOwed, Unnamed

\* A stream has room of its own unless its window or its buffer is exhausted.
LEMMA RoomZero ==
    ASSUME TypeOK, NEW s \in Streams
    PROVE  /\ StreamRoom(s) \in Nat
           /\ StreamRoom(s) = 0 <=> flow[s].win <= 0 \/ buffered[s] >= MaxSendBuf
<1>1. flow[s].win \in Int /\ buffered[s] \in Nat /\ MaxSendBuf \in Nat
  BY SendConstants DEF TypeOK
<1> QED BY <1>1 DEF StreamRoom, Min2, WindowSize

\* Steps that leave the queues alone, put nobody to sleep and give no sleeper room.
LEMMA SteadyStep ==
    ASSUME TypeOK, QueueInv, SleepersOK, RotationMoves,
           q'.send = q.send, q'.cap = q.cap, q'.inSend = q.inSend, q'.inCap = q.inCap,
           q' \in QType, conn' = conn, CapOwed => CapOwed', rpc' = "read" => rpc = "read",
           \A x \in Streams : q.inSend[x] \/ q.inCap[x] =>
               sst'[x] = "streaming" /\ pc'[x] \in MidChunk /\ chunk'[x].want > 0,
           \A x \in Streams : Asleep(x)' =>
               /\ Asleep(x) /\ sst'[x] = sst[x] /\ q'.turn[x] = q.turn[x]
               /\ rpc' = "read" /\ StreamRoom(x) = 0 => StreamRoom(x)' = 0
    PROVE  QueueInv' /\ SleepersOK' /\ RotationMoves'
<1>1. /\ InLine(q) /\ \A x \in Streams : ~(q.inSend[x] /\ q.inCap[x])
      /\ q.send # <<>> => Head(q.send) \in Streams
  BY QueueFacts
<1>2. InLine(q)'
  BY <1>1 DEF InLine
<1>3. QueueInv'
  BY <1>1, <1>2, QueueFrom
<1>4. SleepersOK'
  BY DEF SleepersOK
<1>5. RotationMoves'
  <2>1. q'.send # <<>> => \/ CapOwed' \/ ~Asleep(Head(q.send))'
                          \/ q'.turn[Head(q.send)] > 0
    BY <1>1 DEF RotationMoves
  <2>2. q'.cap # <<>> /\ WindowSize(conn') > 0 => q'.send # <<>> \/ CapOwed'
    BY DEF RotationMoves
  <2>3. Head(q.send)' = Head(q.send)
    OBVIOUS
  <2> QED BY <2>1, <2>2, <2>3 DEF RotationMoves
<1> QED BY <1>3, <1>4, <1>5

-----------------------------------------------------------------------------
(* Steps that leave the queues alone.                                        *)

\* A window event is set, or the write pump's: nobody falls asleep.
LEMMA SetWake ==
    ASSUME SendInv, SendInv', WakeCore, NEW a \in Actors,
           (\E s \in Streams : SetWindowEvt(a, s)) \/ AfterWake(a)
    PROVE  WakeCore'
<1>1. TypeOK /\ owes \in OwesType /\ evt \in [Streams -> BOOLEAN] /\ q \in QType
  BY DEF SendInv, TypeOK, OwesType, QType
<1>2. UNCHANGED <<sst, flow, buffered, conn, q, pc, chunk, rpc>>
  BY DEF SetWindowEvt, AfterWake, stateVars
<1>3. /\ \A b \in Actors : owes'[b].cap = owes[b].cap
      /\ \A x \in Streams : ~evt'[x] /\ Unnamed(x)' => ~evt[x] /\ Unnamed(x)
  <2>1. CASE AfterWake(a)
    BY <1>1, <2>1 DEF AfterWake, OwesType, Unnamed
  <2>2. ASSUME NEW s \in Streams, SetWindowEvt(a, s)
        PROVE  /\ \A b \in Actors : owes'[b].cap = owes[b].cap
               /\ \A x \in Streams : ~evt'[x] /\ Unnamed(x)' => ~evt[x] /\ Unnamed(x)
    <3>1. /\ evt' = [evt EXCEPT ![s] = TRUE]
          /\ \A b \in Actors : owes'[b].cap = owes[b].cap
          /\ \A b \in Actors : owes'[b].set = owes[b].set \/ owes'[b].set = owes[b].set \ {s}
      BY <1>1, <2>2 DEF SetWindowEvt, OwesType
    <3>2. \A x \in Streams : ~evt'[x] => x # s /\ ~evt[x]
      BY <1>1, <3>1
    <3>3. \A x \in Streams : x # s /\ Unnamed(x)' => Unnamed(x)
      BY <3>1 DEF Unnamed
    <3> QED BY <3>1, <3>2, <3>3
  <2> QED BY <2>1, <2>2
<1>4. \A x \in Streams : Asleep(x)' => Asleep(x)
  BY <1>2, <1>3 DEF Asleep
<1>5. CapOwed => CapOwed'
  BY <1>3 DEF CapOwed
<1>6. \A x \in Streams : q.inSend[x] \/ q.inCap[x] =>
         sst'[x] = "streaming" /\ pc'[x] \in MidChunk /\ chunk'[x].want > 0
  BY <1>2 DEF WakeCore, QueueInv, QueuesMatchFlags, QueuedMidChunk, MidChunk
<1>7. \A x \in Streams : StreamRoom(x)' = StreamRoom(x)
  BY <1>2 DEF StreamRoom, WindowSize
<1> QED BY <1>1, <1>2, <1>4, <1>5, <1>6, <1>7, SteadyStep DEF WakeCore

\* Steps of one stream that is in neither queue afterwards asleep: it opens, its sender
\* moves, or its request arrives; no event is cleared but by a sender that tries again.
LEMMA PlaceWake ==
    ASSUME SendInv, SendInv', WakeCore, NEW s \in Streams,
           \/ Open(s) \/ OpenStopped(s) \/ NextChunk(s) \/ SendStopped(s)
           \/ ClearWindowEvt(s) \/ WindowEvtWakes(s) \/ RecvRequest(s)
    PROVE  WakeCore'
<1>1. /\ TypeOK /\ owes \in OwesType /\ evt \in [Streams -> BOOLEAN] /\ q \in QType
      /\ pc \in [Streams -> {"start", "idle", "try1", "clear", "try2", "wait", "end"}]
      /\ chunk \in [Streams -> [want : Nat, eos : BOOLEAN]]
      /\ sst \in [Streams -> {"idle", "awaiting", "streaming", "halfclosed", "gone"}]
      /\ flow \in [Streams -> FlowType] /\ s \in Actors
  BY DEF SendInv, TypeOK, OwesType, QType, FlowType, Actors
<1>2. UNCHANGED <<buffered, conn, q, rpc>>
  BY DEF Open, OpenStopped, NextChunk, SendStopped, ClearWindowEvt, WindowEvtWakes,
         RecvRequest, stateVars
<1>3. /\ \A b \in Actors : owes'[b].cap = owes[b].cap /\ owes'[b].set = owes[b].set
      /\ \A x \in Streams \ {s} : evt'[x] = evt[x] /\ pc'[x] = pc[x] /\ chunk'[x] = chunk[x]
                                  /\ sst'[x] = sst[x] /\ flow'[x] = flow[x]
  <2>1. CASE Open(s)
    <3>1. UNCHANGED <<evt, chunk>> /\ owes' = [owes EXCEPT ![s].wake = TRUE]
          /\ pc' = [pc EXCEPT ![s] = "idle"] /\ sst' = [sst EXCEPT ![s] = "streaming"]
          /\ (flow' = flow \/ flow' = [flow EXCEPT ![s] = [win |-> initWin, avail |-> initWin]])
      BY <2>1 DEF Open
    <3>2. \A b \in Actors : owes'[b].cap = owes[b].cap /\ owes'[b].set = owes[b].set
      BY <1>1, <3>1 DEF OwesType
    <3>3. \A x \in Streams \ {s} : pc'[x] = pc[x] /\ sst'[x] = sst[x] /\ flow'[x] = flow[x]
      BY <1>1, <3>1
    <3> QED BY <3>1, <3>2, <3>3
  <2>2. CASE RecvRequest(s)
    BY <1>1, <2>2 DEF RecvRequest
  <2>3. CASE ~Open(s) /\ ~RecvRequest(s)
    BY <1>1, <2>3 DEF OpenStopped, NextChunk, SendStopped, ClearWindowEvt, WindowEvtWakes, stateVars
  <2> QED BY <2>1, <2>2, <2>3
<1>4. Asleep(s)' => Asleep(s) /\ sst'[s] = sst[s] /\ flow'[s] = flow[s]
  <2>1. CASE Open(s) \/ OpenStopped(s) \/ NextChunk(s) \/ SendStopped(s) \/ ClearWindowEvt(s)
             \/ WindowEvtWakes(s)
    BY <1>1, <2>1 DEF Open, OpenStopped, NextChunk, SendStopped, ClearWindowEvt, WindowEvtWakes,
       Asleep
  <2>2. CASE RecvRequest(s)
    <3>1. sst[s] = "idle" /\ UNCHANGED <<evt, pc, owes>>
      BY <2>2 DEF RecvRequest
    <3>2. Asleep(s)' => Asleep(s)
      BY <3>1 DEF Asleep, Unnamed
    <3> QED BY <3>1, <3>2 DEF WakeCore, SleepersOK
  <2> QED BY <2>1, <2>2
<1>5. \A x \in Streams : Unnamed(x)' => Unnamed(x)
  BY <1>3 DEF Unnamed
<1>6. \A x \in Streams : Asleep(x)' => Asleep(x) /\ sst'[x] = sst[x] /\ flow'[x] = flow[x]
  BY <1>3, <1>4, <1>5 DEF Asleep
<1>7. CapOwed => CapOwed'
  BY <1>3 DEF CapOwed
<1>8. \A x \in Streams : q.inSend[x] \/ q.inCap[x] =>
         sst'[x] = "streaming" /\ pc'[x] \in MidChunk /\ chunk'[x].want > 0
  <2>1. \A x \in Streams : q.inSend[x] \/ q.inCap[x] =>
           sst[x] = "streaming" /\ pc[x] \in MidChunk /\ chunk[x].want > 0
    BY DEF WakeCore, QueueInv, QueuesMatchFlags, QueuedMidChunk, MidChunk
  <2>2. ASSUME sst[s] = "streaming", pc[s] \in MidChunk, chunk[s].want > 0
        PROVE  sst'[s] = "streaming" /\ pc'[s] \in MidChunk /\ chunk'[s].want > 0
    BY <1>1, <2>2 DEF Open, OpenStopped, NextChunk, SendStopped, ClearWindowEvt, WindowEvtWakes,
       RecvRequest, MidChunk, stateVars
  <2> QED BY <1>3, <2>1, <2>2
<1>9. \A x \in Streams : flow'[x] = flow[x] => StreamRoom(x)' = StreamRoom(x)
  BY <1>2 DEF StreamRoom, WindowSize
<1> QED BY <1>1, <1>2, <1>6, <1>7, <1>8, <1>9, SteadyStep DEF WakeCore

\* Leaving queues it is not in changes nothing and moves no turn.
LEMMA LeaveNothing ==
    ASSUME NEW s \in Streams, NEW cw, ~q.inSend[s], ~q.inCap[s]
    PROVE  LeaveQueues(q, s) = q /\ ~LeaveQueuesFlag(q, s, cw)
BY DEF LeaveQueues, LeaveSend, LeaveCapacity, LeaveQueuesFlag, LeaveSendFlag, LeaveCapacityFlag

\* The empty DATA frame, and the peer's END_STREAM: a stream that ends by them has left
\* both queues before.
LEMMA EndWake ==
    ASSUME SendInv, SendInv', WakeCore, NEW s \in Streams, SendEmpty(s) \/ RecvEndStream(s)
    PROVE  WakeCore'
<1>1. /\ TypeOK /\ owes \in OwesType /\ q \in QType
      /\ pc \in [Streams -> {"start", "idle", "try1", "clear", "try2", "wait", "end"}]
      /\ sst \in [Streams -> {"idle", "awaiting", "streaming", "halfclosed", "gone"}]
      /\ s \in Actors /\ "rd" \in Actors
  BY DEF SendInv, TypeOK, OwesType, QType, Actors
<1>2. UNCHANGED <<flow, buffered, conn, chunk, rpc, evt>>
  BY DEF SendEmpty, RecvEndStream
<1>3. \A x \in Streams : q.inSend[x] \/ q.inCap[x] =>
         sst[x] = "streaming" /\ pc[x] \in MidChunk /\ chunk[x].want > 0
  BY DEF WakeCore, QueueInv, QueuesMatchFlags, QueuedMidChunk, MidChunk
<1> DEFINE a == IF SendEmpty(s) THEN s ELSE "rd"
<1>4. /\ a \in Actors /\ owes[a] = Clear /\ \A b \in Actors \ {a} : owes'[b] = owes[b]
      /\ \A x \in Streams : pc'[x] = pc[x] \/ (x = s /\ pc'[x] # "wait")
      /\ \A x \in Streams \ {s} : sst'[x] = sst[x]
      /\ sst'[s] # sst[s] => pc'[s] # "wait" \/ sst[s] = "halfclosed"
      /\ q.inSend[s] \/ q.inCap[s] => sst'[s] = sst[s] /\ pc'[s] = pc[s]
      /\ q' = q
  <2>1. CASE SendEmpty(s)
    <3>1. ~q.inSend[s] /\ ~q.inCap[s] /\ sst[s] = "streaming" /\ pc[s] \in {"try1", "try2"}
      BY <1>1, <1>3, <2>1 DEF SendEmpty, Sending, Trying
    <3>2. q' = q
      BY <2>1, <3>1, LeaveNothing DEF SendEmpty
    <3>3. pc' = [pc EXCEPT ![s] = IF chunk[s].eos THEN "end" ELSE "idle"]
      BY <2>1 DEF SendEmpty, AfterFrame
    <3>4. \A x \in Streams \ {s} : sst'[x] = sst[x]
      BY <1>1, <2>1 DEF SendEmpty, AfterEndStream
    <3>5. owes[s] = Clear /\ \A b \in Actors \ {s} : owes'[b] = owes[b]
      BY <1>1, <2>1 DEF SendEmpty, Sending, Trying, Free, OwesType
    <3>6. a = s
      BY <2>1
    <3>7. pc'[s] # "wait" /\ \A x \in Streams \ {s} : pc'[x] = pc[x]
      BY <1>1, <3>3
    <3> QED BY <1>1, <3>1, <3>2, <3>4, <3>5, <3>6, <3>7
  <2>2. CASE ~SendEmpty(s)
    <3>1. RecvEndStream(s) /\ a = "rd"
      BY <2>2
    <3>2. sst[s] # "streaming" => ~q.inSend[s] /\ ~q.inCap[s]
      BY <1>3
    <3>3. q' = q
      BY <3>1, <3>2, LeaveNothing DEF RecvEndStream
    <3>4. /\ owes["rd"] = Clear /\ \A b \in Actors \ {"rd"} : owes'[b] = owes[b]
          /\ pc' = pc
          /\ \A x \in Streams \ {s} : sst'[x] = sst[x]
          /\ sst'[s] = IF sst[s] = "halfclosed" THEN "gone" ELSE sst[s]
      BY <1>1, <3>1 DEF RecvEndStream, Reading, Free, OwesType
    <3> QED BY <1>1, <3>1, <3>2, <3>3, <3>4
  <2> QED BY <2>1, <2>2
<1>5. /\ CapOwed => CapOwed'
      /\ \A x \in Streams : Unnamed(x)' => Unnamed(x)
  <2>1. owes[a].set = {} /\ ~owes[a].cap
    BY <1>4 DEF Clear, Verdict
  <2> HIDE DEF a
  <2> QED BY <1>1, <1>4, <2>1, Answer
<1> HIDE DEF a
<1>6. \A x \in Streams : Asleep(x)' => Asleep(x) /\ sst'[x] = sst[x]
  <2>1. \A x \in Streams : Asleep(x)' => Asleep(x) /\ (sst'[x] = sst[x] \/ sst[x] = "halfclosed")
    <3>1. \A x \in Streams : pc'[x] = "wait" =>
             pc[x] = "wait" /\ (sst'[x] = sst[x] \/ sst[x] = "halfclosed")
      BY <1>4
    <3>2. ASSUME NEW x \in Streams, Asleep(x)'
          PROVE  pc'[x] = "wait" /\ ~evt[x] /\ Unnamed(x)
      BY <1>2, <1>5, <3>2 DEF Asleep
    <3> QED BY <3>1, <3>2 DEF Asleep
  <2> QED BY <2>1 DEF WakeCore, SleepersOK
<1>7. \A x \in Streams : StreamRoom(x)' = StreamRoom(x)
  BY <1>2 DEF StreamRoom, WindowSize
<1>8. \A x \in Streams : q.inSend[x] \/ q.inCap[x] =>
         sst'[x] = "streaming" /\ pc'[x] \in MidChunk /\ chunk'[x].want > 0
  BY <1>2, <1>3, <1>4
<1> QED BY <1>1, <1>2, <1>4, <1>5, <1>6, <1>7, <1>8, SteadyStep DEF WakeCore

\* Windows move or bytes leave the buffer, and whoever gains room is named in the verdict;
\* on a connection error nobody need be.
LEMMA RoomWake ==
    ASSUME SendInv, SendInv', WakeCore, NEW a \in Actors,
           UNCHANGED <<sst, conn, pc, chunk, evt>>,
           owes[a].set = {}, ~owes[a].cap, \A b \in Actors \ {a} : owes'[b] = owes[b],
           q'.send = q.send, q'.cap = q.cap, q'.inSend = q.inSend, q'.inCap = q.inCap,
           rpc' = "read" => rpc = "read",
           \A x \in Streams : sst[x] = "streaming" /\ x \notin owes'[a].set =>
               /\ q'.turn[x] = q.turn[x]
               /\ rpc' = "read" => flow'[x].win <= flow[x].win /\ buffered'[x] = buffered[x]
    PROVE  WakeCore'
<1>1. TypeOK /\ TypeOK' /\ q' \in QType
  BY DEF SendInv, TypeOK, QType
<1>2. /\ CapOwed => CapOwed'
      /\ \A x \in Streams : Unnamed(x)' => Unnamed(x) /\ x \notin owes'[a].set
  BY <1>1, Answer
<1>3. \A x \in Streams : Asleep(x)' => Asleep(x) /\ sst[x] = "streaming" /\ x \notin owes'[a].set
  BY <1>2 DEF Asleep, WakeCore, SleepersOK
<1>4. ASSUME NEW x \in Streams, flow'[x].win <= flow[x].win, buffered'[x] = buffered[x],
             StreamRoom(x) = 0
      PROVE  StreamRoom(x)' = 0
  <2>1. flow[x].win <= 0 \/ buffered[x] >= MaxSendBuf
    BY <1>1, <1>4, RoomZero
  <2>2. flow[x].win \in Int /\ flow'[x].win \in Int /\ buffered'[x] \in Nat /\ MaxSendBuf \in Nat
    <3>1. flow[x] \in FlowType /\ flow'[x] \in FlowType /\ buffered'[x] \in 0..MaxSendBuf
      BY <1>1 DEF TypeOK, FlowType
    <3> QED BY <3>1, SendConstants DEF FlowType
  <2>3. flow'[x].win <= 0 \/ buffered'[x] >= MaxSendBuf
    BY <1>4, <2>1, <2>2
  <2> QED BY <2>2, <2>3 DEF StreamRoom, Min2, WindowSize
<1>5. \A x \in Streams : q.inSend[x] \/ q.inCap[x] =>
         sst'[x] = "streaming" /\ pc'[x] \in MidChunk /\ chunk'[x].want > 0
  BY DEF WakeCore, QueueInv, QueuesMatchFlags, QueuedMidChunk, MidChunk
<1>6. \A x \in Streams : Asleep(x)' =>
               /\ Asleep(x) /\ sst'[x] = sst[x] /\ q'.turn[x] = q.turn[x]
               /\ rpc' = "read" /\ StreamRoom(x) = 0 => StreamRoom(x)' = 0
  BY <1>3, <1>4
<1> QED BY <1>1, <1>2, <1>5, <1>6, SteadyStep DEF WakeCore

\* The flow-control frames that leave the queues alone, the takes of the buffer, the
\* credit of what was written, and the pumps' own steps.
LEMMA PumpsWake ==
    ASSUME SendInv, SendInv', WakeCore, PumpsOweNothing,
           \/ \E s \in Streams, n \in Increments :
                 RecvStreamWindowUpdate(s, n) /\ ~Overflows(flow[s], n)
           \/ \E n \in Increments : RecvConnWindowUpdate(n) /\ Overflows(conn, n)
           \/ \E w \in InitWindows : RecvSettings(w)
           \/ FlushTake \/ FlushWritten \/ FlushFails \/ PumpWake \/ PumpTake \/ PumpWritten
    PROVE  WakeCore'
<1>1. /\ TypeOK /\ owes \in OwesType /\ q \in QType /\ "rd" \in Actors /\ "wp" \in Actors
      /\ flow \in [Streams -> FlowType] /\ inflight \in [Streams -> Nat] /\ initWin \in Int
      /\ q.turn \in [Streams -> Nat] /\ Increments \subseteq Nat /\ InitWindows \subseteq Nat
  <2>1. Increments \subseteq Nat /\ InitWindows \subseteq Nat
    BY SendConstants
  <2>2. initWin \in InitWindows
    BY DEF SendInv, TypeOK
  <2>3. initWin \in Int
    BY <2>1, <2>2
  <2>4. /\ TypeOK /\ owes \in OwesType /\ q \in QType /\ "rd" \in Actors /\ "wp" \in Actors
        /\ flow \in [Streams -> FlowType] /\ inflight \in [Streams -> Nat]
        /\ q.turn \in [Streams -> Nat]
    BY DEF SendInv, TypeOK, OwesType, QType, FlowType, Actors
  <2> QED BY <2>1, <2>3, <2>4
<1>2. ASSUME NEW a \in Actors, Free(a) PROVE owes[a].set = {} /\ ~owes[a].cap
  BY <1>2 DEF Free, Clear, Verdict
<1>3. ASSUME NEW s \in Streams, NEW n \in Increments,
             RecvStreamWindowUpdate(s, n), ~Overflows(flow[s], n)
      PROVE  WakeCore'
  <2>1. /\ UNCHANGED <<sst, conn, pc, chunk, evt, q, rpc, buffered>> /\ Free("rd")
        /\ flow' = [flow EXCEPT ![s] = Grown(@, n)]
        /\ owes' = [owes EXCEPT !["rd"].set = {s}]
    BY <1>3 DEF RecvStreamWindowUpdate, Reading
  <2>2. \A x \in Streams \ {s} : flow'[x].win <= flow[x].win
    BY <1>1, <2>1 DEF FlowType
  <2>3. owes'["rd"].set = {s} /\ \A b \in Actors \ {"rd"} : owes'[b] = owes[b]
    BY <1>1, <2>1 DEF OwesType
  <2> QED BY <1>1, <1>2, <2>1, <2>2, <2>3, RoomWake
<1>4. ASSUME NEW n \in Increments, RecvConnWindowUpdate(n), Overflows(conn, n)
      PROVE  WakeCore'
  <2>1. /\ UNCHANGED <<sst, conn, pc, chunk, evt, q, flow, buffered>> /\ Free("rd") /\ rpc' # "read"
        /\ \A b \in Actors \ {"rd"} : owes'[b] = owes[b]
    BY <1>1, <1>4 DEF RecvConnWindowUpdate, Reading, ConnectionError, OwesType
  <2> QED BY <1>1, <1>2, <2>1, RoomWake
<1>5. ASSUME NEW w \in InitWindows, RecvSettings(w)
      PROVE  WakeCore'
  <2> DEFINE d == w - initWin
             over == {s \in SendOpen : d > 0 /\ Overflows(flow[s], d)}
  <2>1. /\ UNCHANGED <<sst, conn, pc, chunk, evt, q, buffered>> /\ Free("rd") /\ rpc = "read"
        /\ \A b \in Actors \ {"rd"} : owes'[b] = owes[b]
    BY <1>1, <1>5 DEF RecvSettings, Reading, ConnectionError, OwesType
  <2>2. CASE over # {}
    <3>1. rpc' # "read"
      BY <1>5, <2>2 DEF RecvSettings, ConnectionError
    <3> QED BY <1>1, <1>2, <2>1, <3>1, RoomWake
  <2>3. CASE over = {}
    <3>1. /\ flow' = [s \in Streams |-> IF s \in SendOpen THEN Grown(flow[s], d) ELSE flow[s]]
          /\ owes' = [owes EXCEPT !["rd"] = Verdict(IF d > 0 THEN SendOpen ELSE {}, TRUE, FALSE)]
      BY <1>5, <2>3 DEF RecvSettings
    <3>2. d \in Int
      BY <1>1
    <3>3. owes'["rd"].set = IF d > 0 THEN SendOpen ELSE {}
      BY <1>1, <3>1 DEF OwesType, Verdict
    <3> HIDE DEF d
    <3>4. ASSUME NEW x \in Streams, sst[x] = "streaming", x \notin owes'["rd"].set
          PROVE  flow'[x].win <= flow[x].win
      <4>1. x \in SendOpen /\ d <= 0
        BY <3>2, <3>3, <3>4 DEF SendOpen
      <4>2. flow'[x] = Grown(flow[x], d) /\ flow[x].win \in Int
        BY <1>1, <3>1, <4>1 DEF FlowType
      <4> QED BY <3>2, <4>1, <4>2 DEF Grown
    <3> QED BY <1>1, <1>2, <2>1, <3>4, RoomWake
  <2> QED BY <2>2, <2>3
<1>6. \A x \in Streams : flow[x].win <= flow[x].win
  BY <1>1 DEF FlowType
<1>7. CASE FlushTake \/ FlushFails
  <2>1. UNCHANGED <<sst, conn, pc, chunk, evt, q, flow, buffered, owes>> /\ rpc' # "read" /\ Free("rd")
    BY <1>7 DEF FlushTake, FlushFails, stateVars, PumpsOweNothing
  <2> QED BY <1>1, <1>2, <2>1, RoomWake
<1>8. CASE PumpWake \/ PumpTake
  <2>1. UNCHANGED <<sst, conn, pc, chunk, evt, q, flow, buffered, owes, rpc>> /\ Free("wp")
    BY <1>8 DEF PumpWake, PumpTake, stateVars, PumpsOweNothing
  <2>2. \A x \in Streams : flow'[x].win <= flow[x].win
    BY <1>6, <2>1
  <2> QED BY <1>1, <1>2, <2>1, <2>2, RoomWake
<1>9. ASSUME NEW a \in {"rd", "wp"}, Free(a), CreditWritten(a),
             UNCHANGED <<sst, conn, pc, chunk, evt, flow>>, rpc' = "read" => rpc = "read"
      PROVE  WakeCore'
  <2>1. a \in Actors
    BY <1>1
  <2>2. /\ owes'[a].set = Credited /\ \A b \in Actors \ {a} : owes'[b] = owes[b]
    BY <1>1, <1>9, <2>1 DEF CreditWritten, OwesType
  <2>3. /\ q'.send = q.send /\ q'.cap = q.cap /\ q'.inSend = q.inSend /\ q'.inCap = q.inCap
        /\ \A x \in Streams \ Credited : q'.turn[x] = q.turn[x]
    BY <1>1, <1>9 DEF CreditWritten, QType
  <2>4. \A x \in Streams \ Credited : buffered'[x] = buffered[x]
    BY <1>9 DEF CreditWritten
  <2>5. \A x \in Streams : flow'[x].win <= flow[x].win
    BY <1>6, <1>9
  <2> QED BY <1>2, <1>9, <2>1, <2>2, <2>3, <2>4, <2>5, RoomWake
<1>10. CASE FlushWritten
  BY <1>9, <1>10 DEF FlushWritten, PumpsOweNothing
<1>11. CASE PumpWritten
  BY <1>9, <1>11 DEF PumpWritten, PumpsOweNothing
<1> QED BY <1>3, <1>4, <1>5, <1>7, <1>8, <1>10, <1>11

-----------------------------------------------------------------------------
(* Steps on the queues from outside.                                         *)

\* Admitting the first waiter for connection window and waking the front, as a verdict's
\* act and as a WINDOW_UPDATE of the connection do.
LEMMA AdmitWake ==
    ASSUME SendInv, SendInv', WakeCore, NEW a \in Actors,
           UNCHANGED <<sst, flow, buffered, pc, chunk, evt, rpc>>, owes[a].set = {},
           q' = PruneSend(AdmitCapacityFront(q, WindowSize(conn'))),
           owes'[a].set = IF q'.send = <<>> THEN {} ELSE {Head(q'.send)},
           \A b \in Actors \ {a} : owes'[b] = owes[b]
    PROVE  WakeCore'
<1> DEFINE r == AdmitCapacityFront(q, WindowSize(conn'))
<1>1. /\ InLine(q) /\ Live(q) /\ \A x \in Streams : ~(q.inSend[x] /\ q.inCap[x])
      /\ \A x \in Streams : q.inSend[x] \/ q.inCap[x] =>
            sst[x] = "streaming" /\ pc[x] \in MidChunk /\ chunk[x].want > 0
  BY QueueFacts DEF SendInv, WakeCore, QueueInv, QueuesMatchFlags, QueuedMidChunk, MidChunk
<1>2. /\ InLine(r)
      /\ \A x \in Streams : /\ r.inSend[x] \/ r.inCap[x] <=> q.inSend[x] \/ q.inCap[x]
                            /\ ~(r.inSend[x] /\ r.inCap[x])
      /\ r.cap # <<>> /\ WindowSize(conn') # 0 => r.send # <<>>
  BY <1>1, AdmitLine
<1> HIDE DEF r
<1>3. q' = r
  <2>1. Live(r)
    BY <1>1, <1>2 DEF Live
  <2> QED BY <1>2, <2>1, PruneLine DEF r
<1>4. InLine(q)'
  <2>1. InLine(q')
    BY <1>2, <1>3
  <2> QED BY <2>1 DEF InLine, Holds
<1>5. QueueInv'
  BY <1>1, <1>2, <1>3, <1>4, QueueFrom
<1>6. \A x \in Streams : Unnamed(x)' => Unnamed(x) /\ x \notin owes'[a].set
  BY DEF Unnamed
<1>7. \A x \in Streams : Asleep(x)' => Asleep(x) /\ x \notin owes'[a].set
  BY <1>6 DEF Asleep
<1>8. SleepersOK'
  <2>1. \A x \in Streams : StreamRoom(x)' = StreamRoom(x)
    BY DEF StreamRoom, WindowSize
  <2> QED BY <1>2, <1>3, <1>7, <2>1 DEF SleepersOK, WakeCore
<1>9. RotationMoves'
  <2>1. ASSUME q'.send # <<>> PROVE ~Asleep(Head(q.send))'
    <3>1. Head(q'.send) \in Streams
      BY <1>2, <1>3, <2>1, LineType, HoldsTail
    <3>2. Head(q'.send) \in owes'[a].set
      BY <2>1
    <3> QED BY <1>7, <3>1, <3>2
  <2>2. ASSUME q'.cap # <<>>, WindowSize(conn') > 0 PROVE q'.send # <<>>
    BY <1>2, <1>3, <2>2
  <2>3. WindowSize(conn)' = WindowSize(conn')
    BY DEF WindowSize
  <2> QED BY <2>1, <2>2, <2>3 DEF RotationMoves
<1> QED BY <1>5, <1>8, <1>9 DEF WakeCore

\* What a queue operation that asks for no wake leaves: the same front, or nothing to wake.
Settled(q2, q1, cw) ==
    \/ SameFront(q2, q1) /\ (q2.cap # <<>> /\ cw > 0 => q1.cap # <<>>)
    \/ q2.send = <<>> /\ (q2.cap = <<>> \/ ~(cw > 0))

\* Without the flag, leaving the rotation or both queues settles them.
LEMMA LeaveSettled ==
    ASSUME NEW qq, InLine(qq), NEW s \in Streams, NEW cw
    PROVE  /\ ~LeaveSendFlag(qq, s, cw) => Settled(LeaveSend(qq, s), qq, cw)
           /\ ~LeaveQueuesFlag(qq, s, cw) => Settled(LeaveQueues(qq, s), qq, cw)
           /\ InLine(LeaveQueues(qq, s))
           /\ LeaveQueues(qq, s).inSend = [qq.inSend EXCEPT ![s] = FALSE]
           /\ LeaveQueues(qq, s).inCap = [qq.inCap EXCEPT ![s] = FALSE]
           /\ \A x \in Streams \ {s} : LeaveQueues(qq, s).turn[x] = qq.turn[x]
<1> DEFINE l == LeaveSend(qq, s)
           r == LeaveQueues(qq, s)
<1>1. /\ InLine(l) /\ l.inSend = [qq.inSend EXCEPT ![s] = FALSE]
      /\ l.inCap = qq.inCap /\ l.cap = qq.cap /\ \A x \in Streams \ {s} : l.turn[x] = qq.turn[x]
      /\ ~(qq.inSend[s] /\ Leads(qq.send, s)) => SameFront(l, qq)
  BY LeaveSendLine
<1>2. ASSUME ~LeaveSendFlag(qq, s, cw) PROVE Settled(l, qq, cw)
  BY <1>1, <1>2 DEF LeaveSendFlag, QueueWake, Settled
<1> HIDE DEF l
<1>3. /\ InLine(r) /\ r.inCap = [l.inCap EXCEPT ![s] = FALSE] /\ r.inSend = l.inSend
      /\ r.send = l.send /\ r.turn = l.turn /\ (r.cap # <<>> => l.cap # <<>>)
  BY <1>1, LeaveCapLine DEF LeaveQueues, l
<1>4. ASSUME ~LeaveQueuesFlag(qq, s, cw) PROVE Settled(r, qq, cw)
  <2>1. Settled(l, qq, cw)
    BY <1>2, <1>4 DEF LeaveQueuesFlag
  <2> HIDE DEF r
  <2> QED BY <1>3, <2>1 DEF Settled, SameFront
<1> HIDE DEF r
<1>5. \A x \in Streams \ {s} : r.turn[x] = qq.turn[x]
  BY <1>1, <1>3
<1>6. r.inSend = [qq.inSend EXCEPT ![s] = FALSE] /\ r.inCap = [qq.inCap EXCEPT ![s] = FALSE]
  BY <1>1, <1>3
<1> QED BY <1>2, <1>3, <1>4, <1>5, <1>6 DEF l, r

\* The rotation moves on when the queues settled, or the capacity act is owed.
LEMMA RotationFrom ==
    ASSUME RotationMoves, CapOwed => CapOwed',
           CapOwed' \/ Settled(q', q, WindowSize(conn')),
           WindowSize(conn') > 0 => WindowSize(conn) > 0,
           q'.send # <<>> /\ SameFront(q', q) /\ Asleep(Head(q.send))' =>
               Asleep(Head(q.send)) /\ (q.turn[Head(q.send)] > 0 => q'.turn[Head(q.send)] > 0)
    PROVE  RotationMoves'
<1>1. CASE CapOwed'
  BY <1>1 DEF RotationMoves
<1>2. CASE ~CapOwed' /\ SameFront(q', q) /\ (q'.cap # <<>> /\ WindowSize(conn') > 0 => q.cap # <<>>)
  <2>1. ASSUME q'.send # <<>>, Asleep(Head(q.send))' PROVE q'.turn[Head(q'.send)] > 0
    <3>1. q.send # <<>> /\ Head(q'.send) = Head(q.send)
      BY <1>2, <2>1 DEF SameFront
    <3>2. Asleep(Head(q.send)) /\ (q.turn[Head(q.send)] > 0 => q'.turn[Head(q.send)] > 0)
      BY <1>2, <2>1
    <3> QED BY <1>2, <3>1, <3>2 DEF RotationMoves
  <2>2. ASSUME q'.cap # <<>>, WindowSize(conn') > 0 PROVE q'.send # <<>>
    BY <1>2, <2>2 DEF RotationMoves, SameFront
  <2>3. WindowSize(conn)' = WindowSize(conn')
    BY DEF WindowSize
  <2> QED BY <2>1, <2>2, <2>3 DEF RotationMoves
<1>3. CASE q'.send = <<>> /\ (q'.cap = <<>> \/ ~(WindowSize(conn') > 0))
  <2>1. WindowSize(conn)' = WindowSize(conn')
    BY DEF WindowSize
  <2> QED BY <1>3, <2>1 DEF RotationMoves
<1> QED BY <1>1, <1>2, <1>3 DEF Settled

\* A reset closes the stream, takes it out of both queues and names its sender.
LEMMA CloseWake ==
    ASSUME SendInv, SendInv', WakeCore, NEW a \in Actors, NEW s \in Streams,
           UNCHANGED <<flow, buffered, conn, pc, chunk, evt, rpc>>, Free(a),
           sst' = [sst EXCEPT ![s] = "gone"], q' = LeaveQueues(q, s),
           owes'[a].set = {s}, owes'[a].cap = LeaveQueuesFlag(q, s, WindowSize(conn)),
           \A b \in Actors \ {a} : owes'[b] = owes[b]
    PROVE  WakeCore'
<1>1. /\ TypeOK /\ InLine(q) /\ \A x \in Streams : ~(q.inSend[x] /\ q.inCap[x])
      /\ q.send # <<>> => Head(q.send) \in Streams
      /\ \A x \in Streams : q.inSend[x] \/ q.inCap[x] =>
            sst[x] = "streaming" /\ pc[x] \in MidChunk /\ chunk[x].want > 0
  BY QueueFacts DEF SendInv, WakeCore, QueueInv, QueuesMatchFlags, QueuedMidChunk, MidChunk
<1>2. /\ InLine(q') /\ q'.inSend = [q.inSend EXCEPT ![s] = FALSE]
      /\ q'.inCap = [q.inCap EXCEPT ![s] = FALSE]
      /\ \A x \in Streams \ {s} : q'.turn[x] = q.turn[x]
      /\ ~LeaveQueuesFlag(q, s, WindowSize(conn)) => Settled(q', q, WindowSize(conn))
  BY <1>1, LeaveSettled
<1>3. q.inSend \in Marks /\ q.inCap \in Marks
  BY <1>1, LineType
<1>4. /\ ~q'.inSend[s] /\ ~q'.inCap[s]
      /\ \A x \in Streams \ {s} : q'.inSend[x] = q.inSend[x] /\ q'.inCap[x] = q.inCap[x]
  BY <1>2, <1>3 DEF Marks
<1>5. \A x \in Streams \ {s} : sst'[x] = sst[x]
  BY <1>1 DEF TypeOK
<1>6. InLine(q)'
  BY <1>2 DEF InLine, Holds
<1>7. QueueInv'
  <2>1. ASSUME NEW x \in Streams, (q.inSend[x] \/ q.inCap[x])'
        PROVE  /\ sst'[x] = "streaming" /\ ~(q.inSend[x] /\ q.inCap[x])'
               /\ pc'[x] \in MidChunk /\ chunk'[x].want > 0
    <3>1. x # s
      BY <1>4, <2>1
    <3> QED BY <1>1, <1>4, <1>5, <2>1, <3>1
  <2> QED BY <1>6, <2>1, QueueFrom
<1>8. /\ CapOwed => CapOwed'
      /\ owes'[a].cap => CapOwed'
      /\ \A x \in Streams : Unnamed(x)' => Unnamed(x) /\ x # s
  <2>1. owes[a].set = {} /\ ~owes[a].cap
    BY DEF Free, Clear, Verdict
  <2> QED BY <1>1, <2>1, Answer
<1>9. \A x \in Streams : Asleep(x)' => Asleep(x) /\ x # s
  BY <1>8 DEF Asleep
<1>10. SleepersOK'
  <2>1. \A x \in Streams : StreamRoom(x)' = StreamRoom(x)
    BY DEF StreamRoom, WindowSize
  <2> QED BY <1>4, <1>5, <1>9, <2>1 DEF SleepersOK, WakeCore
<1>11. RotationMoves'
  <2>1. CapOwed' \/ Settled(q', q, WindowSize(conn'))
    BY <1>2, <1>8
  <2>2. ASSUME q'.send # <<>>, SameFront(q', q), Asleep(Head(q.send))'
        PROVE  /\ Asleep(Head(q.send))
               /\ q.turn[Head(q.send)] > 0 => q'.turn[Head(q.send)] > 0
    <3>1. Head(q.send)' \in Streams /\ Head(q.send)' = Head(q.send)
      BY <1>1, <2>2 DEF SameFront
    <3>2. Asleep(Head(q.send)) /\ Head(q.send) # s
      BY <1>1, <1>9, <2>2, <3>1
    <3> QED BY <1>2, <3>1, <3>2
  <2> QED BY <1>8, <2>1, <2>2, RotationFrom DEF WakeCore
<1> QED BY <1>7, <1>10, <1>11 DEF WakeCore

\* _fail empties the queues and names every stored stream.
LEMMA FailWake ==
    ASSUME SendInv, SendInv', WakeCore, NEW a \in Actors,
           UNCHANGED <<flow, buffered, conn, pc, chunk, evt>>, Free(a), FailAll(a)
    PROVE  WakeCore'
<1>1. /\ TypeOK /\ owes \in OwesType
  BY DEF SendInv, TypeOK, OwesType
<1>2. /\ q' = NoQueues /\ sst' = [s \in Streams |-> IF s \in Active THEN "gone" ELSE sst[s]]
      /\ owes'[a].set = Active /\ \A b \in Actors \ {a} : owes'[b] = owes[b]
  BY <1>1 DEF FailAll, OwesType, Verdict
<1>3. /\ q'.send = <<>> /\ q'.cap = <<>>
      /\ \A x \in Streams : ~q'.inSend[x] /\ ~q'.inCap[x]
  BY <1>2 DEF NoQueues
<1>4. InLine(q)'
  BY <1>3 DEF SendInv, TypeOK, InLine, Holds, QType
<1>5. QueueInv'
  BY <1>3, <1>4, QueueFrom
<1>6. \A x \in Streams : Asleep(x)' => Asleep(x) /\ x \notin Active
  <2>1. owes[a].set = {} /\ ~owes[a].cap
    BY DEF Free, Clear, Verdict
  <2>2. \A x \in Streams : Unnamed(x)' => Unnamed(x) /\ x \notin Active
    BY <1>1, <1>2, <2>1, Answer
  <2> QED BY <2>2 DEF Asleep
<1>7. \A x \in Streams : ~Asleep(x)'
  BY <1>6 DEF WakeCore, SleepersOK, Active
<1> QED BY <1>3, <1>5, <1>7 DEF WakeCore, SleepersOK, RotationMoves

\* The actions that do so.
LEMMA OutsideWake ==
    ASSUME SendInv, SendInv', WakeCore,
           \/ \E a \in Actors : AfterCapacity(a)
           \/ \E n \in Increments : RecvConnWindowUpdate(n) /\ ~Overflows(conn, n)
           \/ \E s \in Streams : RecvReset(s) \/ AppReset(s)
           \/ \E s \in Streams, n \in Increments :
                 RecvStreamWindowUpdate(s, n) /\ Overflows(flow[s], n)
           \/ ReadFails \/ PumpFails
    PROVE  WakeCore'
<1>1. owes \in OwesType /\ "rd" \in Actors /\ "app" \in Actors /\ "wp" \in Actors
  BY DEF SendInv, TypeOK, OwesType, Actors
<1>2. ASSUME NEW a \in Actors, AfterCapacity(a) PROVE WakeCore'
  <2>1. /\ UNCHANGED <<sst, flow, buffered, pc, chunk, evt, rpc, conn>> /\ owes[a].set = {}
        /\ q' = PruneSend(AdmitCapacityFront(q, WindowSize(conn)))
        /\ owes' = [owes EXCEPT ![a] =
               Verdict(IF q'.send = <<>> THEN {} ELSE {Head(q'.send)}, FALSE, FALSE)]
    BY <1>2 DEF AfterCapacity
  <2>2. /\ owes'[a].set = IF q'.send = <<>> THEN {} ELSE {Head(q'.send)}
        /\ \A b \in Actors \ {a} : owes'[b] = owes[b]
    BY <1>1, <2>1 DEF Verdict, OwesType
  <2> QED BY <2>1, <2>2, AdmitWake
<1>3. ASSUME NEW n \in Increments, RecvConnWindowUpdate(n), ~Overflows(conn, n) PROVE WakeCore'
  <2>1. /\ UNCHANGED <<sst, flow, buffered, pc, chunk, evt, rpc>> /\ Free("rd")
        /\ q' = PruneSend(AdmitCapacityFront(q, WindowSize(conn')))
        /\ owes' = [owes EXCEPT !["rd"].set = IF q'.send = <<>> THEN {} ELSE {Head(q'.send)}]
    BY <1>3 DEF RecvConnWindowUpdate, Reading
  <2>2. /\ owes'["rd"].set = IF q'.send = <<>> THEN {} ELSE {Head(q'.send)}
        /\ \A b \in Actors \ {"rd"} : owes'[b] = owes[b] /\ owes["rd"].set = {}
    BY <1>1, <2>1 DEF OwesType, Free, Clear, Verdict
  <2>3. owes["rd"].set = {}
    BY <2>1 DEF Free, Clear, Verdict
  <2> QED BY <1>1, <2>1, <2>2, <2>3, AdmitWake
<1>4. ASSUME NEW a \in {"rd", "app"}, NEW s \in Streams, NEW w \in BOOLEAN, Free(a),
             UNCHANGED <<flow, buffered, conn, pc, chunk, evt, rpc>>,
             sst' = [sst EXCEPT ![s] = "gone"], q' = LeaveQueues(q, s),
             owes' = [owes EXCEPT ![a] = Verdict({s}, w, LeaveQueuesFlag(q, s, WindowSize(conn)))]
      PROVE  WakeCore'
  <2>1. a \in Actors
    BY <1>1
  <2>2. /\ owes'[a] = Verdict({s}, w, LeaveQueuesFlag(q, s, WindowSize(conn)))
        /\ \A b \in Actors \ {a} : owes'[b] = owes[b]
    BY <1>1, <1>4, <2>1 DEF OwesType
  <2>3. owes'[a].set = {s} /\ owes'[a].cap = LeaveQueuesFlag(q, s, WindowSize(conn))
    BY <2>2 DEF Verdict
  <2> QED BY <1>4, <2>1, <2>2, <2>3, CloseWake
<1>5. ASSUME NEW s \in Streams, RecvReset(s) PROVE WakeCore'
  BY <1>4, <1>5 DEF RecvReset, Reading
<1>6. ASSUME NEW s \in Streams, AppReset(s) PROVE WakeCore'
  BY <1>4, <1>6 DEF AppReset, ResetBy
<1>7. ASSUME NEW s \in Streams, NEW n \in Increments, RecvStreamWindowUpdate(s, n),
             Overflows(flow[s], n)
      PROVE WakeCore'
  BY <1>4, <1>7 DEF RecvStreamWindowUpdate, ResetBy, Reading
<1>8. CASE ReadFails
  BY <1>1, <1>8, FailWake DEF ReadFails
<1>9. CASE PumpFails
  BY <1>1, <1>9, FailWake DEF PumpFails
<1> QED BY <1>2, <1>3, <1>5, <1>6, <1>7, <1>8, <1>9

-----------------------------------------------------------------------------
(* The sender's own steps on the queues.                                     *)

\* A step of a sender that concerns its own stream alone.
LEMMA OwnStep ==
    ASSUME SendInv, SendInv', WakeCore, NEW s \in Streams, Free(s),
           UNCHANGED <<evt, rpc>>, InLine(q)', owes'[s].set = {},
           \A b \in Actors \ {s} : owes'[b] = owes[b],
           \A x \in Streams \ {s} :
               /\ pc'[x] = pc[x] /\ sst'[x] = sst[x] /\ chunk'[x] = chunk[x]
               /\ flow'[x] = flow[x] /\ buffered'[x] = buffered[x]
               /\ q'.inSend[x] = q.inSend[x] /\ q'.inCap[x] = q.inCap[x],
           q'.inSend[s] \/ q'.inCap[s] =>
               /\ sst'[s] = "streaming" /\ ~(q'.inSend[s] /\ q'.inCap[s])
               /\ pc'[s] \in MidChunk /\ chunk'[s].want > 0,
           pc'[s] = "wait" =>
               /\ sst'[s] = "streaming"
               /\ ~q'.inSend[s] /\ ~q'.inCap[s] => StreamRoom(s)' = 0
    PROVE  /\ QueueInv' /\ SleepersOK'
           /\ CapOwed => CapOwed'
           /\ owes'[s].cap => CapOwed'
           /\ \A x \in Streams \ {s} : Asleep(x)' => Asleep(x)
<1>1. /\ TypeOK /\ s \in Actors /\ \A x \in Streams : ~(q.inSend[x] /\ q.inCap[x])
      /\ \A x \in Streams : q.inSend[x] \/ q.inCap[x] =>
            sst[x] = "streaming" /\ pc[x] \in MidChunk /\ chunk[x].want > 0
  BY QueueFacts DEF SendInv, WakeCore, QueueInv, QueuesMatchFlags, QueuedMidChunk, MidChunk,
     Actors
<1>2. QueueInv'
  <2>1. ASSUME NEW x \in Streams, (q.inSend[x] \/ q.inCap[x])'
        PROVE  /\ sst'[x] = "streaming" /\ ~(q.inSend[x] /\ q.inCap[x])'
               /\ pc'[x] \in MidChunk /\ chunk'[x].want > 0
    <3>1. CASE x = s
      BY <2>1, <3>1
    <3>2. CASE x # s
      BY <1>1, <2>1, <3>2
    <3> QED BY <3>1, <3>2
  <2> QED BY <2>1, QueueFrom
<1>3. /\ CapOwed => CapOwed'
      /\ owes'[s].cap => CapOwed'
      /\ \A x \in Streams : Unnamed(x)' => Unnamed(x)
  <2>1. owes[s].set = {} /\ ~owes[s].cap
    BY DEF Free, Clear, Verdict
  <2> QED BY <1>1, <2>1, Answer
<1>4. \A x \in Streams \ {s} : Asleep(x)' => Asleep(x)
  BY <1>3 DEF Asleep
<1>5. SleepersOK'
  <2>1. \A x \in Streams \ {s} : StreamRoom(x)' = StreamRoom(x)
    BY DEF StreamRoom, WindowSize
  <2>2. ASSUME NEW x \in Streams \ {s}, Asleep(x)'
        PROVE  /\ sst'[x] = "streaming"
               /\ (rpc = "read" /\ ~q.inSend[x] /\ ~q.inCap[x] => StreamRoom(x) = 0)'
    BY <1>4, <2>1, <2>2 DEF SleepersOK, WakeCore
  <2>3. ASSUME Asleep(s)'
        PROVE  /\ sst'[s] = "streaming"
               /\ (rpc = "read" /\ ~q.inSend[s] /\ ~q.inCap[s] => StreamRoom(s) = 0)'
    BY <2>3 DEF Asleep
  <2> QED BY <2>2, <2>3 DEF SleepersOK
<1> QED BY <1>2, <1>3, <1>4, <1>5

\* The queues as a ready sender finds them: it has left the line for connection window.
LEMMA ReadyLine ==
    ASSUME SendInv, WakeCore, NEW s \in Streams
    PROVE  LET r == ReadyQueues(s)
           IN  /\ InLine(r) /\ r.send = q.send /\ r.turn = q.turn /\ r.inSend = q.inSend
               /\ ~r.inCap[s] /\ \A x \in Streams \ {s} : r.inCap[x] = q.inCap[x]
               /\ r.cap # <<>> => q.cap # <<>>
<1> DEFINE l == LeaveCapacity(q, s)
<1>1. InLine(q) /\ Live(q) /\ q.inCap \in Marks
  BY QueueFacts, LineType DEF SendInv, WakeCore
<1>2. /\ InLine(l) /\ l.inCap = [q.inCap EXCEPT ![s] = FALSE] /\ l.inSend = q.inSend
      /\ l.send = q.send /\ l.turn = q.turn /\ (l.cap # <<>> => q.cap # <<>>)
  BY <1>1, LeaveCapLine
<1> HIDE DEF l
<1>3. ~l.inCap[s] /\ \A x \in Streams \ {s} : l.inCap[x] = q.inCap[x]
  BY <1>1, <1>2 DEF Marks
<1>4. Live(l)
  <2>1. \A x \in Streams : l.inSend[x] \/ l.inCap[x] => q.inSend[x] \/ q.inCap[x]
    BY <1>2, <1>3
  <2> QED BY <1>1, <2>1 DEF Live
<1>5. ReadyQueues(s) = l
  BY <1>2, <1>4, PruneLine DEF ReadyQueues, l
<1> QED BY <1>2, <1>3, <1>5, Zenon

\* The queues of a sender whose turn it is: it leads the rotation.
LEMMA TurnLine ==
    ASSUME SendInv, WakeCore, NEW s \in Streams, MyTurn(s)
    PROVE  LET t == TurnQueues(s)
           IN  /\ InLine(t) /\ Leads(t.send, s) /\ t.inSend[s] /\ ~t.inCap[s]
               /\ \A x \in Streams \ {s} : t.inSend[x] = q.inSend[x] /\ t.inCap[x] = q.inCap[x]
<1> DEFINE r == ReadyQueues(s)
           t == TurnQueues(s)
<1>1. /\ InLine(r) /\ r.inSend = q.inSend
      /\ ~r.inCap[s] /\ \A x \in Streams \ {s} : r.inCap[x] = q.inCap[x]
  BY ReadyLine
<1>2. r.send # <<>> => Head(r.send) = s
  BY DEF MyTurn
<1>3. t = IF r.send = <<>> THEN EnqueueSend(r, s) ELSE r
  BY DEF TurnQueues
<1> HIDE DEF r, t
<1>4. CASE r.send = <<>>
  <2>1. /\ InLine(t) /\ t.inSend = [r.inSend EXCEPT ![s] = TRUE] /\ t.inCap = r.inCap
        /\ t.send # <<>> /\ Head(t.send) = s
    BY <1>1, <1>3, <1>4, EnqueueSendLine
  <2>2. r.inSend \in Marks
    BY <1>1, LineType
  <2>3. t.inSend[s] /\ \A x \in Streams \ {s} : t.inSend[x] = r.inSend[x]
    BY <2>1, <2>2 DEF Marks
  <2> QED BY <1>1, <2>1, <2>3 DEF Leads, t
<1>5. CASE r.send # <<>>
  <2>1. t = r
    BY <1>3, <1>5
  <2>2. r.inSend[s]
    BY <1>1, <1>2, <1>5, LineType, HoldsTail
  <2> QED BY <1>1, <1>2, <1>5, <2>1, <2>2 DEF Leads, t
<1> QED BY <1>4, <1>5

\* The calls of send_data that queue nothing and change the queues.
LEMMA ParkWake ==
    ASSUME SendInv, SendInv', WakeCore, NEW s \in Streams,
           SendNoWindow(s) \/ SendNotMyTurn(s) \/ SendYield(s) \/ SendPause(s)
    PROVE  WakeCore'
<1>1. /\ TypeOK /\ owes \in OwesType /\ InLine(q) /\ s \in Actors
      /\ q.send # <<>> => Head(q.send) \in Streams /\ q.inSend[Head(q.send)]
      /\ pc \in [Streams -> {"start", "idle", "try1", "clear", "try2", "wait", "end"}]
      /\ q.inSend \in Marks /\ q.inCap \in Marks
  BY QueueFacts, LineType DEF SendInv, WakeCore, TypeOK, OwesType, Actors
<1>2. /\ UNCHANGED <<evt, rpc, sst, chunk, flow, buffered, conn>>
      /\ Free(s) /\ sst[s] = "streaming" /\ chunk[s].want > 0 /\ pc' = Parked(s)
      /\ \A b \in Actors \ {s} : owes'[b] = owes[b]
      /\ owes'[s].set = owes[s].set
  BY <1>1 DEF SendNoWindow, SendNotMyTurn, SendYield, SendPause, MyTurn, Ready, Sending, Trying,
     OwesType
<1>3. owes'[s].set = {}
  BY <1>2 DEF Free, Clear, Verdict
<1>4. pc'[s] \in MidChunk /\ \A x \in Streams \ {s} : pc'[x] = pc[x]
  BY <1>1, <1>2 DEF Parked, MidChunk
<1>5. StreamRoom(s)' = StreamRoom(s) /\ WindowSize(conn') = WindowSize(conn)
  BY <1>2 DEF StreamRoom, WindowSize
<1>6. ASSUME InLine(q'), ~(q'.inSend[s] /\ q'.inCap[s]),
             q'.inSend[s] \/ q'.inCap[s] \/ StreamRoom(s) = 0,
             \A x \in Streams \ {s} : q'.inSend[x] = q.inSend[x] /\ q'.inCap[x] = q.inCap[x]
      PROVE  /\ QueueInv' /\ SleepersOK'
             /\ CapOwed => CapOwed'
             /\ owes'[s].cap => CapOwed'
             /\ \A x \in Streams \ {s} : Asleep(x)' => Asleep(x)
  <2>1. InLine(q)'
    BY <1>6 DEF InLine, Holds
  <2> QED BY <1>2, <1>3, <1>4, <1>5, <1>6, <2>1, OwnStep
<1>7. CASE SendNoWindow(s)
  <2> DEFINE short == WindowSize(conn) = 0 /\ StreamRoom(s) > 0
             lined == IF short THEN EnqueueCapacity(q, s) ELSE q
  <2>1. /\ q' = LeaveSend(lined, s)
        /\ owes' = [owes EXCEPT ![s].cap = LeaveSendFlag(lined, s, WindowSize(conn))]
        /\ Budget(s) = 0
    BY <1>7 DEF SendNoWindow
  <2>2. /\ InLine(lined) /\ lined.inSend = q.inSend /\ lined.send = q.send /\ lined.turn = q.turn
        /\ (short => lined.inCap = [q.inCap EXCEPT ![s] = TRUE])
        /\ (~short => lined = q)
    BY <1>1, EnqueueCapLine
  <2>3. \/ lined.inCap[s]
        \/ StreamRoom(s) = 0
    <3>1. short => lined.inCap[s]
      BY <1>1, <2>2 DEF Marks
    <3>2. StreamRoom(s) \in Nat /\ WindowSize(conn) \in Nat
      <4>1. StreamRoom(s) \in Nat
        BY <1>1, RoomZero
      <4>2. conn.win \in Int
        BY <1>1 DEF TypeOK
      <4> QED BY <4>1, <4>2 DEF WindowSize
    <3>3. ~short => StreamRoom(s) = 0
      BY <2>1, <3>2 DEF Budget, Min2
    <3> QED BY <3>1, <3>3
  <2>4. \A x \in Streams \ {s} : lined.inCap[x] = q.inCap[x]
    BY <1>1, <2>2 DEF Marks
  <2> HIDE DEF lined
  <2>5. /\ InLine(q') /\ q'.inSend = [q.inSend EXCEPT ![s] = FALSE] /\ q'.inCap = lined.inCap
        /\ \A x \in Streams \ {s} : q'.turn[x] = q.turn[x]
    BY <2>1, <2>2, LeaveSendLine
  <2>6. ~q'.inSend[s] /\ \A x \in Streams \ {s} : q'.inSend[x] = q.inSend[x]
    BY <1>1, <2>5 DEF Marks
  <2>7. /\ QueueInv' /\ SleepersOK'
        /\ CapOwed => CapOwed'
        /\ owes'[s].cap => CapOwed'
        /\ \A x \in Streams \ {s} : Asleep(x)' => Asleep(x)
    BY <1>6, <2>3, <2>4, <2>5, <2>6
  <2>8. CapOwed' \/ Settled(q', q, WindowSize(conn'))
    <3>1. owes'[s].cap = LeaveSendFlag(lined, s, WindowSize(conn))
      BY <1>1, <2>1 DEF OwesType
    <3>2. ~owes'[s].cap => Settled(q', lined, WindowSize(conn))
      BY <2>1, <2>2, <3>1, LeaveSettled
    <3>3. lined.cap = q.cap \/ WindowSize(conn) = 0
      BY <2>2
    <3>4. Settled(q', lined, WindowSize(conn)) => Settled(q', q, WindowSize(conn))
      BY <2>2, <3>3 DEF Settled, SameFront
    <3> QED BY <1>5, <2>7, <3>2, <3>4
  <2>9. ASSUME q'.send # <<>>, SameFront(q', q), Asleep(Head(q.send))'
        PROVE  /\ Asleep(Head(q.send))
               /\ q.turn[Head(q.send)] > 0 => q'.turn[Head(q.send)] > 0
    <3>1. /\ Head(q.send)' \in Streams /\ Head(q.send)' = Head(q.send) /\ q'.inSend[Head(q.send)]
      BY <2>5, <2>9, LineType, HoldsTail DEF SameFront
    <3>2. Head(q.send) # s
      BY <2>6, <3>1
    <3> QED BY <2>5, <2>7, <2>9, <3>1, <3>2
  <2>10. RotationMoves'
    BY <1>5, <2>7, <2>8, <2>9, RotationFrom DEF WakeCore
  <2> QED BY <2>7, <2>10 DEF WakeCore
<1>8. CASE SendNotMyTurn(s)
  <2> DEFINE r == ReadyQueues(s)
  <2>1. q' = EnqueueSend(r, s) /\ r.send # <<>> /\ Head(r.send) # s
    BY <1>8 DEF SendNotMyTurn
  <2>2. /\ InLine(r) /\ r.send = q.send /\ r.turn = q.turn /\ r.inSend = q.inSend
        /\ ~r.inCap[s] /\ \A x \in Streams \ {s} : r.inCap[x] = q.inCap[x]
        /\ r.cap # <<>> => q.cap # <<>>
    BY ReadyLine
  <2> HIDE DEF r
  <2>3. /\ InLine(q') /\ q'.inSend = [q.inSend EXCEPT ![s] = TRUE] /\ q'.inCap = r.inCap
        /\ q'.cap = r.cap /\ \A x \in Streams \ {s} : q'.turn[x] = q.turn[x]
        /\ SameFront(q', r)
    BY <2>1, <2>2, EnqueueSendLine
  <2>4. q'.inSend[s] /\ \A x \in Streams \ {s} : q'.inSend[x] = q.inSend[x]
    BY <1>1, <2>3 DEF Marks
  <2>5. /\ QueueInv' /\ SleepersOK'
        /\ CapOwed => CapOwed'
        /\ \A x \in Streams \ {s} : Asleep(x)' => Asleep(x)
    BY <1>6, <2>2, <2>3, <2>4
  <2>6. Settled(q', q, WindowSize(conn'))
    BY <2>2, <2>3 DEF Settled, SameFront
  <2>7. ASSUME q'.send # <<>>, SameFront(q', q), Asleep(Head(q.send))'
        PROVE  /\ Asleep(Head(q.send))
               /\ q.turn[Head(q.send)] > 0 => q'.turn[Head(q.send)] > 0
    <3>1. Head(q.send)' = Head(q.send) /\ Head(q.send) \in Streams \ {s}
      BY <1>1, <2>1, <2>2, <2>7 DEF SameFront
    <3> QED BY <2>3, <2>5, <2>7, <3>1
  <2>8. RotationMoves'
    BY <1>5, <2>5, <2>6, <2>7, RotationFrom DEF WakeCore
  <2> QED BY <2>5, <2>8 DEF WakeCore
<1>9. CASE SendYield(s) \/ SendPause(s)
  <2> DEFINE t == TurnQueues(s)
  <2>1. /\ InLine(t) /\ Leads(t.send, s) /\ t.inSend[s] /\ ~t.inCap[s]
        /\ \A x \in Streams \ {s} : t.inSend[x] = q.inSend[x] /\ t.inCap[x] = q.inCap[x]
    BY <1>9, TurnLine DEF SendYield, SendPause
  <2>2. CASE SendYield(s)
    <3>1. /\ q' = YieldTurn(t, s)
          /\ owes' = [owes EXCEPT ![s].cap = QueueWake(YieldTurn(t, s), WindowSize(conn))]
      BY <2>2 DEF SendYield
    <3> HIDE DEF t
    <3>2. InLine(q') /\ q'.inSend = t.inSend /\ q'.inCap = t.inCap /\ q'.send # <<>>
      BY <2>1, <3>1, YieldLine DEF Leads
    <3>3. owes'[s].cap
      BY <1>1, <3>1, <3>2 DEF OwesType, QueueWake
    <3>4. QueueInv' /\ SleepersOK' /\ CapOwed'
      BY <1>6, <2>1, <3>2, <3>3
    <3> QED BY <3>4 DEF WakeCore, RotationMoves
  <2>3. CASE SendPause(s)
    <3>1. q' = t /\ t.turn[s] >= BurstFrames
      BY <2>3 DEF SendPause, TurnOver
    <3>2. t.turn[s] > 0
      <4>1. q' \in QType /\ BurstFrames \in Nat \ {0}
        BY SendConstants DEF SendInv, TypeOK, QType
      <4> QED BY <3>1, <4>1 DEF QType
    <3> HIDE DEF t
    <3>3. QueueInv' /\ SleepersOK'
      BY <1>6, <2>1, <3>1
    <3>4. q'.send # <<>> /\ q'.turn[Head(q'.send)] > 0
      BY <2>1, <3>1, <3>2 DEF Leads
    <3> QED BY <3>3, <3>4 DEF WakeCore, RotationMoves
  <2> QED BY <1>9, <2>2, <2>3
<1> QED BY <1>7, <1>8, <1>9

\* One DATA frame: the sender keeps the front of the rotation, or leaves it with the wake
\* of the next.
LEMMA FrameWake ==
    ASSUME SendInv, SendInv', WakeCore, NEW s \in Streams, SendFrame(s)
    PROVE  WakeCore'
<1> DEFINE n == FrameSize(s)
           done == n = chunk[s].want
           t == TurnQueues(s)
           framed == [t EXCEPT !.turn[s] = @ + 1]
           cw == WindowSize(conn')
           room == StreamRoom(s)'
           lined == LinedAfterFrame(framed, s, n, room, cw)
           leaves == LeavesAfterFrame(s, n, room, cw)
           left == IF leaves THEN LeaveSend(lined, s) ELSE lined
<1>1. /\ TypeOK /\ WindowsBounded /\ owes \in OwesType /\ s \in Actors
      /\ pc \in [Streams -> {"start", "idle", "try1", "clear", "try2", "wait", "end"}]
      /\ sst \in [Streams -> StateType] /\ chunk \in [Streams -> [want : Nat, eos : BOOLEAN]]
      /\ flow \in [Streams -> FlowType] /\ buffered \in [Streams -> 0..MaxSendBuf]
      /\ conn.win \in Int
  BY DEF SendInv, TypeOK, OwesType, Actors, StateType, FlowType
<1>2. /\ MyTurn(s) /\ Ready(s) /\ Free(s) /\ sst[s] = "streaming" /\ pc[s] \in {"try1", "try2"}
  BY DEF SendFrame, MyTurn, Ready, Sending, Trying
<1>3. n \in Nat /\ n > 0 /\ n <= chunk[s].want
  BY <1>1, <1>2, FrameSizeBounds
<1>4. /\ UNCHANGED <<evt, rpc>>
      /\ conn' = Shrunk(conn, n)
      /\ flow' = [flow EXCEPT ![s] = Shrunk(@, n)]
      /\ buffered' = [buffered EXCEPT ![s] = @ + n]
      /\ chunk' = [chunk EXCEPT ![s].want = @ - n]
      /\ pc' = AfterFrame(s, done)
      /\ sst' = IF done /\ chunk[s].eos THEN AfterEndStream(s) ELSE sst
      /\ q' = IF sst'[s] = "gone" THEN LeaveQueues(left, s) ELSE left
      /\ owes' = [owes EXCEPT ![s] =
             Verdict({}, TRUE,
                     \/ leaves /\ LeaveSendFlag(lined, s, cw)
                     \/ sst'[s] = "gone" /\ LeaveQueuesFlag(left, s, cw))]
  BY DEF SendFrame
<1> HIDE DEF n
<1>5. /\ \A x \in Streams \ {s} :
            /\ pc'[x] = pc[x] /\ sst'[x] = sst[x] /\ chunk'[x] = chunk[x]
            /\ flow'[x] = flow[x] /\ buffered'[x] = buffered[x]
      /\ chunk'[s].want = chunk[s].want - n
      /\ ~done => sst'[s] = "streaming" /\ pc'[s] = pc[s]
      /\ pc'[s] # "wait"
  <2>1. \A x \in Streams \ {s} : flow'[x] = flow[x] /\ buffered'[x] = buffered[x]
    BY <1>1, <1>4
  <2>2. chunk'[s].want = chunk[s].want - n /\ \A x \in Streams \ {s} : chunk'[x] = chunk[x]
    BY <1>1, <1>4
  <2>3. /\ \A x \in Streams \ {s} : pc'[x] = pc[x]
        /\ pc'[s] # "wait" /\ (~done => pc'[s] = pc[s])
    BY <1>1, <1>2, <1>4 DEF AfterFrame
  <2>4. /\ \A x \in Streams \ {s} : sst'[x] = sst[x]
        /\ ~done => sst'[s] = "streaming"
    BY <1>1, <1>2, <1>4 DEF AfterEndStream
  <2> QED BY <2>1, <2>2, <2>3, <2>4
<1>6. /\ InLine(t) /\ Leads(t.send, s) /\ t.inSend[s] /\ ~t.inCap[s]
      /\ \A x \in Streams \ {s} : t.inSend[x] = q.inSend[x] /\ t.inCap[x] = q.inCap[x]
  BY <1>2, TurnLine
<1> HIDE DEF t
<1>7. /\ InLine(framed) /\ framed.send = t.send /\ framed.cap = t.cap
      /\ framed.inSend = t.inSend /\ framed.inCap = t.inCap
  <2>1. t \in QType
    BY <1>6, LineType
  <2>2. framed \in QType
    BY <2>1, FramedType
  <2>3. /\ framed.send = t.send /\ framed.cap = t.cap
        /\ framed.inSend = t.inSend /\ framed.inCap = t.inCap
    BY <2>1 DEF QType
  <2> HIDE DEF framed
  <2> QED BY <1>6, <2>2, <2>3 DEF InLine
<1> HIDE DEF framed
<1>8. /\ InLine(lined) /\ lined.send = t.send /\ lined.inSend = t.inSend
      /\ \A x \in Streams \ {s} : lined.inCap[x] = t.inCap[x]
      /\ lined = framed \/ (~done /\ cw = 0 /\ leaves)
  <2>1. CASE ~done /\ cw = 0 /\ room > 0
    <3>1. lined = EnqueueCapacity(framed, s) /\ leaves
      BY <2>1 DEF LinedAfterFrame, LeavesAfterFrame
    <3>2. /\ InLine(lined) /\ lined.send = t.send /\ lined.inSend = t.inSend
          /\ lined.inCap = [t.inCap EXCEPT ![s] = TRUE]
      BY <1>7, <3>1, EnqueueCapLine
    <3>3. t.inCap \in Marks
      BY <1>6, LineType
    <3>4. \A x \in Streams \ {s} : lined.inCap[x] = t.inCap[x]
      BY <3>2, <3>3 DEF Marks
    <3> QED BY <2>1, <3>1, <3>2, <3>4
  <2>2. CASE ~(~done /\ cw = 0 /\ room > 0)
    <3>1. lined = framed
      BY <2>2 DEF LinedAfterFrame
    <3> HIDE DEF lined
    <3> QED BY <1>7, <3>1
  <2> QED BY <2>1, <2>2
<1>9. done => leaves
  BY DEF LeavesAfterFrame
<1>10. lined.inCap[s] => ~done
  BY <1>6, <1>7, <1>8
<1> HIDE DEF lined, leaves
<1>11. /\ InLine(left) /\ \A x \in Streams \ {s} : left.inSend[x] = q.inSend[x]
       /\ left.inCap = lined.inCap
       /\ leaves => /\ left = LeaveSend(lined, s) /\ ~left.inSend[s]
       /\ ~leaves => left = lined /\ left.send = t.send /\ left.inSend[s] /\ ~left.inCap[s]
  <2>1. CASE leaves
    <3>1. left = LeaveSend(lined, s)
      BY <2>1
    <3> HIDE DEF left
    <3>2. InLine(left) /\ left.inSend = [lined.inSend EXCEPT ![s] = FALSE] /\ left.inCap = lined.inCap
      BY <1>8, <3>1, LeaveSendLine
    <3>3. lined.inSend \in Marks
      BY <1>8, LineType
    <3>4. ~left.inSend[s] /\ \A x \in Streams \ {s} : left.inSend[x] = lined.inSend[x]
      BY <3>2, <3>3 DEF Marks
    <3> QED BY <1>6, <1>8, <2>1, <3>1, <3>2, <3>4
  <2>2. CASE ~leaves
    <3>1. left = lined /\ lined = framed
      BY <1>8, <2>2
    <3> HIDE DEF left
    <3> QED BY <1>6, <1>7, <1>8, <2>2, <3>1
  <2> QED BY <2>1, <2>2
<1> HIDE DEF left, done, cw, room
<1>12. /\ q' = left
       /\ sst'[s] = "gone" => ~LeaveQueuesFlag(left, s, cw)
  <2>1. CASE sst'[s] = "gone"
    <3>1. done
      BY <1>5, <2>1
    <3>2. ~left.inSend[s] /\ ~left.inCap[s]
      BY <1>9, <1>10, <1>11, <3>1
    <3>3. LeaveQueues(left, s) = left /\ ~LeaveQueuesFlag(left, s, cw)
      BY <3>2 DEF LeaveQueues, LeaveSend, LeaveCapacity, LeaveQueuesFlag, LeaveSendFlag,
         LeaveCapacityFlag
    <3> QED BY <1>4, <2>1, <3>3
  <2> QED BY <1>4, <2>1
<1>13. /\ owes'[s].set = {} /\ \A b \in Actors \ {s} : owes'[b] = owes[b]
       /\ owes'[s].cap <=> leaves /\ LeaveSendFlag(lined, s, cw)
  BY <1>1, <1>4, <1>12 DEF OwesType, Verdict
<1>14. q'.inSend[s] \/ q'.inCap[s] =>
          /\ sst'[s] = "streaming" /\ ~(q'.inSend[s] /\ q'.inCap[s])
          /\ pc'[s] \in MidChunk /\ chunk'[s].want > 0
  <2>1. ASSUME q'.inSend[s] \/ q'.inCap[s] PROVE ~done /\ ~(q'.inSend[s] /\ q'.inCap[s])
    BY <1>9, <1>10, <1>11, <1>12, <2>1
  <2>2. ~done => chunk'[s].want > 0
    <3>1. chunk[s].want \in Nat /\ chunk'[s].want = chunk[s].want - n /\ n \in Nat
          /\ n <= chunk[s].want
      BY <1>1, <1>3, <1>5
    <3>2. ~done => n # chunk[s].want
      BY DEF done
    <3> QED BY <3>1, <3>2
  <2> QED BY <1>2, <1>5, <2>1, <2>2 DEF MidChunk
<1>15. InLine(q)'
  BY <1>11, <1>12 DEF InLine, Holds
<1>16. \A x \in Streams \ {s} : q'.inSend[x] = q.inSend[x] /\ q'.inCap[x] = q.inCap[x]
  BY <1>6, <1>8, <1>11, <1>12
<1>17. /\ QueueInv' /\ SleepersOK'
       /\ CapOwed => CapOwed'
       /\ owes'[s].cap => CapOwed'
  <2>1. /\ UNCHANGED <<evt, rpc>> /\ owes'[s].set = {} /\ pc'[s] # "wait" /\ Free(s)
    BY <1>2, <1>4, <1>5, <1>13
  <2>2. \A x \in Streams \ {s} :
           /\ pc'[x] = pc[x] /\ sst'[x] = sst[x] /\ chunk'[x] = chunk[x]
           /\ flow'[x] = flow[x] /\ buffered'[x] = buffered[x]
           /\ q'.inSend[x] = q.inSend[x] /\ q'.inCap[x] = q.inCap[x]
    BY <1>5, <1>16
  <2>3. \A b \in Actors \ {s} : owes'[b] = owes[b]
    BY <1>13
  <2> QED BY <1>14, <1>15, <2>1, <2>2, <2>3, OwnStep
<1>18. RotationMoves'
  <2>1. WindowSize(conn)' = cw
    BY DEF cw, WindowSize
  <2>2. CASE ~leaves
    <3>1. q'.send # <<>> /\ Head(q'.send) = s
      BY <1>6, <1>11, <1>12, <2>2 DEF Leads
    <3>2. ~Asleep(Head(q.send))'
      BY <1>5, <3>1 DEF Asleep
    <3> QED BY <3>1, <3>2 DEF RotationMoves
  <2>3. CASE leaves /\ LeaveSendFlag(lined, s, cw)
    BY <1>13, <1>17, <2>3 DEF RotationMoves
  <2>4. CASE leaves /\ ~LeaveSendFlag(lined, s, cw)
    <3>1. q'.send = <<>> /\ (q'.cap = <<>> \/ ~(cw > 0))
      BY <1>6, <1>8, <1>11, <1>12, <2>4 DEF LeaveSendFlag, QueueWake
    <3> QED BY <2>1, <3>1 DEF RotationMoves
  <2> QED BY <2>2, <2>3, <2>4
<1> QED BY <1>17, <1>18 DEF WakeCore

-----------------------------------------------------------------------------
(* The pumps, the bytes on their way, and a failed connection.               *)

\* What the sender of a stream does to the rest.
LEMMA SenderBooks ==
    ASSUME SendInv, BooksInv, NEW s \in Streams,
           Open(s) \/ OpenStopped(s) \/ NextChunk(s) \/ SenderStep(s)
    PROVE  BooksInv'
<1>1. /\ TypeOK /\ owes \in OwesType /\ s \in Actors /\ s # "wp" /\ s # "rd"
      /\ "wp" \in Actors /\ "rd" \in Actors
      /\ credit \in [Streams -> Nat] /\ sst \in [Streams -> StateType]
  BY SendConstants DEF SendInv, TypeOK, OwesType, Actors, StateType
<1>2. UNCHANGED <<wpc, rpc, failed, inflight, writeEvt>>
  BY DEF Open, OpenStopped, NextChunk, SenderStep, SendData, SendStopped, SendEmpty, SendNoWindow,
     SendNotMyTurn, SendYield, SendPause, SendFrame, ClearWindowEvt, WindowEvtWakes, stateVars
<1>3. /\ \A b \in Actors \ {s} : owes'[b] = owes[b]
      /\ owes'[s].wake \/ (credit' = credit /\ owes'[s].wake = owes[s].wake)
  <2>1. CASE SendEmpty(s) \/ SendFrame(s)
    <3>1. \E c : owes' = [owes EXCEPT ![s] = Verdict({}, TRUE, c)]
      BY <2>1, Zenon DEF SendEmpty, SendFrame
    <3> QED BY <1>1, <3>1 DEF OwesType, Verdict
  <2>4. CASE Open(s)
    BY <1>1, <2>4 DEF Open, OwesType
  <2>2. CASE SendNoWindow(s) \/ SendYield(s)
    BY <1>1, <2>2 DEF SendNoWindow, SendYield, OwesType
  <2>3. CASE OpenStopped(s) \/ NextChunk(s) \/ SendStopped(s) \/ SendNotMyTurn(s) \/ SendPause(s)
             \/ ClearWindowEvt(s) \/ WindowEvtWakes(s)
    BY <1>1, <2>3 DEF OpenStopped, NextChunk, SendStopped, SendNotMyTurn, SendPause, ClearWindowEvt,
       WindowEvtWakes, stateVars
  <2> QED BY <2>1, <2>2, <2>3, <2>4 DEF SenderStep, SendData
<1>4. PumpsOweNothing'
  BY <1>1, <1>2, <1>3 DEF BooksInv, PumpsOweNothing, Free
<1>5. BytesOnTheWay'
  <2>1. CASE owes'[s].wake
    BY <1>1, <2>1 DEF BytesOnTheWay
  <2>2. CASE credit' = credit /\ owes'[s].wake = owes[s].wake
    <3>1. \A b \in Actors : owes'[b].wake = owes[b].wake
      BY <1>3, <2>2
    <3> QED BY <1>2, <2>2, <3>1 DEF BooksInv, BytesOnTheWay
  <2> QED BY <1>3, <2>1, <2>2
<1>6. BatchHeld'
  BY <1>2 DEF BooksInv, BatchHeld
<1>7. FailedIsEmpty'
  <2>1. ASSUME failed PROVE Active' = {}
    <3>1. Active = {} /\ sst[s] # "streaming" /\ sst[s] # "awaiting"
      BY <2>1 DEF BooksInv, FailedIsEmpty, Active
    <3>2. sst' = sst
      BY <2>1, <3>1 DEF Open, OpenStopped, NextChunk, SenderStep, SendData, SendStopped, SendEmpty,
         SendNoWindow, SendNotMyTurn, SendYield, SendPause, SendFrame, ClearWindowEvt,
         WindowEvtWakes, stateVars, MyTurn, Ready, Sending
    <3> QED BY <3>1, <3>2 DEF Active
  <2> QED BY <1>2, <2>1 DEF BooksInv, FailedIsEmpty
<1> QED BY <1>4, <1>5, <1>6, <1>7 DEF BooksInv

\* What the read pump, the write pump, a reset and the acts of verdicts do to them.
LEMMA PumpBooks ==
    ASSUME SendInv, BooksInv,
           \/ ReadStep \/ PumpStep
           \/ \E s \in Streams : AppReset(s)
           \/ \E a \in Actors : Act(a)
    PROVE  BooksInv'
<1>1. /\ TypeOK /\ owes \in OwesType /\ "wp" \in Actors /\ "rd" \in Actors /\ "app" \in Actors
      /\ credit \in [Streams -> Nat] /\ inflight \in [Streams -> Nat]
      /\ sst \in [Streams -> StateType]
  BY DEF SendInv, TypeOK, OwesType, Actors, StateType
<1>2. /\ wpc \in {"take", "write"} => Free("wp")
      /\ rpc = "flush" => Free("rd")
      /\ failed => Active = {}
      /\ rpc = "done" \/ wpc = "exit" => failed
  BY DEF BooksInv, PumpsOweNothing, FailedIsEmpty
<1>3. ASSUME NEW a \in Actors, \A b \in Actors \ {a} : owes'[b] = owes[b],
             owes[a].wake => owes'[a].wake, credit' = credit, writeEvt' = writeEvt, wpc' = wpc
      PROVE  BytesOnTheWay'
  BY <1>3 DEF BooksInv, BytesOnTheWay
<1>4. ASSUME NEW a \in Actors, \A b \in Actors \ {a} : owes'[b] = owes[b],
             UNCHANGED <<wpc, rpc>>, wpc \in {"take", "write"} /\ a = "wp" => Free(a)',
             rpc = "flush" /\ a = "rd" => Free(a)'
      PROVE  PumpsOweNothing'
  BY <1>1, <1>2, <1>4 DEF PumpsOweNothing, Free
<1>5. ASSUME Active' \subseteq Active, UNCHANGED <<failed, wpc>>, rpc' = "done" => rpc = "done"
      PROVE  FailedIsEmpty'
  BY <1>2, <1>5 DEF FailedIsEmpty
<1>6. ASSUME NEW a \in Actors, Act(a) PROVE BooksInv'
  <2>1. /\ UNCHANGED <<sst, failed, wpc, rpc, credit, inflight>> /\ owes[a] # Clear
        /\ \A b \in Actors \ {a} : owes'[b] = owes[b]
    BY <1>1, <1>6 DEF Act, SetWindowEvt, AfterWake, AfterCapacity, stateVars, Clear, Verdict, OwesType
  <2>2. (wpc \in {"take", "write"} => a # "wp") /\ (rpc = "flush" => a # "rd")
    BY <1>2, <2>1 DEF Free
  <2>3. writeEvt' \/ (writeEvt' = writeEvt /\ (owes[a].wake => owes'[a].wake))
    <3>1. CASE AfterWake(a)
      BY <3>1 DEF AfterWake
    <3>2. CASE AfterCapacity(a)
      BY <3>2 DEF AfterCapacity
    <3>3. ASSUME NEW s \in Streams, SetWindowEvt(a, s) PROVE writeEvt' = writeEvt /\ owes'[a].wake = owes[a].wake
      BY <1>1, <3>3 DEF SetWindowEvt, OwesType
    <3> QED BY <1>6, <3>1, <3>2, <3>3 DEF Act
  <2>4. BytesOnTheWay'
    BY <1>3, <2>1, <2>3 DEF BytesOnTheWay
  <2>5. PumpsOweNothing'
    BY <1>4, <2>1, <2>2
  <2>6. BatchHeld' /\ FailedIsEmpty'
    BY <1>5, <2>1 DEF BooksInv, BatchHeld, Active
  <2> QED BY <2>4, <2>5, <2>6 DEF BooksInv
<1>7. ASSUME NEW s \in Streams, AppReset(s) PROVE BooksInv'
  <2>1. /\ UNCHANGED <<failed, wpc, rpc, credit, inflight, writeEvt>>
        /\ sst' = [sst EXCEPT ![s] = "gone"] /\ owes'["app"].wake
        /\ \A b \in Actors \ {"app"} : owes'[b] = owes[b]
    BY <1>1, <1>7 DEF AppReset, ResetBy, OwesType, Verdict
  <2>2. Active' \subseteq Active
    BY <1>1, <2>1 DEF Active
  <2>3. BytesOnTheWay' /\ PumpsOweNothing'
    BY <1>1, <1>3, <1>4, <2>1
  <2>4. BatchHeld' /\ FailedIsEmpty'
    BY <1>5, <2>1, <2>2 DEF BooksInv, BatchHeld
  <2> QED BY <2>3, <2>4 DEF BooksInv
<1>8. ASSUME Reading, UNCHANGED <<failed, wpc, credit, inflight, writeEvt>>,
             rpc' \in {"read", "dying"}, \A b \in Actors \ {"rd"} : owes'[b] = owes[b],
             failed => Active' \subseteq Active
      PROVE  BooksInv'
  <2>1. ~owes["rd"].wake
    BY <1>8 DEF Reading, Free, Clear, Verdict
  <2>2. BytesOnTheWay'
    BY <1>1, <1>3, <1>8, <2>1
  <2>3. PumpsOweNothing'
    <3>1. owes'["wp"] = owes["wp"]
      BY <1>1, <1>8
    <3> QED BY <1>2, <1>8, <3>1 DEF PumpsOweNothing, Free
  <2>4. BatchHeld'
    BY <1>8 DEF BooksInv, BatchHeld, Reading
  <2>5. FailedIsEmpty'
    BY <1>2, <1>8 DEF FailedIsEmpty
  <2> QED BY <2>2, <2>3, <2>4, <2>5 DEF BooksInv
<1>9. ASSUME NEW s \in Streams, RecvRequest(s) \/ RecvEndStream(s) \/ RecvReset(s) PROVE BooksInv'
  <2>1. /\ Reading /\ UNCHANGED <<failed, wpc, rpc, credit, inflight, writeEvt>>
        /\ \A b \in Actors \ {"rd"} : owes'[b] = owes[b]
    BY <1>1, <1>9 DEF RecvRequest, RecvEndStream, RecvReset, OwesType
  <2>2. failed => Active' \subseteq Active
    BY <1>1, <1>9 DEF RecvRequest, RecvEndStream, RecvReset, Active, StateType
  <2> QED BY <1>8, <2>1, <2>2 DEF Reading
<1>10. ASSUME NEW n \in Increments, RecvConnWindowUpdate(n) PROVE BooksInv'
  <2>1. /\ Reading /\ UNCHANGED <<sst, failed, wpc, credit, inflight, writeEvt>>
        /\ rpc' \in {"read", "dying"} /\ \A b \in Actors \ {"rd"} : owes'[b] = owes[b]
    BY <1>1, <1>10 DEF RecvConnWindowUpdate, ConnectionError, Reading, OwesType
  <2> QED BY <1>8, <2>1 DEF Active
<1>11. ASSUME NEW s \in Streams, NEW n \in Increments, RecvStreamWindowUpdate(s, n) PROVE BooksInv'
  <2>1. /\ Reading /\ UNCHANGED <<failed, wpc, rpc, credit, inflight, writeEvt>>
        /\ \A b \in Actors \ {"rd"} : owes'[b] = owes[b]
    BY <1>1, <1>11 DEF RecvStreamWindowUpdate, ResetBy, OwesType
  <2>2. Active' \subseteq Active
    BY <1>1, <1>11 DEF RecvStreamWindowUpdate, ResetBy, Active, StateType
  <2> QED BY <1>8, <2>1, <2>2 DEF Reading
<1>12. ASSUME NEW w \in InitWindows, RecvSettings(w) PROVE BooksInv'
  <2>1. /\ Reading /\ UNCHANGED <<sst, failed, wpc, credit, inflight, writeEvt>>
        /\ rpc' \in {"read", "dying"} /\ \A b \in Actors \ {"rd"} : owes'[b] = owes[b]
    BY <1>1, <1>12 DEF RecvSettings, ConnectionError, Reading, OwesType
  <2> QED BY <1>8, <2>1 DEF Active
<1>13. ASSUME NEW a \in Actors, Free(a), FailAll(a), UNCHANGED <<credit, inflight, writeEvt>>,
              \/ a = "rd" /\ rpc' = "done" /\ wpc' = wpc
              \/ a = "wp" /\ wpc = "fail" /\ wpc' = "exit" /\ rpc' = rpc
       PROVE  BooksInv'
  <2>1. /\ failed' = TRUE /\ \A b \in Actors \ {a} : owes'[b] = owes[b]
        /\ sst' = [s \in Streams |-> IF s \in Active THEN "gone" ELSE sst[s]]
    BY <1>1, <1>13 DEF FailAll, OwesType
  <2>2. Active' = {}
    BY <2>1 DEF Active
  <2>3. ~owes[a].wake
    BY <1>13 DEF Free, Clear, Verdict
  <2>4. BytesOnTheWay'
    <3>1. CASE a = "rd"
      BY <1>3, <1>13, <2>1, <2>3, <3>1
    <3>2. CASE a = "wp"
      BY <1>13, <3>2 DEF BytesOnTheWay
    <3> QED BY <1>13, <3>1, <3>2
  <2>5. PumpsOweNothing'
    <3>1. \A b \in Actors \ {a} : Free(b) => Free(b)'
      BY <2>1 DEF Free
    <3> QED BY <1>1, <1>2, <1>13, <3>1 DEF PumpsOweNothing
  <2> QED BY <2>1, <2>2, <2>4, <2>5 DEF BooksInv, BatchHeld, FailedIsEmpty
<1>14. CASE ReadFails
  BY <1>1, <1>13, <1>14 DEF ReadFails
<1>15. CASE PumpFails
  BY <1>1, <1>13, <1>15 DEF PumpFails
<1>16. ASSUME TakePending PROVE \A s \in Streams : ~(credit'[s] > 0)
  BY <1>16 DEF TakePending
<1>17. CASE FlushTake \/ PumpTake
  <2>1. /\ TakePending /\ UNCHANGED <<sst, failed, writeEvt, owes>>
        /\ \/ rpc' = "flush" /\ wpc' = wpc /\ Free("rd")
           \/ wpc' = "write" /\ wpc = "take" /\ rpc' = rpc
    BY <1>17 DEF FlushTake, PumpTake
  <2>2. BytesOnTheWay'
    BY <1>16, <2>1 DEF BytesOnTheWay
  <2>3. PumpsOweNothing'
    BY <1>2, <2>1 DEF PumpsOweNothing, Free
  <2>4. BatchHeld'
    BY <2>1 DEF BatchHeld
  <2>5. FailedIsEmpty'
    BY <1>2, <2>1 DEF FailedIsEmpty, Active
  <2> QED BY <2>2, <2>3, <2>4, <2>5 DEF BooksInv
<1>18. ASSUME NEW a \in {"rd", "wp"}, CreditWritten(a)
       PROVE  /\ \A s \in Streams : ~(inflight'[s] > 0)
              /\ \A b \in Actors \ {a} : owes'[b] = owes[b]
              /\ owes[a].wake => owes'[a].wake
  BY <1>1, <1>18 DEF CreditWritten, OwesType
<1>19. CASE FlushWritten
  <2>1. /\ CreditWritten("rd") /\ UNCHANGED <<sst, failed, writeEvt, credit, wpc>> /\ rpc' = "fail"
    BY <1>19 DEF FlushWritten
  <2>2. BytesOnTheWay'
    BY <1>1, <1>3, <1>18, <2>1
  <2>3. PumpsOweNothing'
    BY <1>1, <1>2, <1>18, <2>1 DEF PumpsOweNothing, Free
  <2> QED BY <1>2, <1>18, <2>1, <2>2, <2>3 DEF BooksInv, BatchHeld, FailedIsEmpty, Active
<1>20. CASE PumpWritten
  <2>1. /\ CreditWritten("wp") /\ UNCHANGED <<sst, failed, writeEvt, credit, rpc>>
        /\ wpc = "write" /\ wpc' \in {"wait", "fail"}
    BY <1>20 DEF PumpWritten
  <2>2. BytesOnTheWay'
    BY <1>1, <1>18, <2>1 DEF BooksInv, BytesOnTheWay
  <2>3. PumpsOweNothing'
    BY <1>1, <1>2, <1>18, <2>1 DEF PumpsOweNothing, Free
  <2> QED BY <1>2, <1>18, <2>1, <2>2, <2>3 DEF BooksInv, BatchHeld, FailedIsEmpty, Active
<1>21. CASE FlushFails
  <2>1. UNCHANGED <<sst, failed, inflight, writeEvt, credit, wpc, owes>> /\ rpc' = "fail"
    BY <1>21 DEF FlushFails, stateVars
  <2> QED BY <2>1 DEF BooksInv, BatchHeld, FailedIsEmpty, Active, PumpsOweNothing, Free, BytesOnTheWay
<1>22. CASE PumpWake
  <2>1. UNCHANGED <<sst, failed, inflight, credit, rpc, owes>> /\ wpc' = "take" /\ wpc = "wait"
        /\ Free("wp")
    BY <1>22 DEF PumpWake, stateVars
  <2> QED BY <2>1 DEF BooksInv, BatchHeld, FailedIsEmpty, Active, PumpsOweNothing, Free, BytesOnTheWay
<1> QED BY <1>6, <1>7, <1>9, <1>10, <1>11, <1>12, <1>14, <1>15, <1>17, <1>19, <1>20, <1>21, <1>22
         DEF ReadStep, PumpStep

-----------------------------------------------------------------------------
(* The theorems of the queues and the wake-ups.                              *)

\* Initially the queues are empty and everybody is at the start.
LEMMA InitWake == Init => WakeInv
<1> SUFFICES ASSUME Init PROVE WakeInv
  OBVIOUS
<1>1. /\ q.send = <<>> /\ q.cap = <<>> /\ \A s \in Streams : ~q.inSend[s] /\ ~q.inCap[s]
      /\ \A s \in Streams : pc[s] # "wait" /\ sst[s] = "idle" /\ ~(credit[s] > 0) /\ ~(inflight[s] > 0)
      /\ wpc = "wait" /\ rpc = "read" /\ ~failed
  BY DEF Init, NoQueues
<1>2. QueueInv
  BY <1>1 DEF QueueInv, QueuesMatchFlags, QueuedMidChunk
<1>3. SleepersOK /\ RotationMoves
  BY <1>1 DEF SleepersOK, Asleep, RotationMoves
<1>4. BooksInv
  BY <1>1 DEF BooksInv, PumpsOweNothing, BytesOnTheWay, BatchHeld, FailedIsEmpty
<1> QED BY <1>2, <1>3, <1>4 DEF WakeInv

\* Every step of every actor keeps the invariant of the queues and the wake-ups.
LEMMA NextWake == SendInv /\ SendInv' /\ WakeInv /\ [Next]_vars => WakeInv'
<1> SUFFICES ASSUME SendInv, SendInv', WakeInv, [Next]_vars PROVE WakeInv'
  OBVIOUS
<1>1. WakeCore /\ BooksInv /\ PumpsOweNothing
  BY DEF WakeInv, WakeCore, BooksInv
<1>2. ASSUME NEW s \in Streams, Open(s) \/ OpenStopped(s) \/ NextChunk(s) \/ SenderStep(s)
      PROVE  WakeCore' /\ BooksInv'
  <2>1. BooksInv'
    BY <1>1, <1>2, SenderBooks
  <2>2. WakeCore'
    BY <1>1, <1>2, PlaceWake, EndWake, ParkWake, FrameWake DEF SenderStep, SendData
  <2> QED BY <2>1, <2>2
<1>3. ASSUME NEW s \in Streams, AppReset(s) PROVE WakeCore' /\ BooksInv'
  BY <1>1, <1>3, PumpBooks, OutsideWake
<1>4. CASE ReadStep
  <2>1. BooksInv'
    BY <1>1, <1>4, PumpBooks
  <2>2. WakeCore'
    BY <1>1, <1>4, PlaceWake, EndWake, OutsideWake, PumpsWake DEF ReadStep
  <2> QED BY <1>1, <2>1, <2>2 DEF WakeInv, WakeCore
<1>5. CASE PumpStep
  <2>1. BooksInv'
    BY <1>1, <1>5, PumpBooks
  <2>2. WakeCore'
    BY <1>1, <1>5, OutsideWake, PumpsWake DEF PumpStep
  <2> QED BY <1>1, <2>1, <2>2 DEF WakeInv, WakeCore
<1>6. ASSUME NEW a \in Actors, Act(a) PROVE WakeCore' /\ BooksInv'
  BY <1>1, <1>6, PumpBooks, SetWake, OutsideWake DEF Act
<1>7. CASE UNCHANGED vars
  BY <1>7 DEF vars, WakeInv, QueueInv, QueuesMatchFlags, QueuedMidChunk, SleepersOK, Asleep, Unnamed,
     StreamRoom, WindowSize, RotationMoves, CapOwed, BooksInv, PumpsOweNothing, Free, BytesOnTheWay,
     BatchHeld, FailedIsEmpty, Active
<1> QED BY <1>2, <1>3, <1>4, <1>5, <1>6, <1>7 DEF Next, WakeInv, WakeCore

\* Every reachable state satisfies the invariant of the queues and the wake-ups.
THEOREM WakeInvariant == Spec => []WakeInv
<1> QED BY SendInvariant, InitWake, NextWake, PTL DEF Spec

\* pending_send and pending_capacity hold each stream at most once, exactly when its flag
\* says so, never both, and only while it may send.
THEOREM SendQueuesSound == Spec => []QueuesMatchFlags
<1>1. WakeInv => QueuesMatchFlags
  BY DEF WakeInv, QueueInv
<1> QED BY <1>1, WakeInvariant, PTL

\* No wake-up is lost when everybody waits.
LEMMA NobodyStranded ==
    ASSUME SendInv, WakeInv PROVE QueuedBytesGetFlushed /\ NoStrandedSender
<1>1. /\ TypeOK /\ BufferLedger /\ WakeCore
  BY DEF SendInv, WakeInv, WakeCore
<1>2. QueuedBytesGetFlushed
  BY DEF QueuedBytesGetFlushed, WakeInv, BooksInv, BytesOnTheWay
<1>3. ASSUME Quiet, NEW s \in Streams, pc[s] = "wait"
      PROVE  sst[s] = "streaming" /\ Budget(s) = 0
  <2>1. /\ \A a \in Actors : owes[a].set = {} /\ ~owes[a].wake /\ ~owes[a].cap
        /\ wpc = "exit" \/ (wpc = "wait" /\ ~writeEvt)
        /\ rpc \in {"read", "done"}
        /\ \A x \in Streams : pc[x] \in {"start", "idle", "end"} \/ (pc[x] = "wait" /\ ~evt[x])
    BY <1>3 DEF Quiet, Free, Clear, Verdict
  <2>2. ~CapOwed /\ \A x \in Streams : pc[x] \in {"start", "idle", "end"} \/ Asleep(x)
    BY <2>1 DEF CapOwed, Asleep, Unnamed
  <2>3. Asleep(s)
    BY <1>3, <2>2
  <2>4. sst[s] = "streaming"
    BY <1>1, <2>3 DEF WakeCore, SleepersOK
  <2>5. ~failed /\ rpc = "read" /\ wpc = "wait" /\ ~writeEvt
    <3>1. s \in Active
      BY <2>4 DEF Active
    <3> QED BY <2>1, <3>1 DEF WakeInv, BooksInv, FailedIsEmpty
  <2>6. \A x \in Streams : ~(credit[x] > 0) /\ ~(inflight[x] > 0)
    BY <1>2, <2>1, <2>5 DEF QueuedBytesGetFlushed, WakeInv, BooksInv, BatchHeld
  <2>7. q.send = <<>>
    <3> SUFFICES ASSUME q.send # <<>> PROVE FALSE
      OBVIOUS
    <3> DEFINE h == Head(q.send)
    <3>1. h \in Streams /\ q.inSend[h]
      BY <1>1, QueueFacts DEF WakeCore
    <3> HIDE DEF h
    <3>2. sst[h] = "streaming" /\ pc[h] \in MidChunk
      BY <1>1, <3>1 DEF WakeCore, QueueInv, QueuesMatchFlags, QueuedMidChunk, MidChunk
    <3>3. Asleep(h)
      BY <2>2, <3>1, <3>2 DEF MidChunk
    <3>4. q.turn[h] > 0
      BY <1>1, <2>2, <3>3 DEF WakeCore, RotationMoves, h
    <3>5. /\ q.turn[h] \in Nat /\ buffered[h] \in Nat /\ credit[h] \in Nat /\ inflight[h] \in Nat
      <4>1. MaxSendBuf \in Nat /\ q \in QType
        BY <1>1, SendConstants DEF TypeOK, QType
      <4> QED BY <1>1, <3>1, <4>1 DEF TypeOK, QType
    <3>6. q.turn[h] <= buffered[h] /\ buffered[h] = credit[h] + inflight[h]
      BY <1>1, <3>1, <3>2 DEF BufferLedger, Active
    <3> QED BY <2>6, <3>1, <3>4, <3>5, <3>6
  <2>8. ~q.inSend[s]
    BY <1>1, <2>7 DEF WakeCore, QueueInv, QueuesMatchFlags
  <2>9. CASE q.inCap[s]
    <3>1. q.cap # <<>>
      BY <1>1, <2>9 DEF WakeCore, QueueInv, QueuesMatchFlags
    <3>2. ~(WindowSize(conn) > 0)
      BY <1>1, <2>2, <2>7, <3>1 DEF WakeCore, RotationMoves
    <3>3. conn.win \in Int /\ StreamRoom(s) \in Nat
      BY <1>1, RoomZero DEF TypeOK
    <3>4. Budget(s) = 0
      BY <3>2, <3>3 DEF Budget, Min2, WindowSize
    <3> QED BY <2>4, <3>4
  <2>10. CASE ~q.inCap[s]
    <3>1. StreamRoom(s) = 0
      BY <1>1, <2>3, <2>5, <2>8, <2>10 DEF WakeCore, SleepersOK
    <3>2. WindowSize(conn) \in Nat
      BY <1>1 DEF TypeOK, WindowSize
    <3>3. Budget(s) = 0
      BY <3>1, <3>2 DEF Budget, Min2
    <3> QED BY <2>4, <3>3
  <2> QED BY <2>9, <2>10
<1> QED BY <1>2, <1>3 DEF NoStrandedSender

\* No wake-up is lost, of the write pump or of a sender: when everybody waits, nothing
\* queued is left unflushed and no parked sender has window it could use.
THEOREM SendLosesNoWakeup == Spec => []NoLostWakeup
<1>1. SendInv /\ WakeInv => NoLostWakeup
  BY NobodyStranded DEF NoLostWakeup
<1> QED BY <1>1, SendInvariant, WakeInvariant, PTL

=============================================================================
