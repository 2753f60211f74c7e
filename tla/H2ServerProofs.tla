---------------------------- MODULE H2ServerProofs ----------------------------
(***************************************************************************)
(* Proofs about the life of an HTTP/2 server connection, for any number of  *)
(* streams, any caps, and any scenes.                                       *)
(***************************************************************************)
EXTENDS H2Server, FiniteSetTheorems, SequenceTheorems, TLAPS

(***************************************************************************)
(* The locked state.                                                        *)
(***************************************************************************)

Locked ==
    [stream : [Ids -> {"idle", "active", "gone", "reset"}], active : Nat,
     lastRecv : 0..N, lastProcessed : 0..N, maxId : 0..Top,
     pendingAccept : SUBSET Ids, resetPending : SUBSET Ids, errors : Nat, ignored : SUBSET Ids,
     graceful : BOOLEAN, final : BOOLEAN, peerGoAway : BOOLEAN, replied : BOOLEAN,
     error : BOOLEAN, stop : BOOLEAN, pending : BOOLEAN, sent : Seq(0..Top),
     flags : SUBSET {"wake", "done", "stop"}]

ActiveIn(m) == {s \in Ids : m.stream[s] = "active"}

\* Active streams are counted one by one; the verdict flags tell the truth, and so do
\* the last ids of the GOAWAYs.
Counted(m) ==
    /\ m.active = Cardinality(ActiveIn(m))
    /\ m.lastProcessed <= m.lastRecv
    /\ m.final => m.maxId = m.lastProcessed
    /\ m.replied => m.error
    /\ "done" \in m.flags => m.error
    /\ "stop" \in m.flags => m.final /\ m.active = 0

\* What the operators on the locked state leave as it was, or only move one way.
Moves(m, n) ==
    /\ n.pendingAccept = m.pendingAccept
    /\ m.error => n.error
    /\ m.final => n.final
    /\ n.active <= m.active
    /\ \A s \in Ids :
          n.stream[s] = m.stream[s] \/ (m.stream[s] = "active" /\ n.stream[s] \in {"gone", "reset"})

Kept(m, n) ==
    /\ n.resetPending = m.resetPending
    /\ n.lastRecv = m.lastRecv /\ n.lastProcessed = m.lastProcessed /\ n.maxId = m.maxId
    /\ n.graceful = m.graceful /\ n.final = m.final
    /\ m.replied => n.replied
    /\ n.replied \/ n.sent = m.sent

\* Any set of streams is finite, so that the books can be counted.
LEMMA IdsFinite ==
    ASSUME NEW S \in SUBSET Ids PROVE IsFiniteSet(S) /\ Cardinality(S) \in Nat
<1>1. IsFiniteSet(Ids)
    BY FS_Interval, H2ServerConstants DEF Ids
<1> QED
    BY <1>1, FS_Subset, FS_CardinalityType

\* The active streams can be counted.
LEMMA ActiveFinite ==
    ASSUME NEW m PROVE IsFiniteSet(ActiveIn(m)) /\ Cardinality(ActiveIn(m)) \in Nat
BY IdsFinite DEF ActiveIn

\* A frame is queued.
LEMMA EnqueueOK ==
    ASSUME NEW m \in Locked, Counted(m)
    PROVE  LET n == Enqueue(m)
           IN  /\ n \in Locked /\ Counted(n) /\ Moves(m, n) /\ Kept(m, n) /\ n.stream = m.stream
               /\ n.sent = m.sent /\ n.replied = m.replied /\ n.flags = m.flags \cup {"wake"}
               /\ n.active = m.active
<1> DEFINE n == Enqueue(m)
<1>1. n = [m EXCEPT !.pending = TRUE, !.flags = m.flags \cup {"wake"}]
    BY DEF Enqueue
<1>2. n.flags = m.flags \cup {"wake"} /\ n.flags \in SUBSET {"wake", "done", "stop"}
    BY <1>1 DEF Locked
<1> DEFINE p == [m EXCEPT !.pending = TRUE]
<1>3. p \in Locked
    BY DEF Locked
<1>4. n \in Locked
  <2>1. n = [p EXCEPT !.flags = m.flags \cup {"wake"}]
      BY <1>1 DEF p
  <2> HIDE DEF p, n
  <2> QED
      BY <1>2, <1>3, <2>1 DEF Locked
<1>5. /\ n.stream = m.stream /\ n.active = m.active
      /\ n.lastRecv = m.lastRecv /\ n.lastProcessed = m.lastProcessed /\ n.maxId = m.maxId
      /\ n.pendingAccept = m.pendingAccept /\ n.resetPending = m.resetPending
      /\ n.graceful = m.graceful /\ n.final = m.final
      /\ n.replied = m.replied /\ n.error = m.error /\ n.sent = m.sent
    BY <1>1 DEF Locked
<1> HIDE DEF n
<1>6. Counted(n)
    BY <1>2, <1>5 DEF Counted, ActiveIn
<1>7. Moves(m, n) /\ Kept(m, n)
    BY <1>5 DEF Moves, Kept, Locked
<1> QED
    BY <1>2, <1>4, <1>5, <1>6, <1>7 DEF n

\* A GOAWAY is queued with the last id it carries.
LEMMA SendGoAwayOK ==
    ASSUME NEW m \in Locked, Counted(m), NEW last \in 0..Top
    PROVE  LET n == SendGoAway(m, last)
           IN  /\ n \in Locked /\ Counted(n) /\ Moves(m, n) /\ n.stream = m.stream
               /\ n.sent = Append(m.sent, last) /\ n.replied = m.replied /\ n.flags = m.flags \cup {"wake"}
               /\ n.resetPending = m.resetPending /\ n.lastRecv = m.lastRecv
               /\ n.lastProcessed = m.lastProcessed /\ n.maxId = m.maxId
               /\ n.graceful = m.graceful /\ n.final = m.final /\ n.active = m.active
<1> DEFINE q == Enqueue(m)
           n == SendGoAway(m, last)
<1>1. /\ q \in Locked /\ Counted(q) /\ Moves(m, q) /\ Kept(m, q) /\ q.stream = m.stream
      /\ q.sent = m.sent /\ q.replied = m.replied /\ q.flags = m.flags \cup {"wake"}
      /\ q.active = m.active
    BY EnqueueOK
<1>2. n = [q EXCEPT !.sent = Append(q.sent, last)]
    BY DEF SendGoAway
<1> HIDE DEF q, n
<1>3. q.sent \in Seq(0..Top) /\ Append(q.sent, last) \in Seq(0..Top)
    BY <1>1, AppendProperties DEF Locked
<1>4. n \in Locked /\ n.sent = Append(m.sent, last)
    BY <1>1, <1>2, <1>3 DEF Locked
<1>5. /\ n.stream = q.stream /\ n.active = q.active
      /\ n.lastRecv = q.lastRecv /\ n.lastProcessed = q.lastProcessed /\ n.maxId = q.maxId
      /\ n.pendingAccept = q.pendingAccept /\ n.resetPending = q.resetPending
      /\ n.graceful = q.graceful /\ n.final = q.final
      /\ n.replied = q.replied /\ n.error = q.error /\ n.flags = q.flags
    BY <1>1, <1>2 DEF Locked
<1>6. Counted(n)
    BY <1>1, <1>5 DEF Counted, ActiveIn
<1>7. Moves(m, n) /\ n.active = m.active
    BY <1>1, <1>5 DEF Moves, Locked
<1> QED
    BY <1>1, <1>4, <1>5, <1>6, <1>7 DEF Kept, n

\* The acknowledging GOAWAY fails the connection it ends.
LEMMA GoAwayReplyOK ==
    ASSUME NEW m \in Locked, Counted(m)
    PROVE  LET n == GoAwayReply(m)
           IN  /\ n \in Locked /\ Counted(n) /\ Moves(m, n) /\ Kept(m, n) /\ n.stream = m.stream
               /\ ("stop" \in n.flags <=> "stop" \in m.flags)
<1>1. CASE m.replied \/ m.error \/ m.active # 0 \/ ~m.peerGoAway
    BY <1>1 DEF GoAwayReply, Moves, Kept, Locked
<1>2. CASE ~(m.replied \/ m.error \/ m.active # 0 \/ ~m.peerGoAway)
  <2> DEFINE q == SendGoAway(m, m.lastProcessed)
             n == GoAwayReply(m)
             r == [q EXCEPT !.replied = TRUE]
             e == [r EXCEPT !.error = TRUE]
  <2>1. m.lastProcessed \in 0..Top
      BY H2ServerConstants DEF Locked, Top
  <2>2. /\ q \in Locked /\ Counted(q) /\ Moves(m, q) /\ q.stream = m.stream
        /\ q.flags = m.flags \cup {"wake"}
        /\ q.resetPending = m.resetPending /\ q.lastRecv = m.lastRecv
        /\ q.lastProcessed = m.lastProcessed /\ q.maxId = m.maxId
        /\ q.graceful = m.graceful /\ q.final = m.final /\ q.active = m.active
      BY <2>1, SendGoAwayOK
  <2>3. n = [e EXCEPT !.flags = e.flags \cup {"done"}]
      BY <1>2 DEF GoAwayReply
  <2> HIDE DEF q, n
  <2>4. r \in Locked /\ r.replied /\ r.flags = q.flags
      BY <2>2 DEF Locked
  <2>5. /\ r.stream = q.stream /\ r.active = q.active
        /\ r.lastRecv = q.lastRecv /\ r.lastProcessed = q.lastProcessed /\ r.maxId = q.maxId
        /\ r.pendingAccept = q.pendingAccept /\ r.resetPending = q.resetPending
        /\ r.graceful = q.graceful /\ r.final = q.final
      BY <2>2 DEF Locked
  <2> HIDE DEF r
  <2>6. e \in Locked /\ e.error /\ e.replied /\ e.flags = q.flags
      BY <2>4 DEF Locked
  <2>7. /\ e.stream = q.stream /\ e.active = q.active
        /\ e.lastRecv = q.lastRecv /\ e.lastProcessed = q.lastProcessed /\ e.maxId = q.maxId
        /\ e.pendingAccept = q.pendingAccept /\ e.resetPending = q.resetPending
        /\ e.graceful = q.graceful /\ e.final = q.final
      BY <2>4, <2>5 DEF Locked
  <2> HIDE DEF e
  <2>8. e.flags \cup {"done"} \in SUBSET {"wake", "done", "stop"}
      BY <2>6 DEF Locked
  <2>9. n \in Locked /\ n.error /\ n.replied /\ n.flags = q.flags \cup {"done"}
      BY <2>3, <2>6, <2>8 DEF Locked
  <2>10. /\ n.stream = q.stream /\ n.active = q.active
         /\ n.lastRecv = q.lastRecv /\ n.lastProcessed = q.lastProcessed /\ n.maxId = q.maxId
         /\ n.pendingAccept = q.pendingAccept /\ n.resetPending = q.resetPending
         /\ n.graceful = q.graceful /\ n.final = q.final
      BY <2>3, <2>6, <2>7 DEF Locked
  <2>11. Counted(n)
      BY <2>2, <2>9, <2>10 DEF Counted, ActiveIn
  <2>12. Moves(m, n) /\ Kept(m, n)
      BY <2>2, <2>9, <2>10 DEF Moves, Kept, Locked
  <2> QED
      BY <2>2, <2>9, <2>10, <2>11, <2>12 DEF n
<1> QED
    BY <1>1, <1>2

\* The stop flag is raised only when the drain of phase 2 is complete.
LEMMA StopFlagOK ==
    ASSUME NEW m \in Locked, Counted(m), m.final, m.active = 0
    PROVE  LET n == [m EXCEPT !.flags = @ \cup {"stop"}]
           IN  n \in Locked /\ Counted(n) /\ Moves(m, n) /\ Kept(m, n) /\ n.stream = m.stream
<1> DEFINE n == [m EXCEPT !.flags = m.flags \cup {"stop"}]
<1>1. m.flags \cup {"stop"} \in SUBSET {"wake", "done", "stop"}
    BY DEF Locked
<1>2. n \in Locked /\ n.flags = m.flags \cup {"stop"}
    BY <1>1 DEF Locked
<1>3. /\ n.stream = m.stream /\ n.active = m.active
      /\ n.lastRecv = m.lastRecv /\ n.lastProcessed = m.lastProcessed /\ n.maxId = m.maxId
      /\ n.pendingAccept = m.pendingAccept /\ n.resetPending = m.resetPending
      /\ n.graceful = m.graceful /\ n.final = m.final
      /\ n.replied = m.replied /\ n.error = m.error /\ n.sent = m.sent
    BY DEF Locked
<1> HIDE DEF n
<1>4. Counted(n)
    BY <1>2, <1>3 DEF Counted, ActiveIn
<1>5. Moves(m, n) /\ Kept(m, n)
    BY <1>3 DEF Moves, Kept, Locked
<1> QED
    BY <1>2, <1>3, <1>4, <1>5 DEF n

\* Two moves are one.
LEMMA MovesTwice ==
    ASSUME NEW m \in Locked, NEW k \in Locked, NEW n \in Locked,
           Moves(m, k), Kept(m, k), Moves(k, n), Kept(k, n)
    PROVE  Moves(m, n) /\ Kept(m, n)
BY DEF Moves, Kept, Locked

\* A stream left the active set: the drain may be complete, the reply to a GOAWAY due.
LEMMA OnStreamGoneOK ==
    ASSUME NEW m \in Locked, Counted(m)
    PROVE  LET n == OnStreamGone(m)
           IN  n \in Locked /\ Counted(n) /\ Moves(m, n) /\ Kept(m, n) /\ n.stream = m.stream
<1>1. CASE m.final /\ m.active = 0
  <2> DEFINE k == [m EXCEPT !.flags = @ \cup {"stop"}]
  <2>1. k \in Locked /\ Counted(k) /\ Moves(m, k) /\ Kept(m, k) /\ k.stream = m.stream
      BY <1>1, StopFlagOK
  <2>2. OnStreamGone(m) = GoAwayReply(k)
      BY <1>1 DEF OnStreamGone
  <2> HIDE DEF k
  <2> QED
      BY <2>1, <2>2, GoAwayReplyOK, MovesTwice
<1>2. CASE ~(m.final /\ m.active = 0)
  <2>1. OnStreamGone(m) = GoAwayReply(m)
      BY <1>2 DEF OnStreamGone
  <2> QED
      BY <2>1, GoAwayReplyOK
<1> QED
    BY <1>1, <1>2

\* A stream ends: it alone leaves the active ones.
LEMMA CloseStreamOK ==
    ASSUME NEW m \in Locked, Counted(m), NEW s \in Ids, NEW how \in {"gone", "reset"}
    PROVE  LET n == CloseStream(m, s, how)
           IN  /\ n \in Locked /\ Counted(n) /\ Moves(m, n) /\ Kept(m, n)
               /\ n.stream[s] # "active" /\ \A u \in Ids \ {s} : n.stream[u] = m.stream[u]
<1>1. CASE m.stream[s] # "active"
    BY <1>1 DEF CloseStream, Moves, Kept, Locked
<1>2. CASE m.stream[s] = "active"
  <2> DEFINE q == [m EXCEPT !.stream[s] = how]
             k == [q EXCEPT !.active = m.active - 1]
  <2>1. CloseStream(m, s, how) = OnStreamGone(k)
      BY <1>2 DEF CloseStream
  <2>2. m.stream \in [Ids -> {"idle", "active", "gone", "reset"}] /\ m.active \in Nat
      BY DEF Locked
  <2>3. q = [m EXCEPT !.stream = [m.stream EXCEPT ![s] = how]]
      OBVIOUS
  <2>4. q \in Locked /\ q.stream = [m.stream EXCEPT ![s] = how]
      BY <2>2, <2>3 DEF Locked
  <2>5. /\ q.lastRecv = m.lastRecv /\ q.lastProcessed = m.lastProcessed /\ q.maxId = m.maxId
        /\ q.pendingAccept = m.pendingAccept /\ q.resetPending = m.resetPending
        /\ q.graceful = m.graceful /\ q.final = m.final /\ q.flags = m.flags
        /\ q.replied = m.replied /\ q.error = m.error /\ q.sent = m.sent
      BY <2>3 DEF Locked
  <2> HIDE DEF q
  <2>6. /\ k.lastRecv = q.lastRecv /\ k.lastProcessed = q.lastProcessed /\ k.maxId = q.maxId
        /\ k.pendingAccept = q.pendingAccept /\ k.resetPending = q.resetPending
        /\ k.graceful = q.graceful /\ k.final = q.final /\ k.flags = q.flags
        /\ k.replied = q.replied /\ k.error = q.error /\ k.sent = q.sent /\ k.stream = q.stream
      BY <2>4 DEF Locked
  <2>7. IsFiniteSet(ActiveIn(m)) /\ s \in ActiveIn(m)
      BY <1>2, ActiveFinite DEF ActiveIn
  <2>8. ActiveIn(k) = ActiveIn(m) \ {s}
      BY <2>2, <2>4, <2>6 DEF ActiveIn
  <2>9. Cardinality(ActiveIn(m) \ {s}) = Cardinality(ActiveIn(m)) - 1 /\ Cardinality(ActiveIn(m) \ {s}) \in Nat
      BY <2>7, FS_RemoveElement, FS_CardinalityType
  <2>10. m.active - 1 \in Nat /\ m.active - 1 = Cardinality(ActiveIn(k)) /\ m.active # 0
      BY <2>2, <2>8, <2>9 DEF Counted
  <2>11. k \in Locked /\ k.active = m.active - 1
      BY <2>4, <2>10 DEF Locked
  <2> HIDE DEF k
  <2>12. k.active <= m.active
      BY <2>2, <2>11
  <2>13. Counted(k)
      BY <2>5, <2>6, <2>10, <2>11 DEF Counted
  <2>14. k.stream[s] = how /\ \A u \in Ids \ {s} : k.stream[u] = m.stream[u]
      BY <2>2, <2>4, <2>6
  <2>15. Moves(m, k) /\ Kept(m, k)
      BY <1>2, <2>5, <2>6, <2>10, <2>12, <2>14 DEF Moves, Kept
  <2> QED
      BY <2>1, <2>11, <2>13, <2>14, <2>15, OnStreamGoneOK, MovesTwice
<1> QED
    BY <1>1, <1>2

\* The connection fails: no stream is active.
LEMMA FailOK ==
    ASSUME NEW m \in Locked, Counted(m)
    PROVE  LET n == Fail(m)
           IN  n \in Locked /\ Counted(n) /\ Moves(m, n) /\ Kept(m, n) /\ n.error /\ n.flags = m.flags
<1> DEFINE ended == [s \in Ids |-> IF m.stream[s] = "active" THEN "gone" ELSE m.stream[s]]
           q == [m EXCEPT !.error = TRUE]
           k == [q EXCEPT !.active = 0]
           n == Fail(m)
<1>1. m.stream \in [Ids -> {"idle", "active", "gone", "reset"}] /\ m.active \in Nat
    BY DEF Locked
<1>2. ended \in [Ids -> {"idle", "active", "gone", "reset"}] /\ \A s \in Ids : ended[s] # "active"
    BY <1>1
<1>3. q \in Locked /\ q.stream = m.stream
    BY DEF Locked
<1>4. k \in Locked /\ k.stream = m.stream
    BY <1>3 DEF Locked
<1>5. n = [k EXCEPT !.stream = ended]
    BY <1>4 DEF Fail
<1>6. /\ q.lastRecv = m.lastRecv /\ q.lastProcessed = m.lastProcessed /\ q.maxId = m.maxId
      /\ q.pendingAccept = m.pendingAccept /\ q.resetPending = m.resetPending
      /\ q.graceful = m.graceful /\ q.final = m.final /\ q.flags = m.flags
      /\ q.replied = m.replied /\ q.error = TRUE /\ q.sent = m.sent
    BY DEF Locked
<1> HIDE DEF q, ended, n
<1>7. /\ k.lastRecv = q.lastRecv /\ k.lastProcessed = q.lastProcessed /\ k.maxId = q.maxId
      /\ k.pendingAccept = q.pendingAccept /\ k.resetPending = q.resetPending
      /\ k.graceful = q.graceful /\ k.final = q.final /\ k.flags = q.flags
      /\ k.replied = q.replied /\ k.error = q.error /\ k.sent = q.sent /\ k.active = 0
    BY <1>3 DEF Locked
<1> HIDE DEF k
<1>8. n \in Locked /\ n.stream = ended
    BY <1>2, <1>4, <1>5 DEF Locked
<1>9. /\ n.lastRecv = m.lastRecv /\ n.lastProcessed = m.lastProcessed /\ n.maxId = m.maxId
      /\ n.pendingAccept = m.pendingAccept /\ n.resetPending = m.resetPending
      /\ n.graceful = m.graceful /\ n.final = m.final /\ n.flags = m.flags
      /\ n.replied = m.replied /\ n.error = TRUE /\ n.sent = m.sent /\ n.active = 0
    BY <1>4, <1>5, <1>6, <1>7 DEF Locked
<1>10. ActiveIn(n) = {}
    BY <1>2, <1>8 DEF ActiveIn
<1>11. Counted(n)
    BY <1>9, <1>10, FS_EmptySet DEF Counted
<1>12. \A s \in Ids :
          n.stream[s] = m.stream[s] \/ (m.stream[s] = "active" /\ n.stream[s] \in {"gone", "reset"})
    BY <1>8 DEF ended
<1>13. Moves(m, n) /\ Kept(m, n)
    BY <1>1, <1>9, <1>12 DEF Moves, Kept
<1> QED
    BY <1>8, <1>9, <1>11, <1>13 DEF n

(***************************************************************************)
(* Single fields of the locked state.                                       *)
(***************************************************************************)

Fields ==
    {"stream", "active", "lastRecv", "lastProcessed", "maxId", "pendingAccept", "resetPending",
     "errors", "ignored", "graceful", "final", "peerGoAway", "replied", "error", "stop",
     "pending", "sent", "flags"}

Others(m, n, F) == \A f \in Fields \ F : n[f] = m[f]

\* Fields that Counted, Moves and Kept do not read.
LEMMA AsideOK ==
    ASSUME NEW m \in Locked, Counted(m), NEW n \in Locked,
           Others(m, n, {"errors", "ignored", "peerGoAway", "stop", "pending"})
    PROVE  Counted(n) /\ Moves(m, n) /\ Kept(m, n) /\ n.flags = m.flags /\ n.stream = m.stream
<1>1. /\ n.stream = m.stream /\ n.active = m.active
      /\ n.lastRecv = m.lastRecv /\ n.lastProcessed = m.lastProcessed /\ n.maxId = m.maxId
      /\ n.pendingAccept = m.pendingAccept /\ n.resetPending = m.resetPending
      /\ n.graceful = m.graceful /\ n.final = m.final /\ n.flags = m.flags
      /\ n.replied = m.replied /\ n.error = m.error /\ n.sent = m.sent
    BY DEF Others, Fields
<1>2. Counted(n)
    BY <1>1 DEF Counted, ActiveIn
<1>3. Moves(m, n) /\ Kept(m, n)
    BY <1>1 DEF Moves, Kept, Locked
<1> QED
    BY <1>1, <1>2, <1>3

\* One more stream error (reset_on_error) changes its counter alone.
LEMMA SetErrors ==
    ASSUME NEW m \in Locked
    PROVE  LET n == [m EXCEPT !.errors = @ + 1] IN n \in Locked /\ Others(m, n, {"errors"})
<1>1. m.errors + 1 \in Nat
    BY DEF Locked
<1> QED
    BY <1>1 DEF Locked, Others, Fields

\* HEADERS above the final GOAWAY change only what is remembered of them.
LEMMA SetIgnored ==
    ASSUME NEW m \in Locked, NEW s \in Ids
    PROVE  LET n == [m EXCEPT !.ignored = @ \cup {s}] IN n \in Locked /\ Others(m, n, {"ignored"})
<1>1. m.ignored \cup {s} \in SUBSET Ids
    BY DEF Locked
<1> QED
    BY <1>1 DEF Locked, Others, Fields

\* recv_go_away changes its flag alone.
LEMMA SetPeerGoAway ==
    ASSUME NEW m \in Locked
    PROVE  LET n == [m EXCEPT !.peerGoAway = TRUE] IN n \in Locked /\ Others(m, n, {"peerGoAway"})
BY DEF Locked, Others, Fields

\* stop_pump() changes its flag alone.
LEMMA SetStop ==
    ASSUME NEW m \in Locked
    PROVE  LET n == [m EXCEPT !.stop = TRUE] IN n \in Locked /\ Others(m, n, {"stop"})
BY DEF Locked, Others, Fields

\* take_pending empties the buffer and nothing else.
LEMMA SetPending ==
    ASSUME NEW m \in Locked
    PROVE  LET n == [m EXCEPT !.pending = FALSE] IN n \in Locked /\ Others(m, n, {"pending"})
BY DEF Locked, Others, Fields

\* begin_graceful_shutdown sets its flag.
LEMMA SetGraceful ==
    ASSUME NEW m \in Locked
    PROVE  LET n == [m EXCEPT !.graceful = TRUE]
           IN  n \in Locked /\ n.graceful /\ Others(m, n, {"graceful"})
<1> DEFINE n == [m EXCEPT !.graceful = TRUE]
<1>1. n \in Locked /\ Others(m, n, {"graceful"})
    BY DEF Locked, Others, Fields
<1>2. n.graceful
    BY Zenon DEF Locked
<1> QED
    BY <1>1, <1>2

\* _after takes the flags of the verdict.
LEMMA ClearFlags ==
    ASSUME NEW m \in Locked
    PROVE  LET n == [m EXCEPT !.flags = {}]
           IN  n \in Locked /\ n.flags = {} /\ Others(m, n, {"flags"})
BY DEF Locked, Others, Fields

\* recv_reset and accepted() change the books of what was reset.
LEMMA SetResetPending ==
    ASSUME NEW m \in Locked, NEW S \in SUBSET Ids
    PROVE  LET n == [m EXCEPT !.resetPending = S]
           IN  n \in Locked /\ n.resetPending = S /\ Others(m, n, {"resetPending"})
BY DEF Locked, Others, Fields

\* A published request and accepted() change the books of the accept queue.
LEMMA SetPendingAccept ==
    ASSUME NEW m \in Locked, NEW S \in SUBSET Ids
    PROVE  LET n == [m EXCEPT !.pendingAccept = S]
           IN  n \in Locked /\ n.pendingAccept = S /\ Others(m, n, {"pendingAccept"})
BY DEF Locked, Others, Fields

\* A refused stream moves the last id that was received.
LEMMA SetLastRecv ==
    ASSUME NEW m \in Locked, NEW s \in 0..N
    PROVE  LET n == [m EXCEPT !.lastRecv = s]
           IN  n \in Locked /\ n.lastRecv = s /\ Others(m, n, {"lastRecv"})
BY DEF Locked, Others, Fields

\* A new stream: one more is active.
Opened(m, s) ==
    [m EXCEPT !.lastRecv = s, !.lastProcessed = s, !.stream[s] = "active", !.active = @ + 1]

\* recv_headers opens a stream: one more is counted, and it is the last one processed.
LEMMA OpenedOK ==
    ASSUME NEW m \in Locked, Counted(m), NEW s \in Ids, m.stream[s] = "idle", ~m.final
    PROVE  LET n == Opened(m, s)
           IN  /\ n \in Locked /\ Counted(n)
               /\ Others(m, n, {"lastRecv", "lastProcessed", "stream", "active"})
               /\ n.active = m.active + 1 /\ n.stream = [m.stream EXCEPT ![s] = "active"]
<1> DEFINE a == [m EXCEPT !.lastRecv = s]
           b == [a EXCEPT !.lastProcessed = s]
           c == [b EXCEPT !.stream = [m.stream EXCEPT ![s] = "active"]]
           n == [c EXCEPT !.active = m.active + 1]
<1>1. s \in 0..N /\ m.active + 1 \in Nat /\ [m.stream EXCEPT ![s] = "active"] \in [Ids -> {"idle", "active", "gone", "reset"}]
    BY H2ServerConstants DEF Locked, Ids
<1>2. a \in Locked /\ a.lastRecv = s /\ Others(m, a, {"lastRecv"})
    BY <1>1, SetLastRecv
<1> HIDE DEF a
<1>3. b \in Locked /\ b.lastProcessed = s /\ Others(a, b, {"lastProcessed"})
    BY <1>1, <1>2 DEF Locked, Others, Fields
<1> HIDE DEF b
<1>4. c \in Locked /\ c.stream = [m.stream EXCEPT ![s] = "active"] /\ Others(b, c, {"stream"})
    BY <1>1, <1>3 DEF Locked, Others, Fields
<1>5. b.stream = m.stream /\ b.active = m.active
    BY <1>2, <1>3 DEF Others, Fields
<1> HIDE DEF c
<1>6. c.active = m.active
    BY <1>4, <1>5 DEF Others, Fields
<1>7. n \in Locked /\ n.active = m.active + 1 /\ Others(c, n, {"active"})
    BY <1>1, <1>4 DEF Locked, Others, Fields
<1>8. n = Opened(m, s)
    BY <1>4, <1>5, <1>6 DEF Opened, a, b, c
<1> HIDE DEF n
<1>9. Others(m, n, {"lastRecv", "lastProcessed", "stream", "active"}) /\ n.stream = [m.stream EXCEPT ![s] = "active"]
    BY <1>2, <1>3, <1>4, <1>7 DEF Others, Fields
<1>10. n.lastRecv = s /\ n.lastProcessed = s
    BY <1>2, <1>3, <1>4, <1>7 DEF Others, Fields
<1>11. ActiveIn(n) = ActiveIn(m) \cup {s} /\ s \notin ActiveIn(m)
    BY <1>9 DEF ActiveIn, Locked
<1>12. Cardinality(ActiveIn(n)) = Cardinality(ActiveIn(m)) + 1
    BY <1>11, ActiveFinite, FS_AddElement
<1>13. Counted(n)
    BY <1>1, <1>7, <1>9, <1>10, <1>12 DEF Counted, Others, Fields, Ids
<1> QED
    BY <1>7, <1>8, <1>9, <1>13

(***************************************************************************)
(* The invariant.                                                           *)
(***************************************************************************)

\* The books of the accept queue: what is reset before it is accepted.
Books(m) ==
    /\ m.resetPending \subseteq m.pendingAccept \ ActiveIn(m)
    /\ Cardinality(m.resetPending) <= MaxResets
    /\ \A s \in m.pendingAccept : m.stream[s] # "idle"

\* Each published request is in one place until it is accepted, and answered after.
Shelf ==
    /\ me.pendingAccept = Unaccepted
    /\ \A i, j \in 1..Len(queue) : queue[i] = queue[j] => queue[i] = End \/ i = j
    /\ \A i \in 1..Len(queue), j \in 1..Len(acts[Reader]) :
          queue[i] = acts[Reader][j] => queue[i] = End
    /\ lp.pc = "accept" =>
          /\ lp.on \in Ids
          /\ \A i \in 1..Len(queue) : queue[i] # lp.on
          /\ \A i \in 1..Len(acts[Reader]) : acts[Reader][i] # lp.on
    /\ \A s \in Ids : handler[s] # "none" => s \notin me.pendingAccept /\ me.stream[s] # "idle"

\* Only the read pump publishes requests, one at a time.
ActsOK ==
    /\ \A a \in Actors \ {Reader} : \A i \in 1..Len(acts[a]) : acts[a][i] = End
    /\ \A i \in 1..Len(acts[Reader]) : acts[Reader][i] # End => Len(acts[Reader]) = 1

\* Somebody is about to end the accept loop.
EndComing == \E a \in Actors : \E i \in 1..Len(acts[a]) : acts[a][i] = End

\* On a connection that has not failed the end of the accept loop is sent when the drain
\* is complete, a request that is being published is active, and the end is the last.
EndsOK ==
    ~me.error =>
        /\ EndComing \/ (\E i \in 1..Len(queue) : queue[i] = End) => me.final /\ me.active = 0
        /\ \A i \in 1..Len(acts[Reader]) :
              acts[Reader][i] # End => me.stream[acts[Reader][i]] = "active"
        /\ \A i, j \in 1..Len(queue) : i < j /\ queue[i] = End => queue[j] = End

CoreInv ==
    /\ scene \in Scenes /\ me \in Locked
    /\ acts \in [Actors -> Seq(0..N)] /\ queue \in Seq(0..N)
    /\ lp \in [pc : {"receive", "accept", "ended", "left"}, on : 0..N]
    /\ handler \in [Ids -> {"none", "running", "over"}]
    /\ Counted(me) /\ me.flags = {} /\ me.active <= scene.maxConcurrent
    /\ Books(me) /\ Shelf /\ ActsOK /\ EndsOK

\* A step of the locked state towards the end: nothing is published or accepted.
Goes(m, n) ==
    /\ n.pendingAccept = m.pendingAccept
    /\ m.error => n.error
    /\ m.final /\ m.active = 0 => n.final /\ n.active = 0
    /\ \A s \in Ids : m.stream[s] # "idle" => n.stream[s] # "idle"

\* An actor's list of ends.
EndsOnly(a, n) ==
    \A i \in 1..Len(acts'[a]) : acts'[a][i] = End /\ (n.error \/ (n.final /\ n.active = 0))

\* The None that ends the accept loop is no request.
LEMMA EndIsNoRequest == End \notin Ids /\ Reader \in Actors /\ End \in 0..N /\ Ids \subseteq 0..N
BY H2ServerConstants DEF End, Ids, Reader, Actors

\* Whatever the step does to the locked state, and whoever gets ends to send, the
\* invariant on the queue, the loop and the handlers stays.
LEMMA CoreGoes ==
    ASSUME CoreInv, NEW n \in Locked, me' = n, Counted(n), n.flags = {},
           n.active <= scene.maxConcurrent, Goes(me, n), Books(n),
           acts' \in [Actors -> Seq(0..N)],
           \A b \in Actors : \/ acts'[b] = acts[b]
                             \/ (b = Reader => acts[Reader] = <<>>) /\ EndsOnly(b, n),
           \A i \in 1..Len(acts[Reader]) :
               \/ acts[Reader][i] = End \/ n.error
               \/ n.stream[acts[Reader][i]] = me.stream[acts[Reader][i]],
           UNCHANGED <<scene, queue, lp>>,
           handler' \in [Ids -> {"none", "running", "over"}],
           \A s \in Ids : handler'[s] # "none" => handler[s] # "none"
    PROVE  CoreInv'
<1> USE EndIsNoRequest
<1>1. acts'[Reader] = acts[Reader] \/ (acts[Reader] = <<>> /\ EndsOnly(Reader, n))
    OBVIOUS
<1>2. \A s \in Ids : (\E i \in 1..Len(acts'[Reader]) : acts'[Reader][i] = s)
                 <=> (\E i \in 1..Len(acts[Reader]) : acts[Reader][i] = s)
  <2>1. CASE acts'[Reader] = acts[Reader]
      BY <2>1
  <2>2. CASE acts[Reader] = <<>> /\ EndsOnly(Reader, n)
    <3>1. \A i \in 1..Len(acts[Reader]) : FALSE
        BY <2>2, EmptySeq
    <3> QED
        BY <2>2, <3>1 DEF EndsOnly
  <2> QED
      BY <1>1, <2>1, <2>2
<1>3. Unaccepted' = Unaccepted
  <2>1. \A s \in Ids : s \in Unaccepted' <=> s \in Unaccepted
      BY <1>2 DEF Unaccepted
  <2>2. Unaccepted' \subseteq Ids /\ Unaccepted \subseteq Ids
      BY DEF Unaccepted
  <2> QED
      BY <2>1, <2>2
<1>4. Shelf'
  <2>1. \A i \in 1..Len(queue), j \in 1..Len(acts'[Reader]) :
           queue[i] = acts'[Reader][j] => queue[i] = End
    <3>1. CASE acts'[Reader] = acts[Reader]
        BY <3>1 DEF CoreInv, Shelf
    <3>2. CASE EndsOnly(Reader, n)
        BY <3>2 DEF EndsOnly
    <3> QED
        BY <1>1, <3>1, <3>2
  <2>2. lp.pc = "accept" => \A i \in 1..Len(acts'[Reader]) : acts'[Reader][i] # lp.on
    <3>1. lp.pc = "accept" => lp.on \in Ids /\ ~\E i \in 1..Len(acts[Reader]) : acts[Reader][i] = lp.on
        BY DEF CoreInv, Shelf
    <3>2. lp.pc = "accept" => ~\E i \in 1..Len(acts'[Reader]) : acts'[Reader][i] = lp.on
        BY <1>2, <3>1, Zenon
    <3> QED
        BY <3>2, Zenon
  <2>3. n.pendingAccept = me.pendingAccept /\ \A s \in Ids : me.stream[s] # "idle" => n.stream[s] # "idle"
      BY DEF Goes
  <2> QED
      BY <1>3, <2>1, <2>2, <2>3 DEF CoreInv, Shelf
<1>5. ActsOK'
  <2>1. \A a \in Actors \ {Reader} : \A i \in 1..Len(acts[a]) : acts[a][i] = End
      BY DEF CoreInv, ActsOK
  <2>2. \A a \in Actors \ {Reader} : \A i \in 1..Len(acts'[a]) : acts'[a][i] = End
    <3> SUFFICES ASSUME NEW a \in Actors \ {Reader} PROVE \A i \in 1..Len(acts'[a]) : acts'[a][i] = End
        OBVIOUS
    <3>1. acts'[a] = acts[a] \/ EndsOnly(a, n)
        OBVIOUS
    <3>2. CASE acts'[a] = acts[a]
        BY <2>1, <3>2
    <3>3. CASE EndsOnly(a, n)
        BY <3>3 DEF EndsOnly
    <3> QED
        BY <3>1, <3>2, <3>3
  <2>3. \A i \in 1..Len(acts[Reader]) : acts[Reader][i] # End => Len(acts[Reader]) = 1
      BY DEF CoreInv, ActsOK
  <2>4. \A i \in 1..Len(acts'[Reader]) : acts'[Reader][i] # End => Len(acts'[Reader]) = 1
      BY <1>1, <2>3, Zenon DEF EndsOnly
  <2> QED
      BY <2>2, <2>4 DEF ActsOK
<1>6. EndsOK'
  <2> SUFFICES ASSUME ~n.error
               PROVE  /\ EndComing' \/ (\E i \in 1..Len(queue) : queue[i] = End) => n.final /\ n.active = 0
                      /\ \A i \in 1..Len(acts'[Reader]) :
                            acts'[Reader][i] # End => n.stream[acts'[Reader][i]] = "active"
                      /\ \A i, j \in 1..Len(queue) : i < j /\ queue[i] = End => queue[j] = End
      BY DEF EndsOK
  <2>1. ~me.error
      BY DEF Goes
  <2>2. EndComing' => EndComing \/ (n.final /\ n.active = 0)
      BY DEF EndComing, EndsOnly
  <2>3. EndComing \/ (\E i \in 1..Len(queue) : queue[i] = End) => n.final /\ n.active = 0
      BY <2>1 DEF CoreInv, EndsOK, Goes
  <2>4. \A i \in 1..Len(acts'[Reader]) : acts'[Reader][i] # End => n.stream[acts'[Reader][i]] = "active"
    <3>1. \A i \in 1..Len(acts[Reader]) : acts[Reader][i] # End => me.stream[acts[Reader][i]] = "active"
        BY <2>1 DEF CoreInv, EndsOK
    <3>2. \A i \in 1..Len(acts[Reader]) : acts[Reader][i] # End => n.stream[acts[Reader][i]] = "active"
        BY <3>1, Zenon
    <3> QED
        BY <1>1, <3>2, Zenon DEF EndsOnly
  <2> QED
      BY <2>1, <2>2, <2>3, <2>4 DEF CoreInv, EndsOK
<1> QED
    BY <1>4, <1>5, <1>6 DEF CoreInv

\* What _after has to send for a verdict: ends, and none without a reason.
LEMMA CommitActs ==
    ASSUME acts \in [Actors -> Seq(0..N)], NEW a \in Actors, NEW n \in Locked, Counted(n),
           NEW first \in {<<>>, <<End>>}, first # <<>> => n.error, Commit(a, n, first)
    PROVE  /\ acts' \in [Actors -> Seq(0..N)] /\ \A b \in Actors : b # a => acts'[b] = acts[b]
           /\ EndsOnly(a, n)
<1> DEFINE done == IF "done" \in n.flags THEN <<End>> ELSE <<>>
           stop == IF "stop" \in n.flags THEN <<End>> ELSE <<>>
           all == first \o done \o stop
<1>1. acts' = [acts EXCEPT ![a] = all]
    BY DEF Commit
<1>2. first \in Seq({End}) /\ done \in Seq({End}) /\ stop \in Seq({End})
  <2>1. <<>> \in Seq({End}) /\ <<End>> \in Seq({End})
      OBVIOUS
  <2> QED
      BY <2>1
<1>3. /\ all \in Seq({End}) /\ Len(first \o done) = Len(first) + Len(done)
      /\ Len(all) = Len(first \o done) + Len(stop)
    BY <1>2, ConcatProperties
<1>4. (first # <<>> \/ done # <<>> => n.error) /\ (stop # <<>> => n.final /\ n.active = 0)
  <2>1. done # <<>> => n.error
      BY Zenon DEF Counted
  <2>2. stop # <<>> => n.final /\ n.active = 0
      BY Zenon DEF Counted
  <2> QED
      BY <2>1, <2>2
<1>5. all \in Seq(0..N)
  <2>1. {End} \subseteq 0..N
      BY EndIsNoRequest
  <2> HIDE DEF all
  <2> QED
      BY <1>3, <2>1, SeqMonotonic, Zenon
<1>6. acts' \in [Actors -> Seq(0..N)] /\ acts'[a] = all /\ \A b \in Actors : b # a => acts'[b] = acts[b]
    BY <1>1, <1>5
<1>7. \A i \in 1..Len(all) : all[i] = End
  <2> SUFFICES ASSUME NEW i \in 1..Len(all) PROVE all[i] \in {End}
      OBVIOUS
  <2> HIDE DEF all
  <2> QED
      BY <1>3, ElementOfSeq
<1>8. first = <<>> /\ done = <<>> /\ stop = <<>> => Len(all) = 0
    BY <1>3, EmptySeq
<1> HIDE DEF all, done, stop
<1>9. \A i \in 1..Len(all) : n.error \/ (n.final /\ n.active = 0)
    BY <1>4, <1>8
<1> QED
    BY <1>6, <1>7, <1>9 DEF EndsOnly

\* A function called with the lock held, and its verdict.
LEMMA Committed ==
    ASSUME CoreInv, NEW a \in Actors, NEW n \in Locked, Counted(n),
           n.active <= scene.maxConcurrent, Goes(me, n), Books(n),
           NEW first \in {<<>>, <<End>>}, first # <<>> => n.error, Commit(a, n, first),
           a = Reader => acts[Reader] = <<>>,
           \A i \in 1..Len(acts[Reader]) :
               \/ acts[Reader][i] = End \/ n.error
               \/ n.stream[acts[Reader][i]] = me.stream[acts[Reader][i]],
           UNCHANGED <<scene, queue, lp>>,
           handler' \in [Ids -> {"none", "running", "over"}],
           \A s \in Ids : handler'[s] # "none" => handler[s] # "none"
    PROVE  CoreInv' /\ Others(n, me', {"flags"})
<1> DEFINE k == [n EXCEPT !.flags = {}]
<1>1. k \in Locked /\ k.flags = {} /\ Others(n, k, {"flags"})
    BY ClearFlags
<1>2. me' = k
    BY DEF Commit
<1> HIDE DEF k
<1>3. /\ k.stream = n.stream /\ k.active = n.active /\ k.final = n.final /\ k.error = n.error
      /\ k.lastRecv = n.lastRecv /\ k.lastProcessed = n.lastProcessed /\ k.maxId = n.maxId
      /\ k.pendingAccept = n.pendingAccept /\ k.resetPending = n.resetPending
      /\ k.replied = n.replied
    BY <1>1 DEF Others, Fields
<1>4. Counted(k)
    BY <1>1, <1>3 DEF Counted, ActiveIn
<1>5. Goes(me, k) /\ Books(k)
    BY <1>3 DEF Goes, Books, ActiveIn
<1>6. /\ acts' \in [Actors -> Seq(0..N)] /\ \A b \in Actors : b # a => acts'[b] = acts[b]
      /\ EndsOnly(a, n)
    BY CommitActs DEF CoreInv
<1>7. EndsOnly(a, k)
    BY <1>3, <1>6 DEF EndsOnly
<1>8. \A b \in Actors : \/ acts'[b] = acts[b]
                        \/ (b = Reader => acts[Reader] = <<>>) /\ EndsOnly(b, k)
    BY <1>6, <1>7
<1>9. \A i \in 1..Len(acts[Reader]) :
          \/ acts[Reader][i] = End \/ k.error
          \/ k.stream[acts[Reader][i]] = me.stream[acts[Reader][i]]
    BY <1>3
<1>10. k.active <= scene.maxConcurrent
    BY <1>3
<1>11. CoreInv'
    BY <1>1, <1>2, <1>4, <1>5, <1>6, <1>8, <1>9, <1>10, CoreGoes
<1> QED
    BY <1>1, <1>2, <1>11

\* A pump that met an error has nothing left to publish.
PumpOK ==
    /\ rp.pc \in {"refuse", "reset", "goaway", "flush", "flushing", "fail"} => Free(Reader)
    /\ rp.pc \in {"refuse", "reset"} => rp.on \in Ids

\* The GOAWAYs that were sent, by how far the shutdown is.
Goodbyes(m) ==
    /\ ~m.graceful => m.sent = <<>>
    /\ m.graceful /\ ~m.final => Len(m.sent) = 1 /\ m.sent[1] = Top
    /\ m.final => Len(m.sent) = 2 /\ m.sent[1] = Top /\ m.sent[2] = m.maxId

\* The shutdown PING is as far as the shutdown.
ShutdownOK ==
    /\ me.graceful <=> ping # "none"
    /\ me.final <=> ping = "acked"
    /\ InService => Goodbyes(me)

InServicePc == {"read", "batch", "refuse", "reset", "goaway"}
ReaderPc == InServicePc \cup {"flush", "flushing", "fail", "over"}

PumpInv ==
    /\ sendLock \in 0..Closer
    /\ ping \in {"none", "queued", "taken", "wire", "acked", "lost"}
    /\ rp \in [pc : ReaderPc, on : 0..N]
    /\ PumpOK /\ ShutdownOK

ServerInv == CoreInv /\ PumpInv

\* What a step leaves of the shutdown.
SameGoodbyes(m, n) ==
    /\ n.maxId = m.maxId /\ n.graceful = m.graceful /\ n.final = m.final
    /\ m.replied => n.replied
    /\ n.replied \/ n.sent = m.sent

\* What it may do with the pump and the PING.
PumpMoves ==
    /\ sendLock' \in 0..Closer
    /\ ping' \in {"none", "queued", "taken", "wire", "acked", "lost"}
    /\ (ping' = "none" <=> ping = "none") /\ (ping' = "acked" <=> ping = "acked")
    /\ rp' \in [pc : ReaderPc, on : 0..N] /\ PumpOK'
    /\ rp'.pc \in InServicePc => rp.pc \in InServicePc

\* What a step leaves of the shutdown keeps the invariant of the pump and the PING.
LEMMA PumpKept ==
    ASSUME ServerInv, PumpMoves, SameGoodbyes(me, me') PROVE PumpInv'
<1>1. InService' => InService
    BY DEF InService, PumpMoves, SameGoodbyes, InServicePc
<1>2. InService' => me'.sent = me.sent
    BY DEF InService, SameGoodbyes
<1>3. InService' => Goodbyes(me')
    BY <1>1, <1>2 DEF ServerInv, PumpInv, ShutdownOK, Goodbyes, SameGoodbyes
<1>4. ShutdownOK'
    BY <1>3 DEF ServerInv, PumpInv, ShutdownOK, PumpMoves, SameGoodbyes
<1> QED
    BY <1>4 DEF PumpMoves, PumpInv

\* A step that leaves the lock with a verdict.
LEMMA CommittedStep ==
    ASSUME ServerInv, NEW a \in Actors, NEW n \in Locked, Counted(n),
           n.active <= scene.maxConcurrent, Goes(me, n), Books(n), SameGoodbyes(me, n),
           NEW first \in {<<>>, <<End>>}, first # <<>> => n.error, Commit(a, n, first),
           a = Reader => acts[Reader] = <<>>,
           \A i \in 1..Len(acts[Reader]) :
               \/ acts[Reader][i] = End \/ n.error
               \/ n.stream[acts[Reader][i]] = me.stream[acts[Reader][i]],
           UNCHANGED <<scene, queue, lp>>,
           handler' \in [Ids -> {"none", "running", "over"}],
           \A s \in Ids : handler'[s] # "none" => handler[s] # "none",
           PumpMoves
    PROVE  ServerInv'
<1>1. CoreInv' /\ Others(n, me', {"flags"})
    BY Committed DEF ServerInv
<1>2. SameGoodbyes(me, me')
    BY <1>1 DEF Others, Fields, SameGoodbyes
<1> QED
    BY <1>1, <1>2, PumpKept DEF ServerInv

\* A step that raises no flag.
LEMMA PlainStep ==
    ASSUME ServerInv, NEW n \in Locked, Counted(n), n.flags = {},
           n.active <= scene.maxConcurrent, Goes(me, n), Books(n), SameGoodbyes(me, n),
           me' = n, UNCHANGED <<acts, scene, queue, lp, handler>>,
           acts[Reader] = <<>> \/ n.stream = me.stream,
           PumpMoves
    PROVE  ServerInv'
<1>1. \A i \in 1..Len(acts[Reader]) : n.stream[acts[Reader][i]] = me.stream[acts[Reader][i]]
    BY EmptySeq
<1>2. acts' \in [Actors -> Seq(0..N)] /\ handler' \in [Ids -> {"none", "running", "over"}]
    BY DEF ServerInv, CoreInv
<1>3. CoreInv'
    BY <1>1, <1>2, CoreGoes DEF ServerInv
<1> QED
    BY <1>3, PumpKept DEF ServerInv

\* A step that leaves the locked state alone.
LEMMA LocalStep ==
    ASSUME ServerInv, UNCHANGED <<me, acts, scene, queue, lp, handler>>, PumpMoves PROVE ServerInv'
<1>1. me \in Locked /\ Counted(me) /\ me.flags = {} /\ me.active <= scene.maxConcurrent /\ Books(me)
    BY DEF ServerInv, CoreInv
<1>2. Goes(me, me) /\ SameGoodbyes(me, me)
    BY DEF Goes, SameGoodbyes
<1> QED
    BY <1>1, <1>2, PlainStep

\* What a function of the locked state may return from me.
Sound(n) ==
    /\ n \in Locked /\ Counted(n) /\ n.active <= scene.maxConcurrent
    /\ Goes(me, n) /\ Books(n) /\ SameGoodbyes(me, n)

\* The locked state is what a function may return from it.
LEMMA SoundMe == ASSUME ServerInv PROVE Sound(me) /\ me.flags = {}
BY DEF ServerInv, CoreInv, Sound, Goes, SameGoodbyes

\* One function of the locked state after another.
LEMMA SoundAfter ==
    ASSUME ServerInv, NEW m, Sound(m), NEW n \in Locked, Counted(n), Moves(m, n), Kept(m, n)
    PROVE  Sound(n)
<1>1. ActiveIn(n) \subseteq ActiveIn(m)
    BY DEF Moves, ActiveIn
<1>2. Books(n)
  <2>1. /\ n.resetPending = m.resetPending /\ n.pendingAccept = m.pendingAccept
        /\ \A s \in Ids : m.stream[s] # "idle" => n.stream[s] # "idle"
      BY DEF Moves, Kept
  <2>2. m.pendingAccept \subseteq Ids /\ Books(m)
      BY DEF Sound, Locked
  <2> QED
      BY <1>1, <2>1, <2>2 DEF Books
<1>3. scene.maxConcurrent \in Nat /\ n.active \in Nat /\ m.active \in Nat
    BY H2ServerConstants DEF ServerInv, CoreInv, Sound, Locked
<1>4. n.active <= scene.maxConcurrent /\ (m.active = 0 => n.active = 0)
    BY <1>3 DEF Sound, Moves
<1>5. Goes(me, n)
    BY <1>4 DEF Sound, Goes, Moves, Kept
<1>6. SameGoodbyes(me, n)
    BY DEF Sound, SameGoodbyes, Kept
<1> QED
    BY <1>2, <1>4, <1>5, <1>6 DEF Sound

\* Counters and flags that no other part reads.
LEMMA SoundAside ==
    ASSUME ServerInv, NEW n \in Locked, Others(me, n, {"errors", "ignored", "peerGoAway", "stop", "pending"})
    PROVE  Sound(n) /\ n.flags = {} /\ n.stream = me.stream
BY SoundMe, AsideOK, SoundAfter DEF Sound

\* Queueing a frame.
LEMMA SoundEnqueue == ASSUME ServerInv, NEW m, Sound(m) PROVE Sound(Enqueue(m)) /\ Enqueue(m).stream = m.stream
<1>1. m \in Locked /\ Counted(m)
    BY DEF Sound
<1> QED
    BY <1>1, EnqueueOK, SoundAfter

\* Ending a stream.
LEMMA SoundClose ==
    ASSUME ServerInv, NEW m, Sound(m), NEW s \in Ids, NEW how \in {"gone", "reset"}
    PROVE  /\ Sound(CloseStream(m, s, how))
           /\ \A u \in Ids \ {s} : CloseStream(m, s, how).stream[u] = m.stream[u]
<1>1. m \in Locked /\ Counted(m)
    BY DEF Sound
<1> QED
    BY <1>1, CloseStreamOK, SoundAfter

\* fail().
LEMMA SoundFail == ASSUME ServerInv PROVE Sound(Fail(me)) /\ Fail(me).error
<1>1. me \in Locked /\ Counted(me)
    BY DEF ServerInv, CoreInv
<1> QED
    BY <1>1, FailOK, SoundMe, SoundAfter

\* The acknowledging GOAWAY.
LEMMA SoundReply == ASSUME ServerInv PROVE Sound(GoAwayReply(me)) /\ GoAwayReply(me).stream = me.stream
<1>1. me \in Locked /\ Counted(me)
    BY DEF ServerInv, CoreInv
<1> QED
    BY <1>1, GoAwayReplyOK, SoundMe, SoundAfter

\* A new stream: nothing was drained, and its id was nowhere in the books.
LEMMA SoundOpened ==
    ASSUME ServerInv, NEW s \in Ids, me.stream[s] = "idle", s <= me.maxId, ~(s <= me.lastRecv),
           ~(me.active >= scene.maxConcurrent)
    PROVE  Sound(Opened(me, s)) /\ Opened(me, s).flags = {} /\ ~me.final
<1> DEFINE n == Opened(me, s)
<1>1. me \in Locked /\ Counted(me) /\ Books(me) /\ me.flags = {}
    BY DEF ServerInv, CoreInv
<1>2. /\ s \in Nat /\ me.lastRecv \in Nat /\ me.lastProcessed \in Nat /\ me.maxId \in Nat
      /\ me.active \in Nat /\ scene.maxConcurrent \in Nat
    BY <1>1, H2ServerConstants DEF Locked, Ids, Top, ServerInv, CoreInv
<1>3. ~me.final
    BY <1>1, <1>2 DEF Counted
<1>4. /\ n \in Locked /\ Counted(n)
      /\ Others(me, n, {"lastRecv", "lastProcessed", "stream", "active"})
      /\ n.active = me.active + 1 /\ n.stream = [me.stream EXCEPT ![s] = "active"]
    BY <1>1, <1>3, OpenedOK
<1> HIDE DEF n
<1>5. /\ n.pendingAccept = me.pendingAccept /\ n.resetPending = me.resetPending /\ n.maxId = me.maxId
      /\ n.graceful = me.graceful /\ n.final = me.final /\ n.flags = me.flags
      /\ n.replied = me.replied /\ n.error = me.error /\ n.sent = me.sent
    BY <1>4 DEF Others, Fields
<1>6. n.active <= scene.maxConcurrent
    BY <1>2, <1>4
<1>7. /\ \A u \in Ids : me.stream[u] # "idle" => n.stream[u] # "idle"
      /\ ActiveIn(n) \subseteq ActiveIn(me) \cup {s} /\ me.pendingAccept \subseteq Ids
    BY <1>1, <1>4 DEF Locked, ActiveIn
<1>8. Goes(me, n)
    BY <1>3, <1>5, <1>7 DEF Goes
<1>9. Books(n)
  <2>1. s \notin me.pendingAccept
      BY <1>1 DEF Books
  <2> QED
      BY <1>1, <1>5, <1>7, <2>1 DEF Books
<1>10. SameGoodbyes(me, n)
    BY <1>5 DEF SameGoodbyes
<1> QED
    BY <1>1, <1>3, <1>4, <1>5, <1>6, <1>8, <1>9, <1>10 DEF Sound, n

(***************************************************************************)
(* The read pump.                                                           *)
(***************************************************************************)

\* A frame's verdict that publishes nothing.
LEMMA VerdictInv ==
    ASSUME ServerInv, Free(Reader), rp.pc \in InServicePc, NEW n, Sound(n), Verdict(n, <<>>),
           UNCHANGED <<scene, queue, lp, handler, sendLock, ping>>
    PROVE  ServerInv'
<1>1. /\ acts[Reader] = <<>> /\ Commit(Reader, n, <<>>) /\ rp' = [pc |-> "batch", on |-> NoId]
      /\ n \in Locked /\ Counted(n) /\ n.active <= scene.maxConcurrent
      /\ Goes(me, n) /\ Books(n) /\ SameGoodbyes(me, n)
    BY DEF Free, Verdict, Sound
<1>2. PumpMoves
    BY <1>1, H2ServerConstants DEF ServerInv, PumpInv, PumpMoves, PumpOK, InServicePc, ReaderPc, NoId
<1>3. handler' \in [Ids -> {"none", "running", "over"}]
    BY DEF ServerInv, CoreInv
<1>4. \A i \in 1..Len(acts[Reader]) : FALSE
    BY <1>1, EmptySeq
<1>5. <<>> \in {<<>>, <<End>>}
    OBVIOUS
<1> QED
    BY <1>1, <1>2, <1>3, <1>4, <1>5, EndIsNoRequest, CommittedStep

\* A stream error that is still to be answered.
LEMMA StreamErrorInv ==
    ASSUME ServerInv, Free(Reader), rp.pc \in InServicePc, NEW n, Sound(n), n.flags = {},
           NEW s \in Ids, NEW why \in {"refuse", "reset"}, StreamError(n, s, why),
           UNCHANGED <<scene, queue, lp, handler, sendLock, ping>>
    PROVE  ServerInv'
<1>1. /\ acts[Reader] = <<>> /\ me' = n /\ UNCHANGED acts /\ rp' = [pc |-> why, on |-> s]
      /\ n \in Locked /\ Counted(n) /\ n.active <= scene.maxConcurrent
      /\ Goes(me, n) /\ Books(n) /\ SameGoodbyes(me, n)
    BY DEF Free, StreamError, Sound
<1>2. PumpMoves
    BY <1>1, EndIsNoRequest DEF ServerInv, PumpInv, PumpMoves, PumpOK, InServicePc, ReaderPc, Free
<1> QED
    BY <1>1, <1>2, PlainStep

\* A connection error.
LEMMA ConnErrorInv ==
    ASSUME ServerInv, Free(Reader), rp.pc \in InServicePc, NEW s \in 0..N, ConnError(s),
           UNCHANGED <<scene, queue, lp, handler, sendLock, ping>>
    PROVE  ServerInv'
<1>1. PumpMoves
    BY DEF ServerInv, PumpInv, PumpMoves, PumpOK, InServicePc, ReaderPc, Free, ConnError
<1> QED
    BY <1>1, LocalStep DEF ConnError

\* A request is published: until now its id was nowhere, and from now on it is active.
LEMMA PublishInv ==
    ASSUME ServerInv, Free(Reader), rp.pc \in InServicePc, NEW s \in Ids,
           me.stream[s] = "idle", s <= me.maxId, ~(s <= me.lastRecv),
           ~(me.active >= scene.maxConcurrent),
           Verdict([Opened(me, s) EXCEPT !.pendingAccept = @ \cup {s}], <<s>>),
           UNCHANGED <<scene, queue, lp, handler, sendLock, ping>>
    PROVE  ServerInv'
<1> DEFINE m == Opened(me, s)
           n == [m EXCEPT !.pendingAccept = m.pendingAccept \cup {s}]
<1>1. Sound(m) /\ m.flags = {} /\ ~me.final
    BY SoundOpened
<1>2. me \in Locked /\ Counted(me) /\ Books(me) /\ Shelf /\ EndsOK
    BY DEF ServerInv, CoreInv
<1>3. m \in Locked /\ m.stream = [me.stream EXCEPT ![s] = "active"]
    BY <1>1, <1>2, OpenedOK
<1>4. s \notin me.pendingAccept /\ me.pendingAccept \subseteq Ids /\ s \in 0..N /\ s # End
    BY <1>2, EndIsNoRequest DEF Books, Locked
<1>5. m.pendingAccept = me.pendingAccept /\ m.pendingAccept \cup {s} \in SUBSET Ids
    BY <1>1, <1>4 DEF Sound, Goes
<1> HIDE DEF m
<1>6. n \in Locked /\ n.pendingAccept = m.pendingAccept \cup {s} /\ Others(m, n, {"pendingAccept"})
    BY <1>3, <1>5, SetPendingAccept
<1>7. Commit(Reader, n, <<s>>) /\ rp' = [pc |-> "batch", on |-> NoId]
    BY DEF Verdict, m
<1> HIDE DEF n
<1>8. /\ n.stream = m.stream /\ n.active = m.active /\ n.final = m.final /\ n.error = m.error
      /\ n.lastRecv = m.lastRecv /\ n.lastProcessed = m.lastProcessed /\ n.maxId = m.maxId
      /\ n.resetPending = m.resetPending /\ n.graceful = m.graceful /\ n.replied = m.replied
      /\ n.sent = m.sent /\ n.flags = {}
    BY <1>1, <1>6 DEF Others, Fields
<1>9. acts'[Reader] = <<s>> /\ acts' = [acts EXCEPT ![Reader] = <<s>>]
  <2>1. acts' = [acts EXCEPT ![Reader] = <<s>> \o <<>> \o <<>>]
      BY <1>7, <1>8 DEF Commit
  <2>2. <<s>> \o <<>> \o <<>> = <<s>>
      BY ConcatEmptySeq, <1>4
  <2> QED
      BY <2>1, <2>2, EndIsNoRequest DEF ServerInv, CoreInv
<1>10. me' = n
  <2>1. me' = [n EXCEPT !.flags = {}]
      BY <1>7 DEF Commit
  <2>2. [n EXCEPT !.flags = {}] \in Locked /\ Others(n, [n EXCEPT !.flags = {}], {})
      BY <1>6, <1>8 DEF Locked, Others, Fields
  <2> QED
      BY <1>6, <2>1, <2>2 DEF Locked, Others, Fields
<1>11. acts' \in [Actors -> Seq(0..N)] /\ Len(acts'[Reader]) = 1 /\ acts'[Reader][1] = s
       /\ \A b \in Actors : b # Reader => acts'[b] = acts[b]
  <2>1. <<s>> \in Seq(0..N) /\ Len(<<s>>) = 1 /\ <<s>>[1] = s
      BY <1>4
  <2> QED
      BY <1>9, <2>1, Zenon DEF ServerInv, CoreInv
<1>12. n.stream[s] = "active" /\ n.stream = [me.stream EXCEPT ![s] = "active"]
    BY <1>2, <1>3, <1>8 DEF Locked
<1>13. Counted(n)
    BY <1>1, <1>8 DEF Sound, Counted, ActiveIn
<1>14. \A i \in 1..Len(acts[Reader]) : FALSE
    BY EmptySeq DEF Free
<1>15. Books(n)
    BY <1>1, <1>6, <1>8, <1>12 DEF Sound, Books, ActiveIn
<1>16. Unaccepted' = Unaccepted \cup {s}
  <2>1. \A u \in Ids : u \in Unaccepted' <=> u \in Unaccepted \/ u = s
      BY <1>11, <1>14 DEF Unaccepted
  <2>2. Unaccepted' \subseteq Ids /\ Unaccepted \subseteq Ids
      BY DEF Unaccepted
  <2> QED
      BY <2>1, <2>2
<1>17. s \notin Unaccepted
    BY <1>2, <1>4 DEF Shelf
<1>18. Shelf'
  <2>1. \A i \in 1..Len(queue) : queue[i] # s
      BY <1>17 DEF Unaccepted
  <2>2. lp.pc = "accept" => lp.on # s
      BY <1>17 DEF Unaccepted
  <2>3. \A u \in Ids : handler[u] # "none" => u # s /\ u \notin n.pendingAccept /\ n.stream[u] # "idle"
      BY <1>2, <1>5, <1>6, <1>12 DEF Shelf, Locked
  <2>4. me'.pendingAccept = Unaccepted'
      BY <1>2, <1>5, <1>6, <1>10, <1>16 DEF Shelf
  <2> QED
      BY <1>2, <1>10, <1>11, <2>1, <2>2, <2>3, <2>4 DEF Shelf
<1>19. ActsOK'
    BY <1>11 DEF ServerInv, CoreInv, ActsOK
<1>20. EndsOK'
  <2> SUFFICES ASSUME ~n.error PROVE
              /\ EndComing' \/ (\E i \in 1..Len(queue) : queue[i] = End) => FALSE
              /\ n.stream[s] = "active"
              /\ \A i, j \in 1..Len(queue) : i < j /\ queue[i] = End => queue[j] = End
      BY <1>10, <1>11 DEF EndsOK
  <2>1. ~me.error
      BY <1>1, <1>8 DEF Sound, Goes
  <2>2. EndComing' => EndComing
      BY <1>4, <1>11 DEF EndComing
  <2> QED
      BY <1>1, <1>2, <1>12, <2>1, <2>2 DEF EndsOK
<1>21. n.active <= scene.maxConcurrent
    BY <1>1, <1>8 DEF Sound
<1>22. CoreInv'
    BY <1>6, <1>8, <1>10, <1>11, <1>13, <1>15, <1>18, <1>19, <1>20, <1>21 DEF ServerInv, CoreInv
<1>23. SameGoodbyes(me, me')
    BY <1>1, <1>8, <1>10 DEF Sound, SameGoodbyes
<1>24. PumpMoves
    BY <1>7, EndIsNoRequest DEF ServerInv, PumpInv, PumpMoves, PumpOK, InServicePc, ReaderPc, NoId, End
<1> QED
    BY <1>22, <1>23, <1>24, PumpKept DEF ServerInv

\* Where a frame may be received.
LEMMA ReceiveAt ==
    ASSUME Receive, PeerFrame
    PROVE  /\ Free(Reader) /\ rp.pc \in InServicePc
           /\ UNCHANGED <<scene, queue, lp, handler, sendLock, ping>>
BY DEF Receive, PeerFrame, InServicePc

\* recv_headers on a stream the server does not know: refused, opened, ended or an error.
LEMMA NewRequestInv ==
    ASSUME ServerInv, Free(Reader), rp.pc \in InServicePc, NEW s \in Ids, me.stream[s] = "idle",
           s <= me.maxId, NewRequest(s), UNCHANGED <<scene, queue, lp, handler, sendLock, ping>>
    PROVE  ServerInv'
<1> DEFINE m == Opened(me, s)
<1>1. CASE s <= me.lastRecv
    BY <1>1, ConnErrorInv, EndIsNoRequest DEF NewRequest
<1>2. CASE ~(s <= me.lastRecv) /\ me.active >= scene.maxConcurrent
  <2> DEFINE n == [me EXCEPT !.lastRecv = s]
  <2>1. StreamError(n, s, "refuse")
      BY <1>2 DEF NewRequest
  <2>2. n \in Locked /\ n.lastRecv = s /\ Others(me, n, {"lastRecv"})
      BY SetLastRecv, EndIsNoRequest DEF ServerInv, CoreInv
  <2> HIDE DEF n
  <2>3. /\ n.stream = me.stream /\ n.active = me.active /\ n.final = me.final /\ n.error = me.error
        /\ n.lastProcessed = me.lastProcessed /\ n.maxId = me.maxId
        /\ n.pendingAccept = me.pendingAccept /\ n.resetPending = me.resetPending
        /\ n.graceful = me.graceful /\ n.replied = me.replied /\ n.sent = me.sent /\ n.flags = me.flags
      BY <2>2 DEF Others, Fields
  <2>4. me.lastProcessed <= s
      BY <1>2, H2ServerConstants DEF ServerInv, CoreInv, Counted, Locked, Ids
  <2>5. Counted(n) /\ n.flags = {}
      BY <2>2, <2>3, <2>4 DEF ServerInv, CoreInv, Counted, ActiveIn
  <2>6. Sound(n)
      BY <2>2, <2>3, <2>5 DEF ServerInv, CoreInv, Sound, Goes, Books, ActiveIn, SameGoodbyes
  <2> QED
      BY <2>1, <2>5, <2>6, StreamErrorInv
<1>3. CASE ~(s <= me.lastRecv) /\ ~(me.active >= scene.maxConcurrent)
  <2>1. Sound(m) /\ m.flags = {}
      BY <1>3, SoundOpened
  <2>2. \/ Verdict([m EXCEPT !.pendingAccept = @ \cup {s}], <<s>>)
        \/ StreamError(m, s, "reset")
        \/ \E how \in {"gone", "reset"} : Verdict(Enqueue(CloseStream(m, s, how)), <<>>)
      BY <1>3 DEF NewRequest, Opened
  <2>3. ASSUME NEW how \in {"gone", "reset"}, Verdict(Enqueue(CloseStream(m, s, how)), <<>>)
        PROVE  ServerInv'
    <3>1. Sound(Enqueue(CloseStream(m, s, how)))
        BY <2>1, SoundClose, SoundEnqueue
    <3> QED
        BY <2>3, <3>1, VerdictInv
  <2>4. CASE StreamError(m, s, "reset")
      BY <2>1, <2>4, StreamErrorInv
  <2>5. CASE Verdict([m EXCEPT !.pendingAccept = @ \cup {s}], <<s>>)
      BY <1>3, <2>5, PublishInv
  <2> QED
      BY <2>2, <2>3, <2>4, <2>5
<1> QED
    BY <1>1, <1>2, <1>3

\* recv_headers.
LEMMA RecvHeadersInv ==
    ASSUME ServerInv, NEW s \in Ids, RecvHeaders(s) PROVE ServerInv'
<1>1. /\ Free(Reader) /\ rp.pc \in InServicePc
      /\ UNCHANGED <<scene, queue, lp, handler, sendLock, ping>>
    BY ReceiveAt DEF RecvHeaders
<1>2. Sound(me) /\ me.flags = {}
    BY SoundMe
<1>3. \/ me.stream[s] = "idle" /\ OpenRequest(s)
      \/ Verdict(me, <<>>) \/ StreamError(me, s, "reset") \/ ConnError(s)
    BY DEF RecvHeaders, ServerInv, CoreInv, Locked
<1>4. CASE Verdict(me, <<>>) \/ StreamError(me, s, "reset") \/ ConnError(s)
    BY <1>1, <1>2, <1>4, VerdictInv, StreamErrorInv, ConnErrorInv, EndIsNoRequest
<1>5. CASE me.stream[s] = "idle" /\ OpenRequest(s)
  <2>1. CASE s > me.maxId
    <3> DEFINE n == [me EXCEPT !.ignored = @ \cup {s}]
    <3>1. Verdict(n, <<>>)
        BY <1>5, <2>1 DEF OpenRequest
    <3>2. n \in Locked /\ Others(me, n, {"ignored"})
        BY SetIgnored DEF ServerInv, CoreInv
    <3> HIDE DEF n
    <3>3. Sound(n)
        BY <3>2, SoundAside DEF Others
    <3> QED
        BY <1>1, <3>1, <3>3, VerdictInv
  <2>2. CASE ~(s > me.maxId)
    <3>1. NewRequest(s)
        BY <1>5, <2>2 DEF OpenRequest
    <3>2. s <= me.maxId
        BY <2>2, H2ServerConstants DEF ServerInv, CoreInv, Locked, Ids, Top
    <3> QED
        BY <1>1, <1>5, <3>1, <3>2, NewRequestInv
  <2> QED
      BY <2>1, <2>2
<1> QED
    BY <1>3, <1>4, <1>5

\* recv_reset: the cap on streams that were reset before they were accepted.
LEMMA RecvResetInv ==
    ASSUME ServerInv, NEW s \in Ids, RecvReset(s) PROVE ServerInv'
<1>1. /\ Free(Reader) /\ rp.pc \in InServicePc
      /\ UNCHANGED <<scene, queue, lp, handler, sendLock, ping>>
    BY ReceiveAt DEF RecvReset
<1>2. CASE Verdict(me, <<>>) \/ ConnError(s)
    BY <1>1, <1>2, SoundMe, VerdictInv, ConnErrorInv, EndIsNoRequest
<1>3. CASE /\ me.stream[s] = "active" /\ ~(s \in me.pendingAccept /\ AtResetCap)
           /\ Verdict(CloseStream([me EXCEPT !.resetPending = @ \cup ({s} \cap me.pendingAccept)],
                                  s, "gone"), <<>>)
  <2> DEFINE S == me.resetPending \cup ({s} \cap me.pendingAccept)
             m == [me EXCEPT !.resetPending = S]
             n == CloseStream(m, s, "gone")
  <2>1. me \in Locked /\ Counted(me) /\ Books(me) /\ me.active <= scene.maxConcurrent
      BY DEF ServerInv, CoreInv
  <2>2. S \in SUBSET Ids
      BY <2>1 DEF Locked
  <2>3. /\ s \notin me.resetPending /\ IsFiniteSet(me.resetPending)
        /\ Cardinality(me.resetPending) \in Nat
    <3>1. me.resetPending \in SUBSET Ids /\ s \in ActiveIn(me)
        BY <1>3, <2>1 DEF Locked, ActiveIn
    <3> QED
        BY <2>1, <3>1, IdsFinite DEF Books
  <2>4. Cardinality(S) <= MaxResets
    <3>1. CASE s \in me.pendingAccept
      <4>1. S = me.resetPending \cup {s}
          BY <3>1
      <4>2. Cardinality(S) = Cardinality(me.resetPending) + 1
          BY <2>3, <4>1, FS_AddElement
      <4>3. ~(Cardinality(me.resetPending) >= MaxResets)
          BY <1>3, <3>1 DEF AtResetCap
      <4> QED
          BY <2>3, <4>2, <4>3, H2ServerConstants
    <3>2. CASE s \notin me.pendingAccept
      <4>1. S = me.resetPending
          BY <3>2
      <4> QED
          BY <2>1, <4>1 DEF Books
    <3> QED
        BY <3>1, <3>2
  <2> HIDE DEF S
  <2>5. m \in Locked /\ m.resetPending = S /\ Others(me, m, {"resetPending"})
      BY <2>1, <2>2, SetResetPending
  <2>6. Verdict(n, <<>>)
      BY <1>3 DEF S
  <2> HIDE DEF m
  <2>7. /\ m.stream = me.stream /\ m.active = me.active /\ m.final = me.final /\ m.error = me.error
        /\ m.lastRecv = me.lastRecv /\ m.lastProcessed = me.lastProcessed /\ m.maxId = me.maxId
        /\ m.pendingAccept = me.pendingAccept /\ m.graceful = me.graceful
        /\ m.replied = me.replied /\ m.sent = me.sent /\ m.flags = me.flags
      BY <2>5 DEF Others, Fields
  <2>8. Counted(m)
      BY <2>1, <2>7 DEF Counted, ActiveIn
  <2>9. /\ n \in Locked /\ Counted(n) /\ Moves(m, n) /\ Kept(m, n)
        /\ n.stream[s] # "active" /\ \A u \in Ids \ {s} : n.stream[u] = m.stream[u]
      BY <2>5, <2>8, CloseStreamOK
  <2> HIDE DEF n
  <2>10. ActiveIn(n) \subseteq ActiveIn(me) \ {s}
      BY <2>7, <2>9 DEF ActiveIn
  <2>11. /\ n.pendingAccept = me.pendingAccept /\ n.resetPending = S
         /\ \A u \in Ids : me.stream[u] # "idle" => n.stream[u] # "idle"
      BY <2>5, <2>7, <2>9 DEF Moves, Kept
  <2>12. S \subseteq me.pendingAccept \ ActiveIn(n)
      BY <2>1, <2>10 DEF S, Books
  <2>13. Books(n)
      BY <2>1, <2>4, <2>11, <2>12 DEF Books, Locked
  <2>14. n.active \in Nat /\ me.active \in Nat /\ n.active <= me.active /\ scene.maxConcurrent \in Nat
      BY <2>1, <2>7, <2>9, H2ServerConstants DEF Moves, Locked, ServerInv, CoreInv
  <2>15. Goes(me, n)
      BY <2>7, <2>9, <2>11, <2>14 DEF Goes, Moves, Kept
  <2>16. SameGoodbyes(me, n)
      BY <2>7, <2>9 DEF Kept, SameGoodbyes
  <2>17. Sound(n)
      BY <2>1, <2>9, <2>13, <2>14, <2>15, <2>16 DEF Sound
  <2> QED
      BY <1>1, <2>6, <2>17, VerdictInv
<1> QED
    BY <1>2, <1>3 DEF RecvReset

\* recv_go_away.
LEMMA RecvGoAwayInv == ASSUME ServerInv, RecvGoAway PROVE ServerInv'
<1> DEFINE n == [me EXCEPT !.peerGoAway = TRUE]
<1>1. n \in Locked /\ Others(me, n, {"peerGoAway"})
    BY SetPeerGoAway DEF ServerInv, CoreInv
<1>2. Verdict(n, <<>>)
    BY DEF RecvGoAway
<1> HIDE DEF n
<1>3. Sound(n)
    BY <1>1, SoundAside DEF Others
<1> QED
    BY <1>2, <1>3, ReceiveAt, VerdictInv DEF RecvGoAway

\* recv_ping: phase 2. One GOAWAY was sent before, and the stop is asked for only when
\* nothing is active.
LEMMA RecvPingAckInv == ASSUME ServerInv, RecvPingAck PROVE ServerInv'
<1> DEFINE m == SendGoAway(me, me.lastProcessed)
           a == [m EXCEPT !.final = TRUE]
           b == [a EXCEPT !.maxId = me.lastProcessed]
           F == m.flags \cup (IF me.active = 0 THEN {"stop"} ELSE {})
           n == [b EXCEPT !.flags = F]
<1>1. me \in Locked /\ Counted(me) /\ me.flags = {} /\ Books(me) /\ me.active <= scene.maxConcurrent
    BY DEF ServerInv, CoreInv
<1>2. me.lastProcessed \in 0..Top /\ me.sent \in Seq(0..Top)
    BY <1>1, H2ServerConstants DEF Locked, Top
<1>3. /\ m \in Locked /\ Counted(m) /\ Moves(me, m) /\ m.stream = me.stream
      /\ m.sent = Append(me.sent, me.lastProcessed) /\ m.replied = me.replied /\ m.flags = {"wake"}
      /\ m.resetPending = me.resetPending /\ m.lastRecv = me.lastRecv
      /\ m.lastProcessed = me.lastProcessed /\ m.graceful = me.graceful /\ m.active = me.active
    BY <1>1, <1>2, SendGoAwayOK
<1> HIDE DEF m
<1>4. a \in Locked /\ Others(m, a, {"final"})
    BY <1>3 DEF Locked, Others, Fields
<1>5. a.final
    BY <1>3, Zenon DEF Locked
<1>6. a.flags = m.flags
    BY <1>4 DEF Others, Fields
<1> HIDE DEF a
<1>7. b \in Locked /\ b.maxId = me.lastProcessed /\ Others(a, b, {"maxId"})
    BY <1>2, <1>4 DEF Locked, Others, Fields
<1>8. FinalGoAway(me) = n
  <2>1. FinalGoAway(me) = [m EXCEPT !.final = TRUE, !.maxId = me.lastProcessed,
                                    !.flags = @ \cup (IF me.active = 0 THEN {"stop"} ELSE {})]
      BY DEF FinalGoAway, m
  <2>2. b.flags = m.flags
      BY <1>6, <1>7 DEF Others, Fields
  <2> QED
      BY <2>1, <2>2 DEF a
<1> HIDE DEF b
<1>9. F \in SUBSET {"wake", "done", "stop"}
    BY <1>3
<1>10. n \in Locked /\ n.flags = F /\ Others(b, n, {"flags"})
    BY <1>7, <1>9 DEF Locked, Others, Fields
<1> HIDE DEF n
<1>11. /\ n.stream = me.stream /\ n.active = me.active /\ n.final /\ n.error = m.error
       /\ n.lastRecv = me.lastRecv /\ n.lastProcessed = me.lastProcessed
       /\ n.maxId = me.lastProcessed /\ n.pendingAccept = m.pendingAccept
       /\ n.resetPending = me.resetPending /\ n.graceful = me.graceful
       /\ n.replied = me.replied /\ n.sent = Append(me.sent, me.lastProcessed)
    BY <1>3, <1>4, <1>5, <1>7, <1>10 DEF Others, Fields
<1>12. Counted(n)
    BY <1>1, <1>3, <1>10, <1>11 DEF Counted, ActiveIn
<1>13. Goes(me, n)
    BY <1>3, <1>11 DEF Goes, Moves
<1>14. Books(n)
    BY <1>1, <1>3, <1>11 DEF Books, Moves, ActiveIn
<1>15. Commit(Reader, n, <<>>) /\ rp' = [pc |-> "batch", on |-> NoId] /\ acts[Reader] = <<>>
       /\ rp.pc \in InServicePc /\ ping = "wire" /\ ping' = "acked"
       /\ UNCHANGED <<scene, queue, lp, handler, sendLock>>
    BY <1>8 DEF RecvPingAck, Verdict, Free, InServicePc, bounds
<1>16. CoreInv' /\ Others(n, me', {"flags"})
  <2>1. \A i \in 1..Len(acts[Reader]) : FALSE
      BY <1>15, EmptySeq
  <2>2. <<>> \in {<<>>, <<End>>} /\ handler' \in [Ids -> {"none", "running", "over"}] /\ CoreInv
      BY <1>15 DEF ServerInv, CoreInv
  <2>3. n.active <= scene.maxConcurrent
      BY <1>1, <1>11
  <2> QED
      BY <1>10, <1>12, <1>13, <1>14, <1>15, <2>1, <2>2, <2>3, EndIsNoRequest, Committed
<1>17. /\ me'.graceful = me.graceful /\ me'.final /\ me'.replied = me.replied
       /\ me'.maxId = me.lastProcessed /\ me'.sent = Append(me.sent, me.lastProcessed)
    BY <1>11, <1>16 DEF Others, Fields
<1>18. me.graceful /\ ~me.final /\ (InService => Len(me.sent) = 1 /\ me.sent[1] = Top)
    BY <1>15 DEF ServerInv, PumpInv, ShutdownOK, Goodbyes
<1>19. InService' => Goodbyes(me')
  <2> SUFFICES ASSUME InService' PROVE Goodbyes(me')
      OBVIOUS
  <2>1. InService
      BY <1>15, <1>17 DEF InService, InServicePc
  <2>2. Len(me'.sent) = 2 /\ me'.sent[1] = Top /\ me'.sent[2] = me.lastProcessed
      BY <1>2, <1>17, <1>18, <2>1, AppendProperties
  <2> QED
      BY <1>17, <1>18, <2>2 DEF Goodbyes
<1>20. ShutdownOK'
    BY <1>15, <1>17, <1>18, <1>19 DEF ShutdownOK
<1>21. PumpInv'
    BY <1>15, <1>20, EndIsNoRequest DEF ServerInv, PumpInv, PumpOK, ReaderPc, InServicePc, NoId, End
<1> QED
    BY <1>16, <1>21 DEF ServerInv

\* reset_on_error.
LEMMA ResetOnErrorInv == ASSUME ServerInv, ResetOnError PROVE ServerInv'
<1>1. /\ Free(Reader) /\ rp.pc \in InServicePc /\ rp.on \in Ids
      /\ UNCHANGED <<scene, queue, lp, handler, sendLock, ping>>
    BY DEF ResetOnError, ServerInv, PumpInv, PumpOK, InServicePc, bounds
<1>2. CASE me.errors >= MaxErrors
    BY <1>1, <1>2, ConnErrorInv, EndIsNoRequest DEF ResetOnError
<1>3. CASE ~(me.errors >= MaxErrors)
  <2> DEFINE k == [me EXCEPT !.errors = @ + 1]
             m == Enqueue(k)
             n == IF rp.pc = "reset" THEN CloseStream(m, rp.on, "reset") ELSE m
  <2>1. k \in Locked /\ Others(me, k, {"errors"})
      BY SetErrors DEF ServerInv, CoreInv
  <2>2. Verdict(n, <<>>)
      BY <1>3 DEF ResetOnError
  <2> HIDE DEF k
  <2>3. Sound(k)
      BY <2>1, SoundAside DEF Others
  <2>4. Sound(n)
      BY <1>1, <2>3, SoundEnqueue, SoundClose
  <2> HIDE DEF n
  <2> QED
      BY <1>1, <2>2, <2>4, VerdictInv
<1> QED
    BY <1>2, <1>3

\* The end of a batch.
LEMMA BatchEndInv == ASSUME ServerInv, BatchEnd PROVE ServerInv'
<1> DEFINE n == GoAwayReply(me)
<1>1. Sound(n)
    BY SoundReply
<1>2. /\ acts[Reader] = <<>> /\ Commit(Reader, n, <<>>) /\ rp.pc = "batch"
      /\ rp' \in [pc : {"over", "read"}, on : {NoId}]
      /\ UNCHANGED <<scene, queue, lp, handler, sendLock, ping>>
    BY DEF BatchEnd, Free, bounds
<1> HIDE DEF n
<1>3. PumpMoves
    BY <1>2, EndIsNoRequest
       DEF ServerInv, PumpInv, PumpMoves, PumpOK, InServicePc, ReaderPc, NoId, End
<1>4. \A i \in 1..Len(acts[Reader]) : FALSE
    BY <1>2, EmptySeq
<1>5. <<>> \in {<<>>, <<End>>} /\ handler' \in [Ids -> {"none", "running", "over"}]
    BY <1>2 DEF ServerInv, CoreInv
<1> QED
    BY <1>1, <1>2, <1>3, <1>4, <1>5, EndIsNoRequest, CommittedStep DEF Sound

\* fail(), from the read pump, the write pump or close().
LEMMA FailInv ==
    ASSUME ServerInv, NEW a \in Actors, Commit(a, Fail(me), <<End>>),
           a = Reader => Free(Reader),
           UNCHANGED <<scene, queue, lp, handler>>, PumpMoves
    PROVE  ServerInv'
<1> DEFINE n == Fail(me)
<1>1. Sound(n) /\ n.error
    BY SoundFail
<1> HIDE DEF n
<1>2. <<End>> \in {<<>>, <<End>>} /\ handler' \in [Ids -> {"none", "running", "over"}]
    BY DEF ServerInv, CoreInv
<1> QED
    BY <1>1, <1>2, CommittedStep DEF Sound, Free, n

\* The read pump fails the connection,
LEMMA ReaderFailInv == ASSUME ServerInv, ReaderFail PROVE ServerInv'
<1>1. PumpMoves
    BY DEF ReaderFail, ServerInv, PumpInv, PumpMoves, PumpOK, InServicePc, ReaderPc
<1> QED
    BY <1>1, FailInv, EndIsNoRequest DEF ReaderFail, bounds

\* so does the write pump,
LEMMA PumpFailInv == ASSUME ServerInv, PumpFail PROVE ServerInv'
<1>1. Writer \in Actors /\ Writer # Reader
    BY H2ServerConstants DEF Writer, Reader, Actors
<1>2. PumpMoves
    BY <1>1 DEF PumpFail, Commit, Free, ServerInv, CoreInv, PumpInv, PumpMoves, PumpOK, InServicePc, ReaderPc
<1> QED
    BY <1>1, <1>2, FailInv DEF PumpFail, bounds

\* and so does close(), for the stragglers.
LEMMA CloseFailsInv == ASSUME ServerInv, CloseFails PROVE ServerInv'
<1>1. Closer \in Actors /\ Closer # Reader
    BY H2ServerConstants DEF Closer, Reader, Actors
<1>2. PumpMoves
    BY <1>1 DEF CloseFails, Commit, Free, pumps, ServerInv, CoreInv, PumpInv, PumpMoves, PumpOK, InServicePc, ReaderPc
<1> QED
    BY <1>1, <1>2, FailInv DEF CloseFails, bounds, pumps

(***************************************************************************)
(* The write pump, the flushes, and close().                                *)
(***************************************************************************)

\* take_pending.
LEMMA TakeInv ==
    ASSUME ServerInv, NEW a \in {Writer, Reader, Closer}, TakePending(a),
           UNCHANGED <<acts, scene, queue, lp, handler>>,
           rp' \in [pc : ReaderPc, on : 0..N], PumpOK',
           rp'.pc \in InServicePc => rp.pc \in InServicePc
    PROVE  ServerInv'
<1> DEFINE n == [me EXCEPT !.pending = FALSE]
<1>1. n \in Locked /\ Others(me, n, {"pending"})
    BY SetPending DEF ServerInv, CoreInv
<1>2. me' = n
    BY DEF TakePending
<1> HIDE DEF n
<1>3. Sound(n) /\ n.flags = {} /\ n.stream = me.stream
    BY <1>1, SoundAside DEF Others
<1>4. sendLock' \in 0..Closer
    BY H2ServerConstants DEF TakePending, Writer, Reader, Closer, NoId
<1>5. PumpMoves
    BY <1>4 DEF PumpMoves, TakePending, ServerInv, PumpInv
<1> QED
    BY <1>2, <1>3, <1>5, PlainStep DEF Sound

\* The write pump takes the buffer,
LEMMA PumpTakeInv == ASSUME ServerInv, PumpTake PROVE ServerInv'
<1>1. /\ rp' \in [pc : ReaderPc, on : 0..N] /\ PumpOK'
      /\ rp'.pc \in InServicePc => rp.pc \in InServicePc
    BY DEF PumpTake, ServerInv, PumpInv, PumpOK, Free
<1> QED
    BY <1>1, TakeInv DEF PumpTake, bounds

\* the read pump's error path flushes it inline,
LEMMA ReaderFlushInv == ASSUME ServerInv, ReaderFlush PROVE ServerInv'
<1>1. /\ rp' \in [pc : ReaderPc, on : 0..N] /\ PumpOK'
      /\ rp'.pc \in InServicePc => rp.pc \in InServicePc
    BY DEF ReaderFlush, ServerInv, PumpInv, PumpOK, Free, InServicePc, ReaderPc
<1> QED
    BY <1>1, TakeInv DEF ReaderFlush, bounds

\* and so does close().
LEMMA CloseFlushInv == ASSUME ServerInv, CloseFlush PROVE ServerInv'
<1>1. /\ rp' \in [pc : ReaderPc, on : 0..N] /\ PumpOK'
      /\ rp'.pc \in InServicePc => rp.pc \in InServicePc
    BY DEF CloseFlush, ServerInv, PumpInv, PumpOK, Free, pumps
<1> QED
    BY <1>1, TakeInv DEF CloseFlush, bounds

\* stop_pump().
LEMMA CloseStopsInv == ASSUME ServerInv, CloseStops PROVE ServerInv'
<1> DEFINE n == [me EXCEPT !.stop = TRUE]
<1>1. n \in Locked /\ Others(me, n, {"stop"})
    BY SetStop DEF ServerInv, CoreInv
<1>2. me' = n
    BY DEF CloseStops
<1> HIDE DEF n
<1>3. Sound(n) /\ n.flags = {} /\ n.stream = me.stream
    BY <1>1, SoundAside DEF Others
<1>4. PumpMoves
    BY DEF CloseStops, pumps, ServerInv, PumpInv, PumpMoves, PumpOK, Free
<1> QED
    BY <1>2, <1>3, <1>4, PlainStep DEF Sound, CloseStops, bounds

\* The batch of the lock's holder is written.
LEMMA WrittenMoves ==
    ASSUME ServerInv, NEW ok \in BOOLEAN, Written(ok)
    PROVE  /\ sendLock' \in 0..Closer
           /\ ping' \in {"none", "queued", "taken", "wire", "acked", "lost"}
           /\ (ping' = "none" <=> ping = "none") /\ (ping' = "acked" <=> ping = "acked")
BY H2ServerConstants DEF Written, ServerInv, PumpInv, NoId, Closer

\* The steps that touch neither the locked state nor the accept queue: the pump's own,
LEMMA ReaderLocalInv == ASSUME ServerInv, ReaderEof \/ ReaderFlushed PROVE ServerInv'
<1>1. UNCHANGED <<me, acts, scene, queue, lp, handler>>
    BY DEF ReaderEof, ReaderFlushed, bounds
<1>2. Free(Reader)' /\ rp'.pc = "fail" /\ rp' \in [pc : ReaderPc, on : 0..N]
  <2>1. Free(Reader)
      BY DEF ReaderEof, ReaderFlushed, ServerInv, PumpInv, PumpOK
  <2>2. rp' \in [pc : {"fail"}, on : 0..N]
      BY EndIsNoRequest DEF ReaderEof, ReaderFlushed, ServerInv, PumpInv, NoId, End
  <2> QED
      BY <1>1, <2>1, <2>2 DEF Free, ReaderPc
<1>3. /\ sendLock' \in 0..Closer
      /\ ping' \in {"none", "queued", "taken", "wire", "acked", "lost"}
      /\ (ping' = "none" <=> ping = "none") /\ (ping' = "acked" <=> ping = "acked")
  <2>1. CASE ReaderEof
      BY <2>1 DEF ReaderEof, ServerInv, PumpInv
  <2>2. CASE ReaderFlushed
      BY <2>2, WrittenMoves DEF ReaderFlushed
  <2> QED
      BY <2>1, <2>2
<1>4. PumpMoves
    BY <1>2, <1>3 DEF PumpMoves, PumpOK, InServicePc
<1> QED
    BY <1>1, <1>4, LocalStep

\* and those of the write pump and of close().
LEMMA LocalInv ==
    ASSUME ServerInv,
           \/ PumpWake \/ PumpWritten(TRUE) \/ PumpWritten(FALSE) \/ PumpCheck \/ CloseSignals
           \/ CloseJoinsWriter \/ CloseFlushed \/ CloseShutsDown \/ CloseJoinsReader
           \/ UNCHANGED serverVars
    PROVE  ServerInv'
<1>1. UNCHANGED <<me, acts, scene, queue, lp, handler, rp>>
    BY DEF PumpWake, PumpWritten, PumpCheck, CloseSignals, CloseJoinsWriter, CloseFlushed,
           CloseShutsDown, CloseJoinsReader, serverVars, bounds, pumps
<1>2. UNCHANGED <<sendLock, ping>> \/ \E ok \in BOOLEAN : Written(ok)
    BY DEF PumpWake, PumpWritten, PumpCheck, CloseSignals, CloseJoinsWriter, CloseFlushed,
           CloseShutsDown, CloseJoinsReader, serverVars
<1>3. /\ sendLock' \in 0..Closer
      /\ ping' \in {"none", "queued", "taken", "wire", "acked", "lost"}
      /\ (ping' = "none" <=> ping = "none") /\ (ping' = "acked" <=> ping = "acked")
  <2>1. CASE UNCHANGED <<sendLock, ping>>
      BY <2>1 DEF ServerInv, PumpInv
  <2>2. CASE \E ok \in BOOLEAN : Written(ok)
      BY <2>2, WrittenMoves
  <2> QED
      BY <1>2, <2>1, <2>2
<1>4. PumpMoves
    BY <1>1, <1>3 DEF ServerInv, PumpInv, PumpMoves, PumpOK, Free
<1> QED
    BY <1>1, <1>4, LocalStep

(***************************************************************************)
(* The GOAWAYs, the handlers and the accept loop.                           *)
(***************************************************************************)

\* A connection error sends its GOAWAY, and takes the pump out of service.
LEMMA ReaderGoAwayInv == ASSUME ServerInv, ReaderGoAway PROVE ServerInv'
<1> DEFINE n == SendGoAway(me, me.lastProcessed)
<1>1. me \in Locked /\ Counted(me) /\ me.flags = {} /\ Books(me) /\ me.active <= scene.maxConcurrent
    BY DEF ServerInv, CoreInv
<1>2. me.lastProcessed \in 0..Top
    BY <1>1, H2ServerConstants DEF Locked, Top
<1>3. /\ n \in Locked /\ Counted(n) /\ Moves(me, n) /\ n.stream = me.stream
      /\ n.resetPending = me.resetPending /\ n.graceful = me.graceful /\ n.final = me.final
      /\ n.active = me.active /\ n.flags = me.flags \cup {"wake"}
    BY <1>1, <1>2, SendGoAwayOK
<1>4. /\ Commit(Reader, n, <<>>) /\ rp' = [rp EXCEPT !.pc = "flush"] /\ acts[Reader] = <<>>
      /\ UNCHANGED <<scene, queue, lp, handler, sendLock, ping>>
    BY DEF ReaderGoAway, ServerInv, PumpInv, PumpOK, Free, bounds
<1> HIDE DEF n
<1>5. Goes(me, n)
    BY <1>3 DEF Goes, Moves
<1>6. Books(n)
    BY <1>1, <1>3 DEF Books, Moves, ActiveIn
<1>7. CoreInv' /\ Others(n, me', {"flags"})
  <2>1. \A i \in 1..Len(acts[Reader]) : FALSE
      BY <1>4, EmptySeq
  <2>2. <<>> \in {<<>>, <<End>>} /\ handler' \in [Ids -> {"none", "running", "over"}] /\ CoreInv
      BY <1>4 DEF ServerInv, CoreInv
  <2>3. n.active <= scene.maxConcurrent
      BY <1>1, <1>3
  <2> QED
      BY <1>3, <1>4, <1>5, <1>6, <2>1, <2>2, <2>3, EndIsNoRequest, Committed
<1>8. me'.graceful = me.graceful /\ me'.final = me.final
    BY <1>3, <1>7 DEF Others, Fields
<1>9. rp' \in [pc : {"flush"}, on : 0..N]
    BY <1>4 DEF ServerInv, PumpInv
<1>10. ~InService'
    BY <1>9 DEF InService
<1>11. ShutdownOK'
  <2>1. (me.graceful <=> ping # "none") /\ (me.final <=> ping = "acked")
      BY DEF ServerInv, PumpInv, ShutdownOK
  <2>2. me'.graceful = me.graceful /\ me'.final = me.final /\ ping' = ping
      BY <1>4, <1>8
  <2> QED
      BY <1>10, <2>1, <2>2 DEF ShutdownOK
<1>12. acts'[Reader] = <<>>
  <2>1. "done" \notin n.flags /\ "stop" \notin n.flags
    <3>1. n.flags = {"wake"}
        BY <1>1, <1>3
    <3> QED
        BY <3>1
  <2>2. acts' = [acts EXCEPT ![Reader] = <<>> \o <<>> \o <<>>]
      BY <1>4, <2>1 DEF Commit
  <2>3. <<>> \o <<>> \o <<>> = <<>>
      OBVIOUS
  <2> QED
      BY <2>2, <2>3, EndIsNoRequest DEF ServerInv, CoreInv
<1>13. PumpInv'
    BY <1>4, <1>9, <1>11, <1>12 DEF ServerInv, PumpInv, PumpOK, ReaderPc, Free
<1> QED
    BY <1>7, <1>13 DEF ServerInv

\* begin_graceful_shutdown: phase 1, the first GOAWAY of a connection in service.
LEMMA BeginShutdownInv == ASSUME ServerInv, BeginShutdown PROVE ServerInv'
<1>1. CASE me.graceful
  <2>1. UNCHANGED <<me, acts, scene, queue, lp, handler, rp, sendLock, ping>>
      BY <1>1 DEF BeginShutdown, bounds, pumps
  <2>2. PumpMoves
      BY <2>1 DEF ServerInv, PumpInv, PumpMoves, PumpOK, Free
  <2> QED
      BY <2>1, <2>2, LocalStep
<1>2. CASE ~me.graceful
  <2> DEFINE m == SendGoAway(me, Top)
             n == [m EXCEPT !.graceful = TRUE]
  <2>1. me \in Locked /\ Counted(me) /\ Books(me) /\ me.active <= scene.maxConcurrent
      BY DEF ServerInv, CoreInv
  <2>2. Top \in 0..Top /\ me.sent \in Seq(0..Top)
      BY <2>1, H2ServerConstants DEF Locked, Top
  <2>3. /\ m \in Locked /\ Counted(m) /\ Moves(me, m) /\ m.stream = me.stream
        /\ m.sent = Append(me.sent, Top) /\ m.replied = me.replied
        /\ m.resetPending = me.resetPending /\ m.final = me.final /\ m.active = me.active
      BY <2>1, <2>2, SendGoAwayOK
  <2>4. /\ Commit(Stopper, n, <<>>) /\ ping' = "queued"
        /\ UNCHANGED <<scene, queue, lp, handler, sendLock, rp>>
      BY <1>2 DEF BeginShutdown, bounds, pumps
  <2> HIDE DEF m
  <2>5. n \in Locked /\ n.graceful /\ Others(m, n, {"graceful"})
      BY <2>3, SetGraceful
  <2> HIDE DEF n
  <2>6. /\ n.stream = me.stream /\ n.active = me.active /\ n.final = me.final /\ n.error = m.error
        /\ n.lastRecv = m.lastRecv /\ n.lastProcessed = m.lastProcessed /\ n.maxId = m.maxId
        /\ n.pendingAccept = m.pendingAccept /\ n.resetPending = me.resetPending
        /\ n.replied = me.replied /\ n.sent = Append(me.sent, Top) /\ n.flags = m.flags
      BY <2>3, <2>5 DEF Others, Fields
  <2>7. Counted(n)
      BY <2>3, <2>6 DEF Counted, ActiveIn
  <2>8. Goes(me, n)
      BY <2>3, <2>6 DEF Goes, Moves
  <2>9. Books(n)
      BY <2>1, <2>3, <2>6 DEF Books, Moves, ActiveIn
  <2>10. Stopper \in Actors /\ Stopper # Reader
      BY H2ServerConstants DEF Stopper, Reader, Actors
  <2>11. CoreInv' /\ Others(n, me', {"flags"})
    <3>1. \A i \in 1..Len(acts[Reader]) : n.stream[acts[Reader][i]] = me.stream[acts[Reader][i]]
        BY <2>6
    <3>2. <<>> \in {<<>>, <<End>>} /\ handler' \in [Ids -> {"none", "running", "over"}] /\ CoreInv
        BY <2>4 DEF ServerInv, CoreInv
    <3>3. n.active <= scene.maxConcurrent
        BY <2>1, <2>6
    <3> QED
        BY <2>4, <2>5, <2>7, <2>8, <2>9, <2>10, <3>1, <3>2, <3>3, Committed
  <2>12. /\ me'.graceful /\ me'.final = me.final /\ me'.replied = me.replied
         /\ me'.sent = Append(me.sent, Top)
      BY <2>5, <2>6, <2>11 DEF Others, Fields
  <2>13. ~me.final /\ ping = "none" /\ (InService => me.sent = <<>>)
      BY <1>2 DEF ServerInv, PumpInv, ShutdownOK, Goodbyes
  <2>14. InService' => Goodbyes(me')
    <3> SUFFICES ASSUME InService' PROVE Goodbyes(me')
        OBVIOUS
    <3>1. InService
        BY <2>4, <2>12 DEF InService
    <3>2. Len(me'.sent) = 1 /\ me'.sent[1] = Top
        BY <2>2, <2>12, <2>13, <3>1, AppendProperties
    <3> QED
        BY <2>12, <2>13, <3>2 DEF Goodbyes
  <2>15. ShutdownOK'
      BY <2>4, <2>12, <2>13, <2>14 DEF ShutdownOK
  <2>16. acts'[Reader] = acts[Reader]
      BY <2>4, <2>10, EndIsNoRequest DEF Commit, ServerInv, CoreInv
  <2>17. PumpInv'
      BY <2>4, <2>15, <2>16 DEF ServerInv, PumpInv, PumpOK, Free
  <2> QED
      BY <2>11, <2>17 DEF ServerInv
<1> QED
    BY <1>1, <1>2

\* A handler ends a stream that was accepted, so not one that is being published.
LEMMA HandlerEndsInv == ASSUME ServerInv, NEW s \in Ids, HandlerEnds(s) PROVE ServerInv'
<1>1. /\ handler[s] = "running" /\ handler' = [handler EXCEPT ![s] = "over"]
      /\ UNCHANGED <<scene, queue, lp, sendLock, ping, rp>>
    BY DEF HandlerEnds, bounds, pumps
<1>2. /\ handler' \in [Ids -> {"none", "running", "over"}]
      /\ \A u \in Ids : handler'[u] # "none" => handler[u] # "none"
    BY <1>1 DEF ServerInv, CoreInv
<1>3. s \in Actors /\ s # Reader /\ s # End
    BY H2ServerConstants DEF Ids, Actors, Reader, End
<1>4. CASE me.stream[s] = "active"
  <2>1. PICK how \in {"gone", "reset"} : Commit(s, Enqueue(CloseStream(me, s, how)), <<>>)
      BY <1>4 DEF HandlerEnds
  <2> DEFINE m == CloseStream(me, s, how)
             n == Enqueue(m)
  <2>2. Sound(m) /\ \A u \in Ids \ {s} : m.stream[u] = me.stream[u]
      BY SoundMe, SoundClose
  <2> HIDE DEF m
  <2>3. Sound(n) /\ n.stream = m.stream
      BY <2>2, SoundEnqueue
  <2>4. Commit(s, n, <<>>)
      BY <2>1 DEF m
  <2> HIDE DEF n
  <2>5. s \notin Unaccepted
      BY <1>1 DEF ServerInv, CoreInv, Shelf
  <2>6. acts[Reader] \in Seq(0..N)
      BY EndIsNoRequest DEF ServerInv, CoreInv
  <2>7. \A i \in 1..Len(acts[Reader]) :
            acts[Reader][i] = End \/ n.stream[acts[Reader][i]] = me.stream[acts[Reader][i]]
    <3> SUFFICES ASSUME NEW i \in 1..Len(acts[Reader]), acts[Reader][i] # End
                 PROVE  n.stream[acts[Reader][i]] = me.stream[acts[Reader][i]]
        OBVIOUS
    <3>1. acts[Reader][i] # s
        BY <2>5 DEF Unaccepted
    <3>2. acts[Reader][i] \in 0..N
        BY <2>6, ElementOfSeq
    <3>3. acts[Reader][i] \in Ids \ {s}
        BY <3>1, <3>2, H2ServerConstants DEF End, Ids
    <3> QED
        BY <2>2, <2>3, <3>3
  <2>8. PumpMoves
      BY <1>1, <1>3, <2>4 DEF Commit, Free, ServerInv, CoreInv, PumpInv, PumpMoves, PumpOK
  <2> QED
      BY <1>1, <1>2, <1>3, <2>3, <2>4, <2>7, <2>8, CommittedStep DEF Sound
<1>5. CASE me.stream[s] # "active"
  <2>1. UNCHANGED <<me, acts>>
      BY <1>5 DEF HandlerEnds
  <2>2. PumpMoves
      BY <1>1, <2>1 DEF ServerInv, PumpInv, PumpMoves, PumpOK, Free
  <2>3. Sound(me) /\ me.flags = {}
      BY SoundMe
  <2>4. CoreInv'
      BY <1>1, <1>2, <2>1, <2>3, CoreGoes DEF Sound, ServerInv, CoreInv
  <2> QED
      BY <2>1, <2>2, <2>3, <2>4, PumpKept DEF ServerInv, Sound
<1> QED
    BY <1>4, <1>5

\* The accept loop takes the next of the queue into its hands.
LEMMA LoopReceiveInv == ASSUME ServerInv, LoopReceive PROVE ServerInv'
<1>1. /\ queue \in Seq(0..N) /\ queue # <<>> /\ queue' = Tail(queue)
      /\ lp.pc = "receive" /\ lp' = [pc |-> IF Head(queue) = End THEN "ended" ELSE "accept", on |-> Head(queue)]
      /\ UNCHANGED <<me, acts, scene, handler, sendLock, ping, rp>>
    BY DEF LoopReceive, bounds, pumps, ServerInv, CoreInv
<1>2. /\ Head(queue) = queue[1] /\ queue[1] \in 0..N /\ Len(queue) \in Nat /\ Len(queue) > 0
      /\ queue' \in Seq(0..N) /\ Len(queue') = Len(queue) - 1
      /\ \A i \in 1..Len(queue') : queue'[i] = queue[i + 1]
  <2>1. Len(queue) \in Nat /\ Len(queue) > 0
    <3>1. Len(queue) \in Nat \ {0}
        BY <1>1, EmptySeq
    <3> QED
        BY <3>1
  <2>2. Head(queue) = queue[1] /\ queue[1] \in 0..N
    <3>1. Head(queue) = queue[1]
        BY <1>1
    <3>2. 1 \in 1..Len(queue)
        BY <2>1
    <3> QED
        BY <1>1, <3>1, <3>2, ElementOfSeq
  <2>3. Tail(queue) \in Seq(0..N) /\ Len(Tail(queue)) = Len(queue) - 1
      BY <1>1, HeadTailProperties
  <2>4. \A i \in 1..Len(Tail(queue)) : Tail(queue)[i] = queue[i + 1]
      BY <1>1, HeadTailProperties
  <2> QED
      BY <1>1, <2>1, <2>2, <2>3, <2>4
<1>3. lp' \in [pc : {"receive", "accept", "ended", "left"}, on : 0..N]
    BY <1>1, <1>2
<1>4. lp'.on = queue[1] /\ (lp'.pc = "accept" <=> queue[1] # End)
    BY <1>1, <1>2
<1>5. \A i \in 1..Len(queue) : i = 1 \/ (i - 1 \in 1..Len(queue') /\ queue[i] = queue'[i - 1])
    BY <1>2
<1>6. \A i \in 1..Len(queue') : i + 1 \in 1..Len(queue) /\ i + 1 # 1
    BY <1>2
<1>7. Shelf /\ EndsOK /\ Unaccepted \subseteq Ids /\ Unaccepted' \subseteq Ids
    BY DEF ServerInv, CoreInv, Unaccepted
<1>8. \A s \in Ids : (\E i \in 1..Len(queue) : queue[i] = s)
                     <=> s = queue[1] \/ (\E i \in 1..Len(queue') : queue'[i] = s)
  <2> SUFFICES ASSUME NEW s \in Ids
               PROVE  (\E i \in 1..Len(queue) : queue[i] = s)
                      <=> s = queue[1] \/ (\E i \in 1..Len(queue') : queue'[i] = s)
      OBVIOUS
  <2>1. 1 \in 1..Len(queue)
      BY <1>2
  <2> QED
      BY <1>2, <1>5, <1>6, <2>1
<1>9. Unaccepted' = Unaccepted
  <2>1. \A s \in Ids : s \in Unaccepted' <=> s \in Unaccepted
      BY <1>1, <1>4, <1>8, EndIsNoRequest DEF Unaccepted
  <2> QED
      BY <1>7, <2>1
<1>10. Shelf'
  <2>1. \A i, j \in 1..Len(queue') : queue'[i] = queue'[j] => queue'[i] = End \/ i = j
    <3> SUFFICES ASSUME NEW i \in 1..Len(queue'), NEW j \in 1..Len(queue'), queue'[i] = queue'[j]
                 PROVE  queue'[i] = End \/ i = j
        OBVIOUS
    <3>1. queue[i + 1] = queue[j + 1] /\ i + 1 \in 1..Len(queue) /\ j + 1 \in 1..Len(queue)
        BY <1>2, <1>6
    <3>2. queue[i + 1] = End \/ i + 1 = j + 1
        BY <1>7, <3>1 DEF Shelf
    <3> QED
        BY <1>2, <3>2
  <2>2. \A i \in 1..Len(queue'), j \in 1..Len(acts[Reader]) :
            queue'[i] = acts[Reader][j] => queue'[i] = End
      BY <1>2, <1>6, <1>7 DEF Shelf
  <2>3. lp'.pc = "accept" =>
           /\ lp'.on \in Ids
           /\ \A i \in 1..Len(queue') : queue'[i] # lp'.on
           /\ \A i \in 1..Len(acts[Reader]) : acts[Reader][i] # lp'.on
    <3> SUFFICES ASSUME lp'.pc = "accept"
                 PROVE  /\ lp'.on \in Ids
                        /\ \A i \in 1..Len(queue') : queue'[i] # lp'.on
                        /\ \A i \in 1..Len(acts[Reader]) : acts[Reader][i] # lp'.on
        OBVIOUS
    <3>1. queue[1] # End /\ 1 \in 1..Len(queue)
        BY <1>2, <1>4
    <3>2. queue[1] \in Ids
        BY <1>2, <3>1, H2ServerConstants DEF End, Ids
    <3>3. \A i \in 1..Len(queue') : queue[i + 1] # queue[1]
        BY <1>6, <1>7, <3>1 DEF Shelf
    <3>4. \A i \in 1..Len(acts[Reader]) : acts[Reader][i] # queue[1]
        BY <1>7, <3>1 DEF Shelf
    <3> QED
        BY <1>2, <1>4, <3>2, <3>3, <3>4
  <2> QED
      BY <1>1, <1>7, <1>9, <2>1, <2>2, <2>3 DEF Shelf
<1>11. EndsOK'
  <2>1. (\E i \in 1..Len(queue') : queue'[i] = End) => \E i \in 1..Len(queue) : queue[i] = End
      BY <1>2, <1>6
  <2>2. EndComing' = EndComing
      BY <1>1 DEF EndComing
  <2>3. (\A i, j \in 1..Len(queue) : i < j /\ queue[i] = End => queue[j] = End)
        => \A i, j \in 1..Len(queue') : i < j /\ queue'[i] = End => queue'[j] = End
    <3> SUFFICES ASSUME \A i, j \in 1..Len(queue) : i < j /\ queue[i] = End => queue[j] = End,
                        NEW i \in 1..Len(queue'), NEW j \in 1..Len(queue'),
                        i < j, queue'[i] = End
                 PROVE  queue'[j] = End
        OBVIOUS
    <3>1. queue[i + 1] = End /\ i + 1 \in 1..Len(queue) /\ j + 1 \in 1..Len(queue) /\ i + 1 < j + 1
        BY <1>2, <1>6
    <3>2. queue[j + 1] = End
        BY <3>1
    <3> QED
        BY <1>2, <3>2
  <2> QED
      BY <1>1, <1>7, <2>1, <2>2, <2>3 DEF EndsOK
<1>12. CoreInv'
    BY <1>1, <1>2, <1>3, <1>10, <1>11 DEF ServerInv, CoreInv, ActsOK
<1>13. PumpInv'
    BY <1>1 DEF ServerInv, PumpInv, PumpOK, Free, ShutdownOK, InService
<1> QED
    BY <1>12, <1>13 DEF ServerInv

\* accepted(): the request leaves the books, and its handler starts.
LEMMA LoopAcceptedInv == ASSUME ServerInv, LoopAccepted PROVE ServerInv'
<1> DEFINE s == lp.on
           m == [me EXCEPT !.pendingAccept = me.pendingAccept \ {s}]
           n == [m EXCEPT !.resetPending = me.resetPending \ {s}]
<1>1. /\ lp.pc = "accept" /\ handler' = [handler EXCEPT ![s] = "running"]
      /\ lp' = [pc |-> "receive", on |-> NoId] /\ me' = Accepted(me, s)
      /\ UNCHANGED <<acts, scene, queue, sendLock, ping, rp>>
    BY DEF LoopAccepted, bounds, pumps
<1>2. me \in Locked /\ Counted(me) /\ Books(me) /\ Shelf /\ EndsOK
    BY DEF ServerInv, CoreInv
<1>3. /\ s \in Ids /\ (\A i \in 1..Len(queue) : queue[i] # s)
      /\ \A i \in 1..Len(acts[Reader]) : acts[Reader][i] # s
    BY <1>1, <1>2 DEF Shelf
<1>4. s \in me.pendingAccept
    BY <1>1, <1>2, <1>3 DEF Shelf, Unaccepted
<1>5. me.stream[s] # "idle"
    BY <1>2, <1>4 DEF Books
<1>6. me.pendingAccept \ {s} \in SUBSET Ids /\ me.resetPending \ {s} \in SUBSET Ids
    BY <1>2 DEF Locked
<1>7. m \in Locked /\ m.pendingAccept = me.pendingAccept \ {s} /\ Others(me, m, {"pendingAccept"})
    BY <1>2, <1>6, SetPendingAccept
<1>8. m.resetPending = me.resetPending
    BY <1>7 DEF Others, Fields
<1>9. me' = n
    BY <1>1, <1>7, <1>8 DEF Accepted
<1> HIDE DEF m
<1>10. n \in Locked /\ n.resetPending = me.resetPending \ {s} /\ Others(m, n, {"resetPending"})
    BY <1>6, <1>7, SetResetPending
<1> HIDE DEF n
<1>11. /\ n.stream = me.stream /\ n.active = me.active /\ n.final = me.final /\ n.error = me.error
       /\ n.lastRecv = me.lastRecv /\ n.lastProcessed = me.lastProcessed /\ n.maxId = me.maxId
       /\ n.pendingAccept = me.pendingAccept \ {s} /\ n.graceful = me.graceful
       /\ n.replied = me.replied /\ n.sent = me.sent /\ n.flags = me.flags
    BY <1>7, <1>10 DEF Others, Fields
<1>12. Counted(n)
    BY <1>2, <1>11 DEF Counted, ActiveIn
<1>13. Books(n)
  <2>1. IsFiniteSet(me.resetPending) /\ Cardinality(me.resetPending) \in Nat
      BY <1>2, IdsFinite DEF Locked
  <2>2. Cardinality(me.resetPending \ {s}) <= Cardinality(me.resetPending)
      BY <2>1, FS_Subset, Zenon
  <2>3. Cardinality(me.resetPending \ {s}) \in Nat
      BY <1>6, IdsFinite
  <2>4. Cardinality(n.resetPending) <= MaxResets
      BY <1>2, <1>10, <2>1, <2>2, <2>3, H2ServerConstants DEF Books
  <2>5. n.resetPending \subseteq n.pendingAccept \ ActiveIn(n)
      BY <1>2, <1>10, <1>11 DEF Books, ActiveIn
  <2> QED
      BY <1>2, <1>11, <2>4, <2>5 DEF Books
<1>14. Unaccepted' = Unaccepted \ {s}
  <2>1. \A u \in Ids : u \in Unaccepted' <=> u \in Unaccepted /\ u # s
      BY <1>1, <1>3 DEF Unaccepted
  <2>2. Unaccepted' \subseteq Ids /\ Unaccepted \subseteq Ids
      BY DEF Unaccepted
  <2> QED
      BY <2>1, <2>2
<1>15. /\ handler' \in [Ids -> {"none", "running", "over"}]
       /\ \A u \in Ids : handler'[u] # "none" => u = s \/ handler[u] # "none"
    BY <1>1, <1>3 DEF ServerInv, CoreInv
<1>16. Shelf'
  <2>1. \A u \in Ids : handler'[u] # "none" => u \notin n.pendingAccept /\ n.stream[u] # "idle"
      BY <1>2, <1>5, <1>11, <1>15 DEF Shelf
  <2>2. lp'.pc # "accept"
      BY <1>1
  <2>3. n.pendingAccept = Unaccepted'
      BY <1>2, <1>11, <1>14 DEF Shelf
  <2> QED
      BY <1>1, <1>2, <1>9, <2>1, <2>2, <2>3 DEF Shelf
<1>17. EndsOK'
    BY <1>1, <1>2, <1>9, <1>11 DEF EndsOK, EndComing
<1>18. CoreInv'
  <2>1. lp' \in [pc : {"receive", "accept", "ended", "left"}, on : 0..N]
      BY <1>1, EndIsNoRequest DEF NoId, End
  <2> QED
      BY <1>1, <1>9, <1>10, <1>11, <1>12, <1>13, <1>15, <1>16, <1>17, <2>1
         DEF ServerInv, CoreInv, ActsOK
<1>19. SameGoodbyes(me, me')
    BY <1>9, <1>11 DEF SameGoodbyes
<1>20. PumpMoves
    BY <1>1 DEF ServerInv, PumpInv, PumpMoves, PumpOK, Free
<1> QED
    BY <1>18, <1>19, <1>20, PumpKept DEF ServerInv

\* The caller leaves its loop.
LEMMA LoopLeftInv == ASSUME ServerInv, LoopLeft PROVE ServerInv'
<1>1. /\ lp.pc = "receive" /\ lp' = [lp EXCEPT !.pc = "left"]
      /\ UNCHANGED <<me, acts, scene, queue, handler, sendLock, ping, rp>>
    BY DEF LoopLeft, bounds, pumps
<1>2. lp' \in [pc : {"left"}, on : 0..N] /\ lp'.pc # "accept"
    BY <1>1 DEF ServerInv, CoreInv
<1>3. Unaccepted' = Unaccepted
    BY <1>1, <1>2 DEF Unaccepted
<1>4. Shelf'
    BY <1>1, <1>2, <1>3 DEF ServerInv, CoreInv, Shelf
<1>5. CoreInv'
    BY <1>1, <1>2, <1>4 DEF ServerInv, CoreInv, ActsOK, EndsOK, EndComing
<1>6. PumpInv'
    BY <1>1 DEF ServerInv, PumpInv, PumpOK, Free, ShutdownOK, InService
<1> QED
    BY <1>5, <1>6 DEF ServerInv

\* A task sends to the accept queue: an end, or the one request that the read pump has
\* published, which is active, so that no end of a drain can be in front of it.
LEMMA ActInv == ASSUME ServerInv, NEW a \in Actors, Act(a) PROVE ServerInv'
<1> DEFINE h == Head(acts[a])
<1>1. /\ acts[a] # <<>> /\ acts' = [acts EXCEPT ![a] = Tail(acts[a])]
      /\ queue' = Append(queue, h)
      /\ UNCHANGED <<me, scene, lp, handler, sendLock, ping, rp>>
    BY DEF Act, Free, bounds, pumps
<1>2. acts \in [Actors -> Seq(0..N)] /\ queue \in Seq(0..N) /\ acts[a] \in Seq(0..N)
    BY DEF ServerInv, CoreInv
<1>3. Shelf /\ ActsOK /\ EndsOK /\ Counted(me) /\ me \in Locked
    BY DEF ServerInv, CoreInv
<1>4. h = acts[a][1] /\ h \in 0..N /\ 1 \in 1..Len(acts[a])
  <2>1. Len(acts[a]) \in Nat /\ Len(acts[a]) > 0
      BY <1>1, <1>2, EmptySeq, LenProperties
  <2>2. 1 \in 1..Len(acts[a]) /\ h = acts[a][1]
      BY <1>1, <1>2, <2>1
  <2>3. acts[a][1] \in 0..N
      BY <1>2, <2>2, ElementOfSeq
  <2> QED
      BY <2>2, <2>3
<1>5. /\ Tail(acts[a]) \in Seq(0..N) /\ Len(Tail(acts[a])) = Len(acts[a]) - 1
      /\ Len(acts[a]) \in Nat
  <2>1. Tail(acts[a]) \in Seq(0..N) /\ Len(Tail(acts[a])) = Len(acts[a]) - 1
      BY <1>1, <1>2, HeadTailProperties
  <2> QED
      BY <1>2, <2>1, LenProperties
<1>6. \A i \in 1..Len(Tail(acts[a])) : Tail(acts[a])[i] = acts[a][i + 1] /\ i + 1 \in 1..Len(acts[a])
  <2>1. \A i \in 1..Len(Tail(acts[a])) : Tail(acts[a])[i] = acts[a][i + 1]
      BY <1>1, <1>2, HeadTailProperties
  <2> QED
      BY <1>5, <2>1
<1>7. /\ acts' \in [Actors -> Seq(0..N)] /\ acts'[a] = Tail(acts[a])
      /\ \A b \in Actors : b # a => acts'[b] = acts[b]
    BY <1>1, <1>2, <1>5
<1> HIDE DEF h
<1>8. queue' \in Seq(0..N) /\ Len(queue') = Len(queue) + 1 /\ Len(queue) \in Nat /\ queue'[Len(queue) + 1] = h
  <2>1. Append(queue, h) \in Seq(0..N) /\ Len(Append(queue, h)) = Len(queue) + 1
      BY <1>2, <1>4, AppendProperties
  <2>2. Append(queue, h)[Len(queue) + 1] = h /\ Len(queue) \in Nat
      BY <1>2, <1>4, AppendProperties, LenProperties
  <2> QED
      BY <1>1, <2>1, <2>2
<1>9. \A i \in 1..Len(queue) : queue'[i] = queue[i] /\ i \in 1..Len(queue')
  <2>1. \A i \in 1..Len(queue) : Append(queue, h)[i] = queue[i]
      BY <1>2, <1>4, AppendProperties
  <2> QED
      BY <1>1, <1>8, <2>1
<1>10. \A i \in 1..Len(queue') : i \in 1..Len(queue) \/ i = Len(queue) + 1
    BY <1>8
<1>11. Len(queue) + 1 \in 1..Len(queue')
    BY <1>8
<1>12. \A b \in Actors : \A i \in 1..Len(acts'[b]) :
            \E j \in 1..Len(acts[b]) : acts'[b][i] = acts[b][j]
    BY <1>6, <1>7
\* Who sends what.
<1>13. h # End => /\ a = Reader /\ Len(acts[Reader]) = 1 /\ acts'[Reader] = Tail(acts[Reader])
                  /\ h = acts[Reader][1] /\ h \in Ids
  <2> SUFFICES ASSUME h # End
               PROVE  /\ a = Reader /\ Len(acts[Reader]) = 1 /\ acts'[Reader] = Tail(acts[Reader])
                      /\ h = acts[Reader][1] /\ h \in Ids
      OBVIOUS
  <2>1. a = Reader
      BY <1>3, <1>4 DEF ActsOK
  <2>2. Len(acts[Reader]) = 1
      BY <1>3, <1>4, <2>1 DEF ActsOK
  <2>3. h \in Ids
      BY <1>4, H2ServerConstants DEF End, Ids
  <2> QED
      BY <1>4, <1>7, <2>1, <2>2, <2>3
<1>14. h # End => \A i \in 1..Len(acts'[Reader]) : FALSE
  <2>1. h # End => Len(acts[a]) = 1 /\ acts'[Reader] = Tail(acts[a])
      BY <1>13
  <2>2. h # End => Len(acts'[Reader]) = 0
      BY <1>2, <1>5, <2>1
  <2> QED
      BY <2>2
<1>15. \A i \in 1..Len(queue) : queue[i] = h => h = End
    BY <1>3, <1>4, <1>13 DEF Shelf
<1>16. \A s \in Ids : (\E i \in 1..Len(queue') : queue'[i] = s)
                      <=> (\E i \in 1..Len(queue) : queue[i] = s) \/ s = h
    BY <1>8, <1>9, <1>10, <1>11
<1>17. \A s \in Ids : (\E i \in 1..Len(acts[Reader]) : acts[Reader][i] = s)
                      <=> (\E i \in 1..Len(acts'[Reader]) : acts'[Reader][i] = s) \/ s = h
  <2> SUFFICES ASSUME NEW s \in Ids
               PROVE  (\E i \in 1..Len(acts[Reader]) : acts[Reader][i] = s)
                      <=> (\E i \in 1..Len(acts'[Reader]) : acts'[Reader][i] = s) \/ s = h
      OBVIOUS
  <2>1. CASE h # End
    <3>1. Len(acts[Reader]) = 1 /\ h = acts[Reader][1]
        BY <1>13, <2>1
    <3> QED
        BY <1>14, <2>1, <3>1
  <2>2. CASE h = End /\ a # Reader
      BY <1>7, <2>2, EndIsNoRequest
  <2>3. CASE h = End /\ a = Reader
    <3>1. s # h
        BY <2>3, EndIsNoRequest
    <3>2. \A i \in 1..Len(acts[a]) : i = 1 \/ (i - 1 \in 1..Len(Tail(acts[a])) /\ acts[a][i] = Tail(acts[a])[i - 1])
        BY <1>5, <1>6
    <3>3. (\E i \in 1..Len(acts[a]) : acts[a][i] = s) => \E i \in 1..Len(Tail(acts[a])) : Tail(acts[a])[i] = s
        BY <1>4, <3>1, <3>2
    <3>4. (\E i \in 1..Len(Tail(acts[a])) : Tail(acts[a])[i] = s) => \E i \in 1..Len(acts[a]) : acts[a][i] = s
        BY <1>6
    <3> QED
        BY <1>7, <2>3, <3>1, <3>3, <3>4
  <2> QED
      BY <2>1, <2>2, <2>3
<1>18. Unaccepted' = Unaccepted
  <2>1. \A s \in Ids : s \in Unaccepted' <=> s \in Unaccepted
      BY <1>1, <1>16, <1>17 DEF Unaccepted
  <2>2. Unaccepted' \subseteq Ids /\ Unaccepted \subseteq Ids
      BY DEF Unaccepted
  <2> QED
      BY <2>1, <2>2
<1>19. Shelf'
  <2>1. \A i, j \in 1..Len(queue') : queue'[i] = queue'[j] => queue'[i] = End \/ i = j
    <3> SUFFICES ASSUME NEW i \in 1..Len(queue'), NEW j \in 1..Len(queue'), queue'[i] = queue'[j]
                 PROVE  queue'[i] = End \/ i = j
        OBVIOUS
    <3>1. CASE i \in 1..Len(queue) /\ j \in 1..Len(queue)
        BY <1>3, <1>9, <3>1 DEF Shelf
    <3>2. CASE i = Len(queue) + 1
        BY <1>8, <1>9, <1>10, <1>15, <3>2
    <3>3. CASE j = Len(queue) + 1
        BY <1>8, <1>9, <1>10, <1>15, <3>3
    <3> QED
        BY <1>10, <3>1, <3>2, <3>3
  <2>2. \A i \in 1..Len(queue'), j \in 1..Len(acts'[Reader]) :
            queue'[i] = acts'[Reader][j] => queue'[i] = End
    <3> SUFFICES ASSUME NEW i \in 1..Len(queue'), NEW j \in 1..Len(acts'[Reader]),
                        queue'[i] = acts'[Reader][j]
                 PROVE  queue'[i] = End
        OBVIOUS
    <3>1. CASE i = Len(queue) + 1
        BY <1>8, <1>14, <3>1
    <3>2. CASE i \in 1..Len(queue)
      <4>1. PICK k \in 1..Len(acts[Reader]) : acts'[Reader][j] = acts[Reader][k]
          BY <1>12, EndIsNoRequest
      <4> QED
          BY <1>3, <1>9, <3>2, <4>1 DEF Shelf
    <3> QED
        BY <1>10, <3>1, <3>2
  <2>3. lp.pc = "accept" =>
           /\ lp.on \in Ids
           /\ \A i \in 1..Len(queue') : queue'[i] # lp.on
           /\ \A i \in 1..Len(acts'[Reader]) : acts'[Reader][i] # lp.on
    <3> SUFFICES ASSUME lp.pc = "accept"
                 PROVE  /\ lp.on \in Ids
                        /\ \A i \in 1..Len(queue') : queue'[i] # lp.on
                        /\ \A i \in 1..Len(acts'[Reader]) : acts'[Reader][i] # lp.on
        OBVIOUS
    <3>1. /\ lp.on \in Ids /\ (\A i \in 1..Len(queue) : queue[i] # lp.on)
          /\ \A i \in 1..Len(acts[Reader]) : acts[Reader][i] # lp.on
        BY <1>3 DEF Shelf
    <3> QED
        BY <1>16, <1>17, <3>1
  <2> QED
      BY <1>1, <1>3, <1>18, <2>1, <2>2, <2>3 DEF Shelf
<1>20. ActsOK'
  <2>1. \A b \in Actors \ {Reader} : \A i \in 1..Len(acts'[b]) : acts'[b][i] = End
      BY <1>3, <1>12 DEF ActsOK
  <2>2. \A i \in 1..Len(acts'[Reader]) : acts'[Reader][i] # End => Len(acts'[Reader]) = 1
    <3>1. CASE a # Reader
        BY <1>3, <1>7, <3>1, EndIsNoRequest DEF ActsOK
    <3>2. CASE a = Reader
      <4>1. ASSUME NEW i \in 1..Len(acts'[Reader]), acts'[Reader][i] # End PROVE FALSE
        <5>1. i + 1 \in 1..Len(acts[Reader]) /\ acts[Reader][i + 1] # End
            BY <1>6, <1>7, <3>2, <4>1
        <5>2. Len(acts[Reader]) = 1
            BY <1>3, <5>1 DEF ActsOK
        <5>3. Len(acts'[Reader]) = 0
            BY <1>2, <1>5, <1>7, <3>2, <5>2
        <5> QED
            BY <4>1, <5>3
      <4> QED
          BY <4>1
    <3> QED
        BY <3>1, <3>2
  <2> QED
      BY <2>1, <2>2 DEF ActsOK
<1>21. EndsOK'
  <2> SUFFICES ASSUME ~me.error
               PROVE  /\ EndComing' \/ (\E i \in 1..Len(queue') : queue'[i] = End)
                         => me.final /\ me.active = 0
                      /\ \A i \in 1..Len(acts'[Reader]) :
                            acts'[Reader][i] # End => me.stream[acts'[Reader][i]] = "active"
                      /\ \A i, j \in 1..Len(queue') : i < j /\ queue'[i] = End => queue'[j] = End
      BY <1>1 DEF EndsOK
  <2>1. EndComing \/ (\E i \in 1..Len(queue) : queue[i] = End) => me.final /\ me.active = 0
      BY <1>3 DEF EndsOK
  <2>2. EndComing' => EndComing
    <3> SUFFICES ASSUME NEW b \in Actors, NEW i \in 1..Len(acts'[b]), acts'[b][i] = End
                 PROVE  EndComing
        BY DEF EndComing
    <3>1. PICK j \in 1..Len(acts[b]) : acts'[b][i] = acts[b][j]
        BY <1>12
    <3> QED
        BY <3>1 DEF EndComing
  <2>3. h = End => EndComing
      BY <1>4 DEF EndComing
  <2>4. (\E i \in 1..Len(queue') : queue'[i] = End)
        => EndComing \/ \E i \in 1..Len(queue) : queue[i] = End
      BY <1>8, <1>9, <1>10, <2>3
  <2>5. \A i \in 1..Len(acts[Reader]) : acts[Reader][i] # End => me.stream[acts[Reader][i]] = "active"
      BY <1>3 DEF EndsOK
  <2>6. \A i \in 1..Len(acts'[Reader]) : acts'[Reader][i] # End => me.stream[acts'[Reader][i]] = "active"
    <3> SUFFICES ASSUME NEW i \in 1..Len(acts'[Reader]), acts'[Reader][i] # End
                 PROVE  me.stream[acts'[Reader][i]] = "active"
        OBVIOUS
    <3>1. PICK j \in 1..Len(acts[Reader]) : acts'[Reader][i] = acts[Reader][j]
        BY <1>12, EndIsNoRequest
    <3> QED
        BY <2>5, <3>1
  <2>7. h # End => me.active # 0
    <3> SUFFICES ASSUME h # End, me.active = 0 PROVE FALSE
        OBVIOUS
    <3>1. h \in ActiveIn(me)
      <4>1. h \in Ids /\ 1 \in 1..Len(acts[Reader]) /\ h = acts[Reader][1]
          BY <1>4, <1>13
      <4> QED
          BY <2>5, <4>1 DEF ActiveIn
    <3>2. ActiveIn(me) = {}
        BY <1>3, ActiveFinite, FS_EmptySet DEF Counted
    <3> QED
        BY <3>1, <3>2
  <2>8. \A i, j \in 1..Len(queue') : i < j /\ queue'[i] = End => queue'[j] = End
    <3> SUFFICES ASSUME NEW i \in 1..Len(queue'), NEW j \in 1..Len(queue'), i < j, queue'[i] = End
                 PROVE  queue'[j] = End
        OBVIOUS
    <3>1. i \in 1..Len(queue) /\ queue[i] = End
        BY <1>8, <1>9
    <3>2. CASE j \in 1..Len(queue)
        BY <1>3, <1>9, <3>1, <3>2 DEF EndsOK
    <3>3. CASE j = Len(queue) + 1
        BY <1>8, <2>1, <2>7, <3>1, <3>3
    <3> QED
        BY <1>10, <3>2, <3>3
  <2> QED
      BY <2>1, <2>2, <2>4, <2>6, <2>8
<1>22. CoreInv'
    BY <1>1, <1>7, <1>8, <1>19, <1>20, <1>21 DEF ServerInv, CoreInv
<1>23. PumpOK'
  <2>1. acts[Reader] = <<>> => acts'[Reader] = <<>>
      BY <1>1, <1>7, EndIsNoRequest
  <2> QED
      BY <1>1, <2>1 DEF ServerInv, PumpInv, PumpOK, Free
<1>24. PumpInv'
    BY <1>1, <1>23 DEF ServerInv, PumpInv, ShutdownOK, InService
<1> QED
    BY <1>22, <1>24 DEF ServerInv

(***************************************************************************)
(* The specification.                                                       *)
(***************************************************************************)

\* A connection starts with nothing sent, published or active.
LEMMA ServerInitInv == ServerInit => ServerInv
<1> SUFFICES ASSUME ServerInit PROVE ServerInv
    OBVIOUS
<1>1. /\ me.stream = [s \in Ids |-> "idle"] /\ me.active = 0 /\ me.lastProcessed = 0 /\ me.lastRecv = 0
      /\ me.pendingAccept = {} /\ me.resetPending = {} /\ me.flags = {} /\ me.sent = <<>>
    BY DEF ServerInit
<1>2. me.final = FALSE /\ me.graceful = FALSE /\ me.replied = FALSE /\ me.error = FALSE
    BY Zenon DEF ServerInit
<1>3. me \in Locked
  <2>1. Top \in 0..Top /\ 0 \in 0..N /\ <<>> \in Seq(0..Top) /\ 0 \in Nat
      BY H2ServerConstants DEF Top
  <2> QED
      BY <2>1 DEF ServerInit, Locked
<1>4. scene \in Scenes /\ scene.maxConcurrent \in Nat
    BY H2ServerConstants DEF ServerInit
<1>5. /\ acts \in [Actors -> Seq(0..N)] /\ \A a \in Actors : acts[a] = <<>>
      /\ queue \in Seq(0..N) /\ queue = <<>>
    BY DEF ServerInit
<1>6. /\ lp = [pc |-> "receive", on |-> 0] /\ rp = [pc |-> "read", on |-> 0]
      /\ handler = [s \in Ids |-> "none"] /\ sendLock = 0 /\ ping = "none"
    BY DEF ServerInit, NoId
<1>7. ActiveIn(me) = {}
  <2>1. \A s \in Ids : me.stream[s] # "active"
      BY <1>1
  <2> QED
      BY <2>1 DEF ActiveIn
<1>8. Counted(me)
    BY <1>1, <1>2, <1>7, FS_EmptySet DEF Counted
<1>9. Books(me)
    BY <1>1, FS_EmptySet, H2ServerConstants DEF Books
<1>10. Len(queue) = 0 /\ \A a \in Actors : Len(acts[a]) = 0
    BY <1>5
<1>11. Reader \in Actors
    BY EndIsNoRequest
<1>12. Unaccepted = {}
    BY <1>6, <1>10, <1>11 DEF Unaccepted
<1>13. Shelf
    BY <1>1, <1>6, <1>10, <1>11, <1>12 DEF Shelf
<1>14. ActsOK /\ EndsOK
    BY <1>10, <1>11 DEF ActsOK, EndsOK, EndComing
<1>15. CoreInv
  <2>1. me.active <= scene.maxConcurrent
      BY <1>1, <1>4
  <2>2. lp \in [pc : {"receive", "accept", "ended", "left"}, on : 0..N]
      BY <1>6, EndIsNoRequest DEF End
  <2>3. handler \in [Ids -> {"none", "running", "over"}]
      BY <1>6
  <2> QED
      BY <1>1, <1>3, <1>4, <1>5, <1>8, <1>9, <1>13, <1>14, <2>1, <2>2, <2>3 DEF CoreInv
<1>16. PumpInv
  <2>1. sendLock \in 0..Closer
      BY <1>6, H2ServerConstants DEF Closer
  <2>2. rp \in [pc : ReaderPc, on : 0..N] /\ PumpOK
      BY <1>6, EndIsNoRequest DEF ReaderPc, InServicePc, PumpOK, End
  <2>3. ShutdownOK
      BY <1>1, <1>2, <1>6 DEF ShutdownOK, Goodbyes
  <2> QED
      BY <1>6, <2>1, <2>2, <2>3 DEF PumpInv
<1> QED
    BY <1>15, <1>16 DEF ServerInv

\* Every step keeps the invariant.
LEMMA ServerNextInv == ServerInv /\ [ServerNext]_serverVars => ServerInv'
<1> SUFFICES ASSUME ServerInv, [ServerNext]_serverVars PROVE ServerInv'
    OBVIOUS
<1>1. CASE \E a \in Actors : Act(a)
    BY <1>1, ActInv
<1>2. CASE FromPeer \/ RecvPingAck
    BY <1>2, RecvHeadersInv, RecvResetInv, RecvGoAwayInv, RecvPingAckInv DEF FromPeer
<1>3. CASE ReadPump \/ ReaderEof
    BY <1>3, ResetOnErrorInv, BatchEndInv, ReaderGoAwayInv, ReaderFlushInv, ReaderLocalInv,
       ReaderFailInv DEF ReadPump
<1>4. CASE WritePump \/ PumpWritten(FALSE)
    BY <1>4, LocalInv, PumpTakeInv, PumpFailInv DEF WritePump
<1>5. CASE Serving \/ LoopLeft \/ BeginShutdown
    BY <1>5, LoopReceiveInv, LoopAcceptedInv, HandlerEndsInv, LoopLeftInv, BeginShutdownInv
       DEF Serving
<1>6. CASE CloseSteps
    BY <1>6, CloseStopsInv, LocalInv, CloseFlushInv, CloseFailsInv DEF CloseSteps
<1>7. CASE ServerFinished \/ UNCHANGED serverVars
    BY <1>7, LocalInv DEF ServerFinished
<1> QED
    BY <1>1, <1>2, <1>3, <1>4, <1>5, <1>6, <1>7 DEF ServerNext

\* The inductive invariant of the server connection.
THEOREM ServerInvariant == ServerSpec => []ServerInv
BY ServerInitInv, ServerNextInv, PTL DEF ServerSpec

\* What the locked state, the accept queue and the pumps hold is of the expected kind.
THEOREM ServerTyped == ServerSpec => []ServerTypeOK
<1>1. ServerInv => ServerTypeOK
  <2> SUFFICES ASSUME ServerInv PROVE ServerTypeOK
      OBVIOUS
  <2>1. me \in Locked /\ Counted(me)
      BY DEF ServerInv, CoreInv
  <2>2. me.active \in Nat /\ me.active <= N
    <3>1. Cardinality(ActiveIn(me)) <= Cardinality(Ids) /\ Cardinality(Ids) = N
      <4>1. IsFiniteSet(Ids)
          BY FS_Interval, H2ServerConstants DEF Ids
      <4>2. Cardinality(Ids) = N
          BY FS_Interval, H2ServerConstants DEF Ids
      <4>3. ActiveIn(me) \subseteq Ids
          BY DEF ActiveIn
      <4> QED
          BY <4>1, <4>2, <4>3, FS_Subset
    <3> QED
        BY <2>1, <3>1 DEF Counted, Locked
  <2>3. {me.active, me.lastRecv, me.lastProcessed, me.maxId} \subseteq 0..Top
    <3>1. me.lastRecv \in 0..N /\ me.lastProcessed \in 0..N /\ me.maxId \in 0..Top
        BY <2>1 DEF Locked
    <3> QED
        BY <2>2, <3>1, H2ServerConstants DEF Top
  <2>4. me.stream \in [Ids -> {"idle", "active", "gone", "reset"}]
      BY <2>1 DEF Locked
  <2> QED
      BY <2>3, <2>4 DEF ServerTypeOK, ServerInv, CoreInv, PumpInv
<1> QED
    BY <1>1, ServerInvariant, PTL

\* The books of the accept queue (httpunk/h2/server.py, recv_reset): they are the
\* requests not yet accepted, and no flood takes them past the caps.
THEOREM ServerKeepsBooks == ServerSpec => []AcceptBooks
<1>1. ServerInv => AcceptBooks
    BY DEF ServerInv, CoreInv, Shelf, Books, Counted, ActiveIn, AcceptBooks, Locked
<1> QED
    BY <1>1, ServerInvariant, PTL

\* graceful_shutdown: the accept loop of a connection that has not failed ends only
\* when the drain is complete, and nothing is published behind its end.
THEOREM ServerDrains == ServerSpec => []DrainedBeforeEnd
<1>1. ServerInv => DrainedBeforeEnd
  <2> SUFFICES ASSUME ServerInv, NEW i \in 1..Len(queue), queue[i] = End, ~me.error
               PROVE  /\ me.active = 0
                      /\ \A j \in i..Len(queue) : queue[j] = End
                      /\ \A a \in 1..Len(acts[Reader]) : acts[Reader][a] = End
      BY DEF DrainedBeforeEnd
  <2>1. me.active = 0
      BY DEF ServerInv, CoreInv, EndsOK
  <2>2. \A j \in i..Len(queue) : queue[j] = End
    <3> SUFFICES ASSUME NEW j \in i..Len(queue), j # i PROVE queue[j] = End
        OBVIOUS
    <3>1. j \in 1..Len(queue) /\ i < j
      <4>1. Len(queue) \in Nat
          BY LenProperties DEF ServerInv, CoreInv
      <4> QED
          BY <4>1
    <3> QED
        BY <3>1 DEF ServerInv, CoreInv, EndsOK
  <2>3. \A a \in 1..Len(acts[Reader]) : acts[Reader][a] = End
    <3> SUFFICES ASSUME NEW a \in 1..Len(acts[Reader]), acts[Reader][a] # End PROVE FALSE
        OBVIOUS
    <3>1. me.stream[acts[Reader][a]] = "active"
        BY DEF ServerInv, CoreInv, EndsOK
    <3>2. acts[Reader][a] \in 0..N
        BY EndIsNoRequest, ElementOfSeq DEF ServerInv, CoreInv
    <3>3. acts[Reader][a] \in ActiveIn(me)
        BY <3>1, <3>2, H2ServerConstants DEF ActiveIn, Ids, End
    <3>4. ActiveIn(me) = {}
        BY <2>1, ActiveFinite, FS_EmptySet DEF ServerInv, CoreInv, Counted
    <3> QED
        BY <3>3, <3>4
  <2> QED
      BY <2>1, <2>2, <2>3
<1> QED
    BY <1>1, ServerInvariant, PTL

\* The two GOAWAYs of a graceful shutdown (begin_graceful_shutdown, recv_ping): their
\* last ids never grow, and after the final one no request above it is opened.
THEOREM ServerGoAwaysTrue == ServerSpec => []GoAwaysTrue
<1>1. ServerInv => GoAwaysTrue
  <2> SUFFICES ASSUME ServerInv, InService PROVE GoAwaysTrue
      BY DEF GoAwaysTrue
  <2>1. Goodbyes(me) /\ Counted(me) /\ me \in Locked
      BY DEF ServerInv, CoreInv, PumpInv, ShutdownOK
  <2>2. me.final => me.lastProcessed = me.maxId
      BY <2>1 DEF Counted
  <2>3. \A i \in 1..Len(me.sent) : i > 1 => me.sent[i] <= me.sent[i - 1]
    <3>1. CASE me.final
      <4>1. Len(me.sent) = 2 /\ me.sent[1] = Top /\ me.sent[2] = me.maxId
          BY <2>1, <3>1 DEF Goodbyes
      <4>2. me.maxId <= Top
          BY <2>1, H2ServerConstants DEF Locked, Top
      <4>3. \A i \in 1..Len(me.sent) : i > 1 => i = 2
          BY <4>1
      <4> QED
          BY <4>1, <4>2, <4>3
    <3>2. CASE ~me.final
      <4>1. Len(me.sent) <= 1 /\ Len(me.sent) \in Nat
        <5>1. me.sent = <<>> \/ Len(me.sent) = 1
            BY <2>1, <3>2 DEF Goodbyes
        <5>2. CASE me.sent = <<>>
            BY <5>2, EmptySeq
        <5>3. me.sent \in Seq(0..Top)
            BY <2>1 DEF Locked
        <5>4. CASE Len(me.sent) = 1
            BY <5>3, <5>4, LenProperties
        <5> QED
            BY <5>1, <5>2, <5>4
      <4> QED
          BY <4>1
    <3> QED
        BY <3>1, <3>2
  <2> QED
      BY <2>2, <2>3 DEF GoAwaysTrue
<1> QED
    BY <1>1, ServerInvariant, PTL

=============================================================================
