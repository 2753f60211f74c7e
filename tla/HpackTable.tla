----------------------------- MODULE HpackTable -----------------------------
(***************************************************************************)
(* The HPACK encoder's table as vendor-h2's hpack/table.rs keeps it: a      *)
(* deque of slots, newest first, and a robin-hood hash map from names to    *)
(* slots.  An index names the oldest slot of its name; slots of one name    *)
(* are chained, oldest to newest, by `next`.  Positions in the map and in   *)
(* the chains are counters that wrap at Word (usize::MAX + 1 in the code):  *)
(* position p is slot p + inserted.                                         *)
(***************************************************************************)
EXTENDS Integers, Sequences, SequencesExt, FiniteSets, FiniteSetsExt

CONSTANTS Fields,       \* the header fields that may be looked up
          Limits,       \* the sizes the table may be resized to
          HashOf,       \* the hash of each name
          Word,         \* the modulus of the position counters
          RawCap        \* the cells of the first allocation (8 in the code)

VARIABLES table,        \* struct Table
          out           \* the Index the last lookup returned

tableVars == <<table, out>>

None == [index |-> -1, hash |-> -1]     \* an empty cell of `indices`, or no next
Wrap(n) == n % Word

----------------------------------------------------------------------------
(* Probing.  A probe loop runs over the cells from a start, wrapping at the *)
(* end; it is given by the distance it stops at.                            *)

Cells(t) == Len(t.indices)
CellAt(t, p) == t.indices[(p % Cells(t)) + 1]
DesiredPos(t, hash) == hash % Cells(t)
ProbeDistance(t, hash, p) == (p - DesiredPos(t, hash)) % Cells(t)
SetCell(t, p, pos) == [t EXCEPT !.indices[(p % Cells(t)) + 1] = pos]

RealIdx(t, index) == Wrap(index + t.inserted)
SlotOf(t, index) == t.slots[RealIdx(t, index) + 1]

UsableCapacity(cap) == cap - cap \div 4

----------------------------------------------------------------------------
(* Removing.                                                                *)

\* Mutant: the cells behind the removed one stay where they are.
RemovePhaseTwoMutant(t, p) == t

\* remove_phase_two: the displaced cells after p move one back.
RemovePhaseTwo(t, p) ==
    LET displaced(j) == LET c == CellAt(t, p + j)
                        IN c # None /\ ProbeDistance(t, c.hash, p + j) > 0
        run == Max({r \in 0..(Cells(t) - 1) : \A j \in 1..r : displaced(j)})
        off(q) == ((q - 1) - p) % Cells(t)
    IN [t EXCEPT !.indices =
          [q \in DOMAIN @ |-> IF off(q) < run THEN CellAt(t, q)
                              ELSE IF off(q) = run THEN None ELSE @[q]]]

\* Mutant: the last slot of the chain a new one is about to join is not special.
EvictMutant(t, prev) ==
    LET posIdx == Wrap(Len(t.slots) - 1 - t.inserted)
        slot == Last(t.slots)
        popped == [t EXCEPT !.slots = Front(@), !.size = @ - slot.header.len]
        at == {p \in 0..(Cells(t) - 1) : CellAt(t, p).index = posIdx}
        p == CHOOSE q \in at : TRUE
        cell == CellAt(t, p)
    IN IF at = {} THEN popped       \* the code would probe for ever
       ELSE IF slot.next # None.index
            THEN SetCell(popped, p, [cell EXCEPT !.index = slot.next])
       ELSE RemovePhaseTwo(SetCell(popped, p, None), p)

\* evict: the oldest slot goes; its cell passes to the next of its chain, to
\* the slot about to be inserted when it was the chain's last (prev), or empties.
Evict(t, prev) ==
    LET posIdx == Wrap(Len(t.slots) - 1 - t.inserted)
        slot == Last(t.slots)
        popped == [t EXCEPT !.slots = Front(@), !.size = @ - slot.header.len]
        at == {p \in 0..(Cells(t) - 1) : CellAt(t, p).index = posIdx}
        p == CHOOSE q \in at : TRUE
        cell == CellAt(t, p)
    IN IF at = {} THEN popped       \* the code would probe for ever
       ELSE IF slot.next # None.index
            THEN SetCell(popped, p, [cell EXCEPT !.index = slot.next])
       ELSE IF posIdx = prev
            THEN SetCell(popped, p, [cell EXCEPT !.index = Wrap(-(t.inserted + 1))])
       ELSE RemovePhaseTwo(SetCell(popped, p, None), p)

RECURSIVE Converge(_, _)
Converge(t, prev) ==
    IF t.size > t.max_size THEN Converge(Evict(t, prev), prev) ELSE t

UpdateSize(t, len, prev) == Converge([t EXCEPT !.size = @ + len], prev)

----------------------------------------------------------------------------
(* Growing.                                                                 *)

\* The first free cell at or after the wanted one.
ReinsertEntryInOrder(t, pos) ==
    IF pos = None THEN t
    ELSE LET want == DesiredPos(t, pos.hash)
             d == Min({j \in 0..(Cells(t) - 1) : CellAt(t, want + j) = None})
         IN SetCell(t, want + d, pos)

\* The cells are visited from the first ideally placed one on, then wrapped.
Grow(t, cap) ==
    LET ideal == {p \in 0..(Cells(t) - 1) :
                    CellAt(t, p) # None /\ ProbeDistance(t, CellAt(t, p).hash, p) = 0}
        first == IF ideal = {} THEN 0 ELSE Min(ideal)
        order == SubSeq(t.indices, first + 1, Cells(t)) \o SubSeq(t.indices, 1, first)
    IN FoldLeft(ReinsertEntryInOrder,
                [t EXCEPT !.indices = [p \in 1..cap |-> None]], order)

ReserveOne(t) ==
    IF Len(t.slots) # UsableCapacity(Cells(t)) THEN t
    ELSE IF t.slots = << >> THEN [t EXCEPT !.indices = [p \in 1..RawCap |-> None]]
    ELSE Grow(t, 2 * Cells(t))

----------------------------------------------------------------------------
(* Looking up and inserting.  Each returns the new table and the Index.     *)

Index(t, kind, idx) == [table |-> t, out |-> [kind |-> kind, idx |-> idx]]

\* Index::new: what the static table knows.
IndexNew(t, h) ==
    Index(t, CASE h.static = "full" -> "Indexed"
               [] h.static = "name" -> "Name"
               [] OTHER -> "NotIndexed", 0)

Insert(t, h) ==
    [t EXCEPT !.inserted = Wrap(@ + 1),
              !.slots = <<[hash |-> HashOf[h.name], header |-> h,
                           next |-> None.index]>> \o @]

\* index_vacant: no slot has this name; `dist` cells from the wanted one, the
\* probe met an empty cell or a richer one.  Evictions may have moved cells
\* back, so it walks back before it takes the cell and shifts the rest on.
IndexVacant(t, h, dist) ==
    LET hash == HashOf[h.name]
        probe == DesiredPos(t, hash) + dist
        u == UpdateSize(t, h.len, None.index)
        free(j) == LET c == CellAt(u, probe - j)
                   IN c = None \/ ProbeDistance(u, c.hash, probe - j) < dist - j
        back == IF u.slots = t.slots THEN 0
                ELSE Max({k \in 0..dist : \A j \in 1..k : free(j)})
        at == (probe - back) % Cells(t)
        v == Insert(u, h)
        gap == Min({j \in 0..(Cells(t) - 1) : CellAt(v, at + j) = None})
        off(q) == ((q - 1) - at) % Cells(t)
        w == [v EXCEPT !.indices =
                [q \in DOMAIN @ |->
                   IF off(q) = 0 THEN [index |-> Wrap(-v.inserted), hash |-> hash]
                   ELSE IF off(q) <= gap THEN CellAt(v, q - 2) ELSE @[q]]]
    IN IF h.sens THEN IndexNew(t, h)
       ELSE IF h.static = "name" THEN Index(w, "InsertedValue", 0)
       ELSE Index(w, "Inserted", 0)

\* index_occupied: walk the chain of this name from `index` for the value;
\* without it, the new slot is linked behind the chain's last.
RECURSIVE IndexOccupied(_, _, _)
IndexOccupied(t, h, index) ==
    LET real == RealIdx(t, index)
        slot == SlotOf(t, index)
        v == Insert(UpdateSize(t, h.len, index), h)
        newReal == RealIdx(v, index)
        w == IF newReal < Len(v.slots)
             THEN [v EXCEPT !.slots[newReal + 1].next = Wrap(-v.inserted)] ELSE v
    IN IF slot.header.val = h.val THEN Index(t, "Indexed", real + 1)
       ELSE IF slot.next # None.index THEN IndexOccupied(t, h, slot.next)
       ELSE IF h.sens THEN Index(t, "Name", real + 1)
       ELSE Index(w, "InsertedValue", IF h.static = "name" THEN 0 ELSE real + 1)

\* index_dynamic: probe from the wanted cell to the name, or to where the name
\* would have been.
IndexDynamic(t0, h) ==
    LET t == IF h.len + t0.size < t0.max_size \/ ~h.sens THEN ReserveOne(t0) ELSE t0
        hash == HashOf[h.name]
        cell(d) == CellAt(t, DesiredPos(t, hash) + d)
        richer(d) == ProbeDistance(t, cell(d).hash, DesiredPos(t, hash) + d) < d
        named(d) == cell(d).hash = hash /\ SlotOf(t, cell(d).index).header.name = h.name
        stop == Min({d \in 0..(Cells(t) - 1) : cell(d) = None \/ richer(d) \/ named(d)})
    IN IF Cells(t) = 0 THEN IndexNew(t, h)
       ELSE IF cell(stop) = None \/ richer(stop) THEN IndexVacant(t, h, stop)
       ELSE IndexOccupied(t, h, cell(stop).index)

IndexHeader(t, h) ==
    IF h.skip \/ h.static = "full" \/ h.len * 4 > t.max_size * 3 THEN IndexNew(t, h)
    ELSE IndexDynamic(t, h)

----------------------------------------------------------------------------
TableInit ==
    /\ \E m \in Limits :
         table = [indices |-> << >>, slots |-> << >>, inserted |-> 0,
                  size |-> 0, max_size |-> m]
    /\ out = [kind |-> "none", idx |-> 0]

LookUp(h) ==
    LET r == IndexHeader(table, h) IN table' = r.table /\ out' = r.out

Resize(m) ==
    /\ table' = IF m = 0
                THEN [table EXCEPT !.max_size = 0, !.size = 0, !.inserted = 0,
                                   !.slots = << >>,
                                   !.indices = [p \in DOMAIN @ |-> None]]
                ELSE Converge([table EXCEPT !.max_size = m], None.index)
    /\ UNCHANGED out

TableNext == (\E h \in Fields : LookUp(h)) \/ (\E m \in Limits : Resize(m))

TableSpec == TableInit /\ [][TableNext]_tableVars
----------------------------------------------------------------------------
(* Properties.                                                              *)

\* The slots of a chain, followed from an index: no cycle is longer than the deque.
ChainFrom(t, index) ==
    LET link[n \in 0..Len(t.slots)] ==
          IF n = 0 THEN index
          ELSE IF link[n - 1] = None.index \/ RealIdx(t, link[n - 1]) >= Len(t.slots)
               THEN None.index ELSE SlotOf(t, link[n - 1]).next
    IN {RealIdx(t, link[n]) : n \in {k \in 0..Len(t.slots) : link[k] # None.index}}

\* The map and the deque agree, which the disabled assert_valid_state of table.rs
\* spells out: the occupied cells partition the slots into chains, every cell has the
\* hash of its chain and every slot of a name is in that name's one chain; a probe
\* for a name reaches its cell before an empty or a richer one; the recorded size is
\* that of the slots and within the limit.
TableValid ==
    LET t == table
        used == {p \in 0..(Cells(t) - 1) : CellAt(t, p) # None}
        chain(p) == ChainFrom(t, CellAt(t, p).index)
        want(p) == DesiredPos(t, CellAt(t, p).hash)
    IN /\ UNION {chain(p) : p \in used} = 0..(Len(t.slots) - 1)
       /\ \A p \in used : \A i \in chain(p) : t.slots[i + 1].hash = CellAt(t, p).hash
       /\ \A p, q \in used : \A i \in chain(p), j \in chain(q) :
            p = q <=> t.slots[i + 1].header.name = t.slots[j + 1].header.name
       /\ \A p \in used : \A d \in 0..(ProbeDistance(t, CellAt(t, p).hash, p) - 1) :
            /\ CellAt(t, want(p) + d) # None
            /\ ProbeDistance(t, CellAt(t, want(p) + d).hash, want(p) + d) >= d
       /\ t.size = FoldSeq(LAMBDA s, n : s.header.len + n, 0, t.slots)
       /\ t.size <= t.max_size

Fifo == INSTANCE HpackFifo WITH
    tab <- [i \in DOMAIN table.slots |-> table.slots[i].header],
    tabmax <- table.max_size, rep <- out

\* The hash map is never seen: every lookup and every resize of the detailed table is
\* one of the abstract queue, so a field the queue holds is always found (and never
\* entered twice), the position given for it is where the peer's decoder has it, and
\* what leaves the table is its oldest fields.
ImplementsFifo == Fifo!FifoSpec
=============================================================================
