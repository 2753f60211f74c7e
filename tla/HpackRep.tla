------------------------------ MODULE HpackRep ------------------------------
(***************************************************************************)
(* Header fields, the HPACK dynamic table as a queue of them (newest first, *)
(* giving way from its old end) and the representations that may stand for  *)
(* a field, given that queue.                                               *)
(*                                                                         *)
(* A header is a record: its name and value, whether the value is marked    *)
(* sensitive, its length (HPACK counts the same 32 octets over name and     *)
(* value as the header list does), what the static table has of it ("no",   *)
(* "name", "full") and whether its value is one never worth indexing.       *)
(***************************************************************************)
EXTENDS Integers, Sequences, SequencesExt, FiniteSets, FiniteSetsExt

Same(a, b) == a.name = b.name /\ a.val = b.val

TotalLen(t) == FoldSeq(LAMBDA h, n : h.len + n, 0, t)

\* The newest entries that fit in m.
Newest(t, m) ==
    SubSeq(t, 1, Max({k \in 0..Len(t) : TotalLen(SubSeq(t, 1, k)) <= m}))

\* Where the table holds this field, or a field of this name.
FullAt(t, h) == {i \in DOMAIN t : Same(t[i], h)}
NameAt(t, h) == {i \in DOMAIN t : t[i].name = h.name}

\* Too large to be worth an entry.
Large(h, m) == h.len * 4 > m * 3

\* Index 0 stands for the entry of the static table, i for dynamic entry i.
StaticRep(h) ==
    [kind |-> CASE h.static = "full" -> "Indexed"
                [] h.static = "name" -> "Name"
                [] OTHER -> "NotIndexed",
     idx |-> 0]

\* Whether looking h up enters it in the table.
Kept(t, m, h) ==
    ~h.skip /\ h.static # "full" /\ ~Large(h, m) /\ ~h.sens /\ FullAt(t, h) = {}

\* The representations that may stand for h.
RepsOf(t, m, h) ==
    IF h.skip \/ h.static = "full" \/ Large(h, m) THEN {StaticRep(h)}
    ELSE IF FullAt(t, h) # {} THEN [kind : {"Indexed"}, idx : FullAt(t, h)]
    ELSE IF h.sens THEN
           IF NameAt(t, h) # {} THEN [kind : {"Name"}, idx : NameAt(t, h)]
           ELSE {StaticRep(h)}
    ELSE IF h.static = "name" THEN {[kind |-> "InsertedValue", idx |-> 0]}
    ELSE IF NameAt(t, h) # {} THEN [kind : {"InsertedValue"}, idx : NameAt(t, h)]
    ELSE {[kind |-> "Inserted", idx |-> 0]}

\* The table once h was looked up.
After(t, m, h) ==
    IF Kept(t, m, h) THEN <<h>> \o Newest(t, m - h.len) ELSE t
=============================================================================
