------------------------------- MODULE Hpack -------------------------------
(***************************************************************************)
(* The two HPACK coders of vendor-h2 as operators: hpack/encoder.rs over    *)
(* the queue that HpackTable implements, and hpack/decoder.rs over its own. *)
(* A representation is a record: its kind, a table index (0: a static or a  *)
(* literal name), the name and value it spells out, and the new size of a   *)
(* size update.  Strings and Huffman coding are not spelled out.            *)
(***************************************************************************)
EXTENDS HpackRep

CONSTANTS Headers,          \* the header fields that occur
          MaxAllowed        \* the encoder's own cap on its table (4096)

----------------------------------------------------------------------------
(* Integers: a prefix of p bits, then seven bits an octet, least first.     *)

RECURSIVE Varint(_)
Varint(v) == IF v < 128 THEN <<v>> ELSE <<128 + (v % 128)>> \o Varint(v \div 128)

EncodeInt(v, p) ==
    LET low == 2^p - 1 IN IF v < low THEN <<v>> ELSE <<low>> \o Varint(v - low)

MaxBytes == 5

\* What decode_int makes of the octets at hand.
DecodeInt(bytes, p) ==
    LET mask == 2^p - 1
        ends == {k \in 2..Len(bytes) : bytes[k] < 128}
        value(k) == FoldLeftDomain(LAMBDA n, i : n + (bytes[i + 1] % 128) * 128^(i - 1),
                                   mask, SubSeq(bytes, 2, k))
    IN IF bytes = << >> THEN [st |-> "NeedMore", val |-> 0]
       ELSE IF bytes[1] % 2^p < mask THEN [st |-> "Ok", val |-> bytes[1] % 2^p]
       ELSE IF ends # {} /\ Min(ends) <= MaxBytes THEN [st |-> "Ok", val |-> value(Min(ends))]
       ELSE IF Len(bytes) >= MaxBytes THEN [st |-> "IntegerOverflow", val |-> 0]
       ELSE [st |-> "NeedMore", val |-> 0]

\* Every integer of up to five octets, at the edges of each length, is read
\* back from what encode_int writes and from no proper prefix of it; the next
\* one is refused.
ASSUME IntegersRoundTrip ==
    \A p \in 4..7 :
        LET low == 2^p - 1
            edges == (0..low + 1) \cup
                     UNION {{low + 128^k - 1, low + 128^k, low + 128^k + 1} : k \in 1..3}
                     \cup {low + 128^4 - 1}
        IN /\ \A v \in edges : LET b == EncodeInt(v, p)
                               IN /\ DecodeInt(b, p) = [st |-> "Ok", val |-> v]
                                  /\ \A k \in 0..(Len(b) - 1) :
                                       DecodeInt(SubSeq(b, 1, k), p).st = "NeedMore"
           /\ DecodeInt(EncodeInt(low + 128^4, p), p).st = "IntegerOverflow"

----------------------------------------------------------------------------
(* The encoder: [tab, max, update], update being the size updates to send.  *)

NewEncoder(m) == [tab |-> << >>, max |-> Min({m, MaxAllowed}), update |-> << >>]

\* Mutant: the change after the second one forgets the smallest size.
UpdateMaxSizeMutant(e, size) ==
    LET v == Min({size, MaxAllowed})
    IN [e EXCEPT !.update =
          CASE @ = << >> -> IF v # e.max THEN <<v>> ELSE @
            [] Len(@) = 1 -> IF v > @[1] /\ @[1] <= e.max THEN <<@[1], v>> ELSE <<v>>
            [] OTHER -> <<v>>]

\* update_max_size: the next block announces the last size, and before it the
\* smallest one since the last block when that is below what the table had.
UpdateMaxSize(e, size) ==
    LET v == Min({size, MaxAllowed})
    IN [e EXCEPT !.update =
          CASE @ = << >> -> IF v # e.max THEN <<v>> ELSE @
            [] Len(@) = 1 -> IF v > @[1] /\ @[1] <= e.max THEN <<@[1], v>> ELSE <<v>>
            [] OTHER -> IF v < @[1] THEN <<v>> ELSE <<@[1], v>>]

Rep(kind, idx, name, val) == [kind |-> kind, idx |-> idx, name |-> name, val |-> val, n |-> 0]
SizeUpdate(m) == [Rep("SizeUpdate", 0, "", 0) EXCEPT !.n = m]

\* encode_size_updates: each is applied to the table and written.
EncodeSizeUpdates(e) ==
    [enc |-> FoldLeft(LAMBDA x, m : [x EXCEPT !.tab = Newest(@, m), !.max = m],
                      [e EXCEPT !.update = << >>], e.update),
     block |-> [i \in DOMAIN e.update |-> SizeUpdate(e.update[i])]]

\* The representation the table picks: the newest entry that will do.
IndexOf(e, h) ==
    LET reps == RepsOf(e.tab, e.max, h) IN CHOOSE r \in reps : \A q \in reps : r.idx <= q.idx

NotIndexedKind(h) == IF h.sens THEN "NeverIndexed" ELSE "WithoutIndexing"

EncodeHeader(ix, h) ==
    LET kind == CASE ix.kind = "Indexed" -> "Indexed"
                  [] ix.kind \in {"Inserted", "InsertedValue"} -> "WithIndexing"
                  [] OTHER -> NotIndexedKind(h)
    IN Rep(kind, ix.idx, IF ix.idx = 0 THEN h.name ELSE "",
           IF kind = "Indexed" /\ ix.idx > 0 THEN 0 ELSE h.val)

\* A further value of the previous field: it reuses that field's index, which
\* is the newest entry when the field was just entered, and enters nothing.
EncodeHeaderWithoutName(last, h) ==
    LET idx == IF last.kind \in {"Inserted", "InsertedValue"} THEN 1 ELSE last.idx
    IN Rep(NotIndexedKind(h), idx, IF idx = 0 THEN h.name ELSE "", h.val)

\* encode: the block of a header list; a field whose name is that of the field
\* before it comes without a name (HeaderMap yields the values of a name in a row).
Encode(e, list) ==
    LET start == EncodeSizeUpdates(e)
        step(a, i) ==
            LET h == list[i]
                ix == IndexOf(a.enc, h)
                nameless == i > 1 /\ h.cls # "pseudo" /\ h.name = list[i - 1].name
            IN IF nameless THEN [a EXCEPT !.block = Append(@, EncodeHeaderWithoutName(a.last, h))]
               ELSE [enc |-> [a.enc EXCEPT !.tab = After(@, a.enc.max, h)], last |-> ix,
                     block |-> Append(a.block, EncodeHeader(ix, h))]
    IN FoldLeftDomain(step, [enc |-> start.enc, last |-> [kind |-> "none", idx |-> 0],
                             block |-> start.block], list)

----------------------------------------------------------------------------
(* The decoder: [tab, max, last, pending]: its table, the largest size an   *)
(* update may ask for, and the one that takes effect with the next decode.  *)

NoUpdate == -1
NewDecoder(m) == [tab |-> << >>, max |-> m, last |-> m, pending |-> NoUpdate]

QueueSizeUpdate(d, m) == [d EXCEPT !.pending = Max({@, m})]
TakeSizeUpdate(d) ==
    [d EXCEPT !.last = IF d.pending = NoUpdate THEN @ ELSE d.pending, !.pending = NoUpdate]

\* The field of a name and a value (one nobody encoded, if the tables disagree).
HeaderOf(name, val) ==
    LET known == {h \in Headers : h.name = name /\ h.val = val}
    IN IF known # {} THEN CHOOSE h \in known : TRUE
       ELSE [name |-> name, val |-> val, len |-> 2, sens |-> FALSE, static |-> "no",
             skip |-> FALSE, cls |-> "field"]

\* Table::insert: room is made even for an entry that then does not fit.
TableInsert(d, h) ==
    [d EXCEPT !.tab = IF h.len <= d.max THEN <<h>> \o Newest(@, d.max - h.len) ELSE << >>]

\* Table::get: an index the table may lack.  A static entry is told by its name.
InTable(d, idx) == idx = 0 \/ idx \in DOMAIN d.tab

DecodeIndexed(d, r) == IF r.idx = 0 THEN HeaderOf(r.name, r.val) ELSE d.tab[r.idx]

DecodeLiteral(d, r) == HeaderOf(IF r.idx = 0 THEN r.name ELSE d.tab[r.idx].name, r.val)

\* One representation: whether it decodes, the field, and the decoder after it.
DecodeRep(d, r) ==
    IF r.kind = "Invalid" \/ ~InTable(d, r.idx) THEN [ok |-> FALSE, dec |-> d]
    ELSE LET h == IF r.kind = "Indexed" THEN DecodeIndexed(d, r) ELSE DecodeLiteral(d, r)
         IN [ok |-> TRUE, h |-> h,
             dec |-> IF r.kind = "WithIndexing" THEN TableInsert(d, h) ELSE d]

\* A size update, legal only before the first field of a decode call.
ProcessSizeUpdate(d, m) ==
    IF m > d.last THEN [ok |-> FALSE, dec |-> d]
    ELSE [ok |-> TRUE, dec |-> [d EXCEPT !.max = m, !.tab = Newest(@, m)]]
=============================================================================
