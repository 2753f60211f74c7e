----------------------------- MODULE HpackFifo -----------------------------
(***************************************************************************)
(* What an HPACK encoder table promises, with no hash map in it: the        *)
(* dynamic table is a queue of header fields, and looking a field up        *)
(* answers with a representation that stands for that field.  HpackTable    *)
(* implements this specification; the wire model (H2Codec) uses the same    *)
(* operators for the encoder's table.                                       *)
(***************************************************************************)
EXTENDS HpackRep

CONSTANTS Fields,       \* the header fields that may be looked up
          Limits        \* the sizes the table may be resized to

VARIABLES tab,          \* the dynamic table, newest first
          tabmax,       \* its size limit
          rep           \* the representation of the last field looked up

fifoVars == <<tab, tabmax, rep>>

FifoInit == tab = << >> /\ tabmax \in Limits /\ rep = [kind |-> "none", idx |-> 0]

FifoIndex(h) ==
    /\ rep' \in RepsOf(tab, tabmax, h)
    /\ tab' = After(tab, tabmax, h)
    /\ UNCHANGED tabmax

FifoResize(m) ==
    /\ tabmax' = m
    /\ tab' = Newest(tab, m)
    /\ UNCHANGED rep

FifoNext == (\E h \in Fields : FifoIndex(h)) \/ (\E m \in Limits : FifoResize(m))

FifoSpec == FifoInit /\ [][FifoNext]_fifoVars
=============================================================================
