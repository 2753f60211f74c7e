------------------------------ MODULE MCCodecs ------------------------------
(***************************************************************************)
(* The HPACK encoder table, the HTTP/2 frame stream and the HTTP/1 octet    *)
(* stream share no state: a behaviour of this model is one of one of them,  *)
(* with the others left as one of their first states.                       *)
(***************************************************************************)
EXTENDS MCHpackTable, MCH2Codec, MCH1Wire

VARIABLE part       \* the part that runs

Init ==
    /\ part \in {"table", "h2", "h1"}
    /\ TableInit /\ CodecInit /\ WireInit
    /\ part = "table" \/ table.max_size = Max(Limits)
    /\ part = "h2" \/ pump = "framed"
    /\ part = "h1" \/ (mode = "both" /\ ~cl.http10)

Next ==
    \/ part = "table" /\ TableNext /\ UNCHANGED <<part, codecVars, wireVars>>
    \/ part = "h2" /\ CodecNext /\ UNCHANGED <<part, tableVars, wireVars>>
    \/ part = "h1" /\ WireNext /\ UNCHANGED <<part, tableVars, codecVars>>

Spec == Init /\ [][Next]_<<part, tableVars, codecVars, wireVars>>
=============================================================================
