----------------------------- MODULE MCH2Codec -----------------------------
(***************************************************************************)
(* Blocks of up to three fields over a table that holds two of them, a      *)
(* first frame size that cuts a representation in two, fields that repeat   *)
(* a name, are past the list size or way past it, and lists that are        *)
(* malformed after a field the table keeps.                                 *)
(***************************************************************************)
EXTENDS H2Codec

F(n, v, len) == [name |-> n, val |-> v, len |-> len, sens |-> FALSE, static |-> "no",
                 skip |-> FALSE, cls |-> "field"]

Method == [F("method", 1, 1) EXCEPT !.static = "full", !.cls = "pseudo"]
A1 == F("a", 1, 2)
A2 == F("a", 2, 2)
B == F("b", 1, 2)
Cookie == [F("cookie", 1, 1) EXCEPT !.sens = TRUE, !.static = "name"]
Upgrade == [F("upgrade", 1, 1) EXCEPT !.cls = "connection"]
Big == F("big", 1, 8)
Huge == F("huge", 1, 33)

MCHeaders == {Method, A1, A2, B, Cookie, Upgrade, Big, Huge}
MCLists == {<<Method, A1>>, <<A1, A2>>, <<Method, B, A1>>, <<Cookie>>}
MCPeerLists == {<<Method, B, A1>>, <<Upgrade, B>>, <<A1, Method>>, <<B, Big>>, <<Huge>>}
=============================================================================
