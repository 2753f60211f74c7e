---------------------------- MODULE MCHpackTable ----------------------------
(***************************************************************************)
(* The encoder table with names whose hashes collide, wrap around the end   *)
(* of the first map and part again once it has doubled, in a queue that     *)
(* holds up to four fields: the first allocation takes three, the second    *)
(* six.                                                                     *)
(***************************************************************************)
EXTENDS HpackTable

H(n, v, len) == [name |-> n, val |-> v, len |-> len,
                 sens |-> FALSE, static |-> "no", skip |-> FALSE]

MCFields ==
    {H("a", 1, 1), H("a", 2, 1), H("a", 3, 3), H("b", 1, 1), H("c", 1, 1), H("c", 2, 1),
     [H("d", 1, 1) EXCEPT !.static = "name"],
     [H("a", 4, 1) EXCEPT !.sens = TRUE],
     [H("e", 1, 1) EXCEPT !.static = "name", !.skip = TRUE]}
MCHashOf == [a |-> 3, b |-> 7, c |-> 0, d |-> 3, e |-> 1]
MCLimits == {0, 3, 4}
=============================================================================
