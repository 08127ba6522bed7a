------------------------------- MODULE MCTree -------------------------------
(* A workspace home with one or two folders, and a second, empty workspace. *)
EXTENDS Tree

CONSTANTS home, depot, a, b, n, m, g, p1, p2

\* a lies in home; b in a, or it is a spare row; the file lies deepest.
Layout ==
    /\ folder[a] # None /\ folder[a].parent = home /\ folder[a].name = n
    /\ folder[b] # None => folder[b].parent = a /\ folder[b].name = n
    /\ file[g] # None /\ file[g].size = 1
    /\ file[g].at = IF folder[b] = None THEN a ELSE b

MCInit == Init /\ Layout
MCSpec == MCInit /\ [][Next]_vars

Slots == Permutations(Request)
=============================================================================
