--------------------------- MODULE MCTreeIdentity ---------------------------
(* One workspace, of which two folders, a and b in it, are used. *)
EXTENDS Tree

CONSTANTS home, a, b, c, n, m, g, h, p1

\* The spare row is for the directory that a scan finds; the first file lies in b.
Layout ==
    /\ folder[a] # None /\ folder[a].parent = home /\ folder[a].name = n
    /\ folder[b] # None /\ folder[b].parent = a /\ folder[b].name = n
    /\ folder[c] = None
    /\ file[g] # None /\ file[g].at = b /\ file[g].size = 1 /\ file[h] = None

MCInit == Init /\ Layout
MCSpec == MCInit /\ [][Next]_vars
MCFairSpec == MCSpec /\ Fairness
=============================================================================
