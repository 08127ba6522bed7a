------------------------------- MODULE MCTags -------------------------------
(* A vocabulary of two words and room for a third; a machine claimed one.  *)
EXTENDS Tags

CONSTANTS a, b, c, m, n, o, f, d, e, p1, p2

Layout ==
    /\ tag[a] = "active" /\ tag[b] # "unborn" /\ tag[c] = "unborn"
    /\ name[m] = Row(a, FALSE) /\ name[n] = Row(b, FALSE)
    /\ claim = {<<<<f, 1, e>>, b>>}

MCInit == Init /\ Layout
MCSpec == MCInit /\ [][Next]_vars

Slots == Permutations(Session)
=============================================================================
