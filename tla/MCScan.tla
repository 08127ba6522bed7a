------------------------------- MODULE MCScan -------------------------------
(* A root r, a mount point m in it, and in one instance a directory deeper in that. *)
EXTENDS Scan, TLC

CONSTANTS r, m, deeper, doc, w1, w2

MCUp == [x \in Dir |-> IF x = r THEN None ELSE IF x = m THEN r ELSE m]
MCOrder == [x \in Dir |-> IF x = r THEN 0 ELSE IF x = m THEN 1 ELSE 2]

\* The file lies in m, or it is uploaded; the scan is the first one, or one of many.
Layout == at[doc] # r /\ (known # Dir => at[doc] = m)

MCInit == Init /\ Layout
MCSpec == MCInit /\ [][Next]_vars

Loops == Permutations(Worker)
=============================================================================
