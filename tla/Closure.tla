------------------------------ MODULE Closure ------------------------------
(***************************************************************************)
(* The closure tables of the program: folder_closure and, with the same    *)
(* statements, the tree of a workspace. A table is a set of links          *)
(* <<ancestor, descendant, depth>>; every node links to itself at depth 0, *)
(* so that "everything under a node" needs no special case.  An operator   *)
(* here is one SQL statement over such a table.                            *)
(***************************************************************************)
EXTENDS Integers, Sequences, SequencesExt, FiniteSetsExt

Link(a, d, k) == <<a, d, k>>

Subtree(links, f) == {l[2] : l \in {m \in links : m[1] = f}}

Chain(links, f) == {l[1] : l \in {m \in links : m[2] = f}}

Covers(links, a, d) == \E l \in links : l[1] = a /\ l[2] = d

\* The rows of a new node: itself, and every ancestor of its parent one deeper.
NewLinks(links, f, p) ==
    {Link(f, f, 0)} \cup {Link(l[1], f, l[3] + 1) : l \in {m \in links : m[2] = p}}

OutsideFolderOnly(links, f) == {l \in links : l[2] = f /\ l[1] # f}

\* What a move deletes: the links that reach into the subtree from outside it.
Outside(links, f) ==
    {l \in links : l[2] \in Subtree(links, f) /\ l[1] \notin Subtree(links, f)}

\* What a move inserts: every ancestor of the parent paired with the subtree.
Attaching(links, f, p) ==
    {Link(above[1], below[2], above[3] + below[3] + 1) :
        above \in {l \in links : l[2] = p}, below \in {l \in links : l[1] = f}}

Moved(links, f, p) ==
    LET rest == links \ Outside(links, f) IN rest \cup Attaching(rest, f, p)

\* The nodes from the root to f, in the order of the depth column.
Ancestry(links, f) ==
    LET above == {l \in links : l[2] = f}
        top == Max({l[3] : l \in above})
    IN  [i \in 1 .. top + 1 |-> (CHOOSE l \in above : l[3] = top + 1 - i)[1]]

(***************************************************************************)
(* What a table has to be for a tree with these parents: exactly the       *)
(* reflexive, transitive closure, without a cycle. Stated link by link, so *)
(* that no path has to be built.                                           *)
(***************************************************************************)
ClosureOf(links, nodes, parent) ==
    /\ \A a, d \in nodes :
          Covers(links, a, d) <=>
              a = d \/ (parent[d] \in nodes /\ Covers(links, a, parent[d]))
    /\ \A d \in nodes : parent[d] \in nodes => ~Covers(links, d, parent[d])
    /\ \A l \in links : l[1] \in nodes /\ l[2] \in nodes
=============================================================================
