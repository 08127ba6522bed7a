---------------------------- MODULE MCWorkspaces ----------------------------
(* Two accounts and two nested directories, the outer one a mount point. *)
EXTENDS Workspaces, TLC

CONSTANTS a, b, cli, home, outer, inner, p1, p2, q1, q2

MCChange ==
    LET Nothing == [role |-> None, active |-> None, password |-> None] IN
    {[Nothing EXCEPT !.role = "admin"], [Nothing EXCEPT !.active = FALSE],
     [Nothing EXCEPT !.role = "member", !.active = TRUE]}
    \cup {[Nothing EXCEPT !.password = p] : p \in Password}

MCWithin == {<<inner, outer>>}

MCSymmetry ==
    {x @@ y @@ z : x \in Permutations({q1, q2}), y \in Permutations({p1, p2}),
                   z \in Permutations({a, b})}
=============================================================================
