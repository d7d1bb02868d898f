----------------------------- MODULE MCRoleLock ------------------------------
(* Two nodes: two goroutines of one ask for the role for the same time, the
   one of the other now for longer and now for less. *)
EXTENDS RoleLock, TLC

CONSTANTS n1, n2, p1, p2, p3

MCNodeOf == p1 :> n1 @@ p2 :> n1 @@ p3 :> n2
MCDurs == n1 :> {1} @@ n2 :> {1, 2}
MCSiblings == Permutations({p1, p2})
=============================================================================
