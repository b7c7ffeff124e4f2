---------------------------- MODULE ExclusiveUse ----------------------------
(***************************************************************************)
(* What a lock service promises, without saying how: users enter and leave *)
(* resources, and nobody enters a resource that somebody else is in.       *)
(***************************************************************************)
CONSTANTS Users, Resources

VARIABLE inside  \* the pairs of a user and the resource it is in

Free(r) == \A u \in Users : <<u, r>> \notin inside

Enter(u, r) ==
  /\ Free(r)
  /\ inside' = inside \cup {<<u, r>>}

Leave(u, r) ==
  /\ <<u, r>> \in inside
  /\ inside' = inside \ {<<u, r>>}

Init == inside = {}

Next == \E u \in Users, r \in Resources : Enter(u, r) \/ Leave(u, r)

Spec == Init /\ [][Next]_inside

=============================================================================
