--------------------------------- MODULE Groups --------------------------------
(***************************************************************************)
(* What the party system promises: every user is in at most one group, a   *)
(* group has one leader, who is in it for as long as it exists, and the    *)
(* group and its leader come and go together.                              *)
(***************************************************************************)
CONSTANTS Users, Ids, None

VARIABLES
  group,    \* the group of a user, or None
  leader    \* the leader of a group, or None when the group does not exist

vars == <<group, leader>>

Init ==
  /\ group = [u \in Users |-> None]
  /\ leader = [p \in Ids |-> None]

Found(u, p) ==
  /\ group[u] = None
  /\ leader[p] = None
  /\ group' = [group EXCEPT ![u] = p]
  /\ leader' = [leader EXCEPT ![p] = u]

Join(u, p) ==
  /\ group[u] = None
  /\ leader[p] # None
  /\ group' = [group EXCEPT ![u] = p]
  /\ UNCHANGED leader

\* A member leaves, or is made to leave, a group it does not lead.
Leave(u) ==
  /\ group[u] # None
  /\ leader[group[u]] # u
  /\ group' = [group EXCEPT ![u] = None]
  /\ UNCHANGED leader

\* The leader leaves and everybody with it.
Dissolve(p) ==
  /\ leader[p] # None
  /\ group' = [u \in Users |-> IF group[u] = p THEN None ELSE group[u]]
  /\ leader' = [leader EXCEPT ![p] = None]

HandOver(u) ==
  /\ group[u] # None
  /\ leader' = [leader EXCEPT ![group[u]] = u]
  /\ UNCHANGED group

Next ==
  \/ \E u \in Users, p \in Ids : Found(u, p) \/ Join(u, p)
  \/ \E u \in Users : Leave(u) \/ HandOver(u)
  \/ \E p \in Ids : Dissolve(p)

Spec == Init /\ [][Next]_vars
================================================================================
