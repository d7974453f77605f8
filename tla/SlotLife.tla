-------------------------------- MODULE SlotLife -------------------------------
(***************************************************************************)
(* What the network layer promises about the life of a slot of UserList,   *)
(* whatever completions, commands and timers do to it and in any order: a  *)
(* free slot is taken by a connection, the connection may log a character  *)
(* in, and a character that lost its connection ("limbo") is never taken   *)
(* over by another connection: the only way out of limbo is to be freed.   *)
(***************************************************************************)
CONSTANT Slots

VARIABLE phase

vars == <<phase>>

Phases == {"free", "connected", "playing", "leaving", "limbo"}

Init == phase = [s \in Slots |-> "free"]

\* Slot s goes from one of the phases in from to the phase to.
Goes(s, from, to) == phase[s] \in from /\ phase' = [phase EXCEPT ![s] = to]

Accept(s) == Goes(s, {"free"}, "connected")

Login(s) == Goes(s, {"connected"}, "playing")

AskToLeave(s) == Goes(s, {"playing"}, "leaving")

StayAfterAll(s) == Goes(s, {"leaving"}, "playing")

LoseConnection(s) == Goes(s, {"playing", "leaving"}, "limbo")

Free(s) == Goes(s, {"connected", "playing", "leaving", "limbo"}, "free")

Next ==
  \E s \in Slots :
    \/ Accept(s) \/ Login(s) \/ AskToLeave(s) \/ StayAfterAll(s)
    \/ LoseConnection(s) \/ Free(s)

Spec == Init /\ [][Next]_vars
================================================================================
