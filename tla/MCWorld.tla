-------------------------------- MODULE MCWorld --------------------------------
EXTENDS World, TLC

Alive == [Muerto |-> FALSE, AdminInvisible |-> FALSE]
Dead == [Alive EXCEPT !.Muerto = TRUE]
Unseen == [Alive EXCEPT !.AdminInvisible = TRUE]

MCStatuses == {<<Alive, Dead>>, <<Unseen, Dead>>}

\* Map 1 has two tiles, one above the other, and map 4 two, one beside the other.
MCStarts == {At(1, 1, 1), At(4, 1, 1)}
MCWarps == {At(1, 1, 2), At(4, 1, 1)}
MCBirths == {[kind |-> 1, orig |-> At(1, 1, 1)], [kind |-> 1, orig |-> At(4, 1, 1)]}
Open == {At(1, 1, 1), At(1, 1, 2), At(4, 1, 1), At(4, 2, 1)}
MCBlocked == Cells \ UNION {{UserCell(p), WorldCell(p)} : p \in Open}

MCSpec == Init /\ [][Next /\ (pushed => UNCHANGED npc)]_vars

================================================================================
