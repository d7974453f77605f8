------------------------------ MODULE MCCombat ------------------------------
EXTENDS Combat, TLC
MCFirstKinds == {<<"beast", "deer">>, <<"guard", "deer">>}
MCDomable == {"deer"}
MCMaxHp == [k \in Kinds |-> IF k = "beast" THEN 2 ELSE 1]
MCGiveEXP == [k \in Kinds |-> IF k = "beast" THEN 3 ELSE IF k = "deer" THEN 1 ELSE 0]
Symmetry == Permutations(User)

\* Only a beast is left with less than nothing by its last blows.
MCSpec == Init /\ [][Next /\ \A n \in Npc : npc[n].kind = "beast" \/ npc'[n].hp >= 0]_vars

=============================================================================
