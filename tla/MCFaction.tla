----------------------------- MODULE MCFaction -----------------------------
EXTENDS Faction, TLC

Citizen ==
  [muerto |-> FALSE, asesino |-> 0, bandido |-> 0, ladrones |-> 0, noble |-> 0, plebe |-> 0,
   armada |-> FALSE, caos |-> FALSE, rangoReal |-> 0, rangoCaos |-> 0, next |-> 0,
   crimMatados |-> 0, ciudMatados |-> 0, lastCrim |-> NoUser, lastCiud |-> NoUser,
   reenlistadas |-> 0, sirvioReal |-> FALSE, sirvioCaos |-> FALSE, elv |-> 1,
   atacablePor |-> NoUser]

MCCharacters == {[Citizen EXCEPT !.noble = 1, !.crimMatados = 1], [Citizen EXCEPT !.bandido = 1, !.ciudMatados = 1]}

Beast == [tipo |-> "Comun", hostil |-> TRUE, faccion |-> 0, alineacion |-> 1,
          guardia |-> FALSE, maestro |-> NoUser]
RoyalGuard == [Beast EXCEPT !.tipo = "GuardiaReal", !.hostil = FALSE, !.faccion = 1,
               !.alineacion = 0, !.guardia = TRUE]
ChaosGuard == [Beast EXCEPT !.tipo = "GuardiasCaos", !.hostil = FALSE, !.faccion = 2,
               !.alineacion = 2]
Pet == [Beast EXCEPT !.alineacion = 3, !.maestro = 1]
MCCreatures == {Beast, RoyalGuard, ChaosGuard, Pet}

MCLadder == <<[next |-> 1, elv |-> 1, noble |-> 0], [next |-> 2, elv |-> 1, noble |-> 1],
              [next |-> 3, elv |-> 1, noble |-> 0]>>
=============================================================================
