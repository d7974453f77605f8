------------------------------ MODULE Faction ------------------------------
(***************************************************************************)
(* The conduct of users over time: attacks by hand and by magic, help,     *)
(* resurrections, creatures, pets and guards, thefts, the royal army and   *)
(* the legion of chaos (ModFacciones.cpp).  Where the two users of a       *)
(* handler are, the safety and a consultation are inputs: users move and   *)
(* change them as they please.  Whether a blow lands and kills is an input *)
(* too; hit points are in Vitals.                                         *)
(***************************************************************************)
EXTENDS Conduct, Sequences

CONSTANTS
  Users,        \* slots of players
  Players,      \* those whose every deed is followed; the others attack their pets,
                \* die and come back
  Characters,   \* records of the characters that may be loaded at first
  Creatures,    \* records of creatures, see Conduct
  RealLadder,   \* rungs of the army: next (kills), elv, noble
  CaosLadder,   \* rungs of the legion
  MinCrim,      \* 30 criminals to enter the army
  MinCiud,      \* 70 citizens to enter the legion
  MinElv,       \* level 25 for both
  MinNoble,     \* 1,000,000 of nobility for the army
  MaxReenl      \* 4 enlistments and a fifth

Ladder == Seq([next : Nat, elv : Nat, noble : Nat])

ASSUME FactionAssumption ==
  /\ Players \subseteq Users /\ NoUser \notin Users
  /\ {RealLadder, CaosLadder} \subseteq Ladder \ {<<>>}
  /\ MinCiud \in Nat \ {0} /\ MaxReenl \in Nat
  /\ \A n \in Creatures : n.maestro \in Users \cup {NoUser}

VARIABLE user

Levels == {c.elv : c \in Characters}
LadderNext(ladder) == {ladder[i].next : i \in DOMAIN ladder}

Reputation == 0..MAXREP
Kills == 0..MAXUSERMATADOS
RealRanks == 0..Len(RealLadder)
CaosRanks == 0..Len(CaosLadder)
Rewards == {0} \cup LadderNext(RealLadder) \cup LadderNext(CaosLadder)
Enlistments == 0..(MaxReenl + 1) \cup {200}
SomeUser == Users \cup {NoUser}

Character ==
  [muerto : BOOLEAN, asesino : Reputation, bandido : Reputation, ladrones : Reputation,
   noble : Reputation, plebe : Reputation, armada : BOOLEAN, caos : BOOLEAN,
   rangoReal : RealRanks, rangoCaos : CaosRanks, next : Rewards,
   crimMatados : Kills, ciudMatados : Kills, lastCrim : SomeUser, lastCiud : SomeUser,
   reenlistadas : Enlistments, sirvioReal : BOOLEAN, sirvioCaos : BOOLEAN,
   elv : Levels, atacablePor : SomeUser]

\* What a character's service has left in it: one side at most, the next reward
\* that follows the rank, and of the legion's entry at least a citizen killed.
Past(r) ==
  /\ ~(r.sirvioReal /\ r.sirvioCaos)
  /\ r.armada => r.sirvioReal
  /\ r.caos => r.sirvioCaos
  /\ r.sirvioReal => r.next = RealLadder[r.rangoReal + 1].next
  /\ r.sirvioCaos => r.next = CaosLadder[r.rangoCaos + 1].next /\ r.ciudMatados > 0

ASSUME CharactersAssumption == \A c \in Characters : c \in Character /\ Past(c)

\* Reputations, counters and ranks stay within their ranges, the number of
\* enlistments among them, through every sequence of deeds.
TypeOK == user \in [Users -> Character]

Init == user \in [Users -> Characters]

Set1(u, r) == user' = [user EXCEPT ![u] = r]
Set2(u, r, v, q) == user' = [user EXCEPT ![u] = r, ![v] = q]

(***************************************************************************)
(* Attacks between users.                                                  *)
(***************************************************************************)
\* UserDañoUser and HechizoPropUsuario, when the blow kills.
Killer(a, v, attacker, victim, site, magic) ==
  LET counted == IF Unprovoked(v, attacker) THEN ContarMuerte(a, v, attacker, victim, site) ELSE a
  IN IF magic THEN ActStats(counted, v, attacker) ELSE counted

\* The attacker once the blow has landed.
AfterBlow(a, v, site, magic, lethal) ==
  LET struck == UsuarioAtacadoPorUsuario(user[a], user[v], a, site)
  IN IF lethal THEN Killer(struck, user[v], a, v, site, magic) ELSE struck

MayAttack(a, v, site) ==
  /\ a # v
  /\ \E seguro \in BOOLEAN, consulta \in BOOLEAN :
       PuedeAtacar(user[a], user[v], a, site, seguro, consulta)

Attack(a, v, site, magic) ==
  /\ MayAttack(a, v, site)
  /\ \/ Set1(a, AfterBlow(a, v, site, magic, FALSE))
     \/ Set2(a, AfterBlow(a, v, site, magic, TRUE), v, Dies(user[v]))

\* A pet kills by magic (NpcLanzaSpellSobreUser): the death comes first.
PetKills(m, v, site) ==
  /\ m # v /\ ~user[v].muerto
  /\ LET dead == Dies(user[v])
     IN Set2(m, ActStats(ContarMuerte(user[m], dead, m, v, site), dead, m), v, dead)

\* A creature kills; a royal guard by hand is just only to criminals.
CreatureKills(v) ==
  /\ ~user[v].muerto
  /\ \E guard \in BOOLEAN, magic \in BOOLEAN :
       Set1(v, Dies(IF guard /\ (magic \/ criminal(user[v]))
                    THEN RestarCriminalidad(user[v]) ELSE user[v]))

(***************************************************************************)
(* Help and resurrection.                                                  *)
(***************************************************************************)
Support(c, t, site, grave) ==
  /\ c # t /\ ~user[c].muerto /\ ~user[t].muerto
  /\ \E seguro \in BOOLEAN, consulta \in BOOLEAN :
       CanSupportUser(user[c], user[t], c, site, seguro, consulta)
  /\ Set1(c, SupportCost(user[c], user[t], c, site, grave))

\* HechizoEstadoUsuario with Revivir: the caster may die of it.
Revive(c, t, site) ==
  /\ c # t /\ ~user[c].muerto /\ user[t].muerto
  /\ \E seguro \in BOOLEAN, consulta \in BOOLEAN :
       CanSupportUser(user[c], user[t], c, site, seguro, consulta)
  /\ LET paid == SupportCost(user[c], user[t], c, site, TRUE)
         thanked == IF criminal(user[t]) THEN paid
                    ELSE [paid EXCEPT !.noble = Capped(@ + SpellNoble)]
     IN \E exhausted \in BOOLEAN :
          Set2(c, IF exhausted THEN Dies(thanked) ELSE thanked,
               t, [user[t] EXCEPT !.muerto = FALSE])

\* RevivirUsuario, by a priest.
RevivirUsuario(u) == user[u].muerto /\ Set1(u, [user[u] EXCEPT !.muerto = FALSE])

(***************************************************************************)
(* Creatures, thefts and work.                                             *)
(***************************************************************************)
AttackNpc(u, n, magic) ==
  \E seguro \in BOOLEAN, consulta \in BOOLEAN, arena \in BOOLEAN, lethal \in BOOLEAN :
    /\ n.maestro # u
    /\ PuedeAtacarNPC(user[u], n, seguro, consulta)
    /\ LET paid == GuardPrice(user[u], n, arena)
           owner == IF n.maestro = NoUser THEN user[u] ELSE user[n.maestro]
           blamed == IF magic THEN NPCAtacado(paid, owner, n, u, arena) ELSE paid
       IN Set1(u, IF lethal THEN MuereNpc(blamed, n) ELSE blamed)

\* DoRobar, as far as conduct goes: it asks nothing of places or of the safety.
DoRobar(u, v) ==
  /\ u # v /\ ~user[u].muerto /\ ~user[v].muerto
  /\ \E arena \in BOOLEAN :
       LET thief == IF ~criminal(user[u]) /\ ~criminal(user[v])
                    THEN VolverCriminal(user[u], arena) ELSE user[u]
       IN Set1(u, IF criminal(thief) THEN [thief EXCEPT !.ladrones = Capped(@ + vlLadron)]
                  ELSE thief)

\* Fishing, mining, cutting, melting and making things.
Work(u) == ~user[u].muerto /\ Set1(u, [user[u] EXCEPT !.plebe = Capped(@ + vlProleta)])

\* What a game master grants.
Pardon(u) == \E arena \in BOOLEAN : Set1(u, VolverCiudadano(user[u], arena))

\* EfectoEstadoAtacable; GameTimer passes over the dead.
AtacableExpires(u) ==
  /\ ~user[u].muerto
  /\ user[u].atacablePor # NoUser
  /\ Set1(u, [user[u] EXCEPT !.atacablePor = NoUser])

(***************************************************************************)
(* The army and the legion.  A neutral guild refuses both.                 *)
(***************************************************************************)
\* (Mutant: the legion takes former soldiers.)
AnyPast(r) == TRUE
NeverRoyal(r) == ~r.sirvioReal

EnlistarArmadaReal(u) ==
  LET r == user[u]
  IN /\ ~r.muerto /\ ~r.armada /\ ~r.caos /\ ~criminal(r)
     /\ r.crimMatados >= MinCrim /\ r.elv >= MinElv /\ r.ciudMatados = 0
     /\ r.reenlistadas <= MaxReenl /\ r.noble >= MinNoble
     /\ LET entered == [r EXCEPT !.armada = TRUE, !.reenlistadas = @ + 1]
        IN Set1(u, IF r.sirvioReal THEN entered
                   ELSE [entered EXCEPT !.sirvioReal = TRUE, !.rangoReal = 0,
                         !.next = RealLadder[1].next])

EnlistarCaos(u) ==
  LET r == user[u]
  IN /\ ~r.muerto /\ criminal(r) /\ ~r.caos /\ ~r.armada /\ NeverRoyal(r)
     /\ r.ciudMatados >= MinCiud /\ r.elv >= MinElv /\ r.reenlistadas <= MaxReenl
     /\ LET entered == [r EXCEPT !.caos = TRUE, !.reenlistadas = @ + 1]
        IN Set1(u, IF r.sirvioCaos THEN entered
                   ELSE [entered EXCEPT !.sirvioCaos = TRUE, !.rangoCaos = 0,
                         !.next = CaosLadder[1].next])

\* The rung whose number of kills is the next reward's; the last one has no reward.
Rung(ladder, next) == {i \in 1..Len(ladder) - 1 : ladder[i].next = next}

\* (Mutant: the next reward is asked the kills of the last one.)
SameRung(ladder, i) == ladder[i].next
NextRung(ladder, i) == ladder[i + 1].next

RecompensaArmadaReal(u) ==
  LET r == user[u]
  IN /\ ~r.muerto /\ r.armada /\ r.crimMatados >= r.next
     /\ \E i \in Rung(RealLadder, r.next) :
          /\ r.elv >= RealLadder[i].elv /\ r.noble >= RealLadder[i].noble
          /\ Set1(u, [r EXCEPT !.rangoReal = i, !.next = NextRung(RealLadder, i)])

RecompensaCaos(u) ==
  LET r == user[u]
  IN /\ ~r.muerto /\ r.caos /\ r.ciudMatados >= r.next
     /\ \E i \in Rung(CaosLadder, r.next) :
          /\ r.elv >= CaosLadder[i].elv
          /\ Set1(u, [r EXCEPT !.rangoCaos = i, !.next = NextRung(CaosLadder, i)])

\* HandleLeaveFaction.
Leave(u) ==
  /\ ~user[u].muerto
  /\ \/ user[u].armada /\ Set1(u, ExpulsarFaccionReal(user[u]))
     \/ ~user[u].armada /\ user[u].caos /\ Set1(u, ExpulsarFaccionCaos(user[u]))

Next ==
  \/ \E a \in Players, v \in Users, site \in Sites, magic \in BOOLEAN : Attack(a, v, site, magic)
  \/ \E m \in Players, v \in Users, site \in Sites : PetKills(m, v, site)
  \/ \E c \in Players, t \in Users, site \in Sites, grave \in BOOLEAN : Support(c, t, site, grave)
  \/ \E c \in Players, t \in Users, site \in Sites : Revive(c, t, site)
  \/ \E u \in Players, v \in Users : DoRobar(u, v)
  \/ \E u \in Players :
       \/ Work(u) \/ EnlistarArmadaReal(u) \/ EnlistarCaos(u) \/ Leave(u)
       \/ RecompensaArmadaReal(u) \/ RecompensaCaos(u) \/ Pardon(u)
  \/ \E u \in Users, n \in Creatures, magic \in BOOLEAN :
       (u \in Players \/ n.maestro \in Players) /\ AttackNpc(u, n, magic)
  \/ \E u \in Users : CreatureKills(u) \/ RevivirUsuario(u) \/ AtacableExpires(u)

Spec == Init /\ [][Next]_user

-----------------------------------------------------------------------------
\* Nobody has served both sides: the army takes nobody that ever killed a
\* citizen, the legion nobody the army ever took, through any number of
\* expulsions, pardons and changes of side.
NeverServedBoth == \A u \in Users : ~(user[u].sirvioReal /\ user[u].sirvioCaos)

\* A member's next reward is the one that follows its rank: NextRecompensa is
\* one field for both ladders, and enlisting again must not restart it.
RankMatchesNext ==
  \A u \in Users :
    /\ user[u].armada => user[u].next = RealLadder[user[u].rangoReal + 1].next
    /\ user[u].caos => user[u].next = CaosLadder[user[u].rangoCaos + 1].next

\* The two ladders and the fields they share.
RanksSound == TypeOK /\ RankMatchesNext

\* Whoever attacks an innocent outside of the fighting zones and not in its own
\* defence is a criminal when the blow is over, and a soldier no more, whatever
\* deeds came before it and even where reputations are at their limits.
CrimeMarks ==
  \A a \in Players, v \in Users, site \in Sites \ {"duel"}, magic, lethal \in BOOLEAN :
    MayAttack(a, v, site) /\ ~criminal(user[v]) /\ ~IsDefence(user[a], user[v], a)
    => LET after == AfterBlow(a, v, site, magic, lethal)
       IN criminal(after) /\ ~after.armada

\* No citizen's death is ever counted to a soldier of the army, in the army's
\* colours or by leaving them with the same blow; only its pets' spells do that,
\* which ask nobody and outlast the defence they began as.
SoldierSpares ==
  [][\A a \in Players :
       user[a].armada /\ user'[a].ciudMatados > user[a].ciudMatados
       => \E v \in Users, site \in Sites : PetKills(a, v, site)]_user

\* Who strikes back at somebody that took its creature loses nothing by it, not
\* even if the other dies: same reputations, no kill counted, same army.
DefenceIsFree ==
  \A a \in Players, v \in Users, site \in Sites \ {"duel"}, magic, lethal \in BOOLEAN :
    MayAttack(a, v, site) /\ IsDefence(user[a], user[v], a)
    => AfterBlow(a, v, site, magic, lethal) = user[a]

\* The royal army has no criminals (docs/audit/15b-facciones-detalle.md:65).
CrownIsClean == \A u \in Users : user[u].armada => ~criminal(user[u])
=============================================================================
