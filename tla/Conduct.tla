------------------------------ MODULE Conduct ------------------------------
(***************************************************************************)
(* Reputation, criminality and who may attack or help whom: the functions  *)
(* of SistemaCombate.cpp, Modulo_UsUaRiOs.cpp, modHechizos.cpp and         *)
(* MODULO_NPCs.cpp that read and write a user's Reputacion, Faccion and    *)
(* AtacablePor, as operators on records of a user.                         *)
(*                                                                         *)
(* A user is a record with at least the fields muerto, asesino, bandido,   *)
(* ladrones, noble, plebe (BurguesRep is only ever set to zero), armada,   *)
(* caos, rangoReal, rangoCaos, crimMatados, ciudMatados, lastCrim,         *)
(* lastCiud, reenlistadas, sirvioReal, sirvioCaos, elv and atacablePor.    *)
(* Users are plain players: the privileges of game masters are left out.   *)
(***************************************************************************)
EXTENDS Integers

CONSTANTS
  MAXREP,         \* limit of each reputation (6,000,000)
  vlASALTO,       \* 100
  vlASESINO,      \* 1000
  vlNoble,        \* 5
  vlCAZADOR,      \* 5
  vlLadron,       \* 25
  vlProleta,      \* 2
  Parts,          \* reputations the average of criminal is taken of (6)
  SpellBandit,    \* BandidoRep for helping a criminal by magic (10,000)
  SpellNoble,     \* NobleRep for a resurrection (500)
  GuardMurder,    \* AsesinoRep for killing a city guard (500)
  MAXUSERMATADOS, \* limit of the counters of kills (65,000)
  LimiteNewbie    \* highest level of a newbie

\* criminal() needs a sum of -Parts or less; one assault is enough for it.
ASSUME ConductAssumption ==
  /\ {MAXREP, vlASALTO, vlASESINO, vlNoble, vlCAZADOR, vlLadron, vlProleta,
      Parts, SpellBandit, SpellNoble, GuardMurder, MAXUSERMATADOS} \subseteq Nat \ {0}
  /\ Parts <= vlASALTO /\ vlASALTO <= MAXREP /\ LimiteNewbie \in Nat

NoUser == 0

\* Where two users are, as the guards tell it apart: both in a fighting zone
\* (trigger ZONAPELEA), only the first or only the second in one, and outside
\* of them a map of combat, a safe tile in it, a safe map, or one of the safe
\* maps in which high ranks of the army or of the legion may attack.
Sites == {"duel", "edgeFirst", "edgeSecond", "open", "refuge", "safe", "royal", "legion"}

FirstInArena(site) == site \in {"duel", "edgeFirst"}
SecondInArena(site) == site \in {"duel", "edgeSecond"}

\* TriggerZonaPelea.
TriggerZonaPelea(site) ==
  CASE site = "duel" -> "PERMITE"
    [] site \in {"edgeFirst", "edgeSecond"} -> "PROHIBE"
    [] OTHER -> "AUSENTE"

Capped(n) == IF n > MAXREP THEN MAXREP ELSE n
NotBelowZero(n) == IF n < 0 THEN 0 ELSE n
Counted(n) == IF n < MAXUSERMATADOS THEN n + 1 ELSE n

\* The average is truncated towards zero, so a small deficit is no crime.
criminal(r) == r.noble + r.plebe - r.asesino - r.bandido - r.ladrones <= -Parts

ExpulsarFaccionReal(r) == [r EXCEPT !.armada = FALSE]
ExpulsarFaccionCaos(r) == [r EXCEPT !.caos = FALSE]

\* VolverCriminal, without its call of RefreshCharStatus.
VolverCriminal(r, arena) ==
  IF arena THEN r
  ELSE [ExpulsarFaccionReal(r) EXCEPT !.noble = 0, !.plebe = 0,
        !.bandido = Capped(@ + vlASALTO), !.atacablePor = NoUser]

\* VolverCiudadano.
VolverCiudadano(r, arena) ==
  IF arena THEN r
  ELSE [ExpulsarFaccionCaos(r) EXCEPT !.ladrones = 0, !.bandido = 0, !.asesino = 0,
        !.plebe = Capped(@ + vlASALTO)]

\* DisNobAuBan, as CanSupportUser calls it: half of the nobility is lost.
DisNobAuBan(r, arena) ==
  IF arena THEN r
  ELSE LET fallen == [r EXCEPT !.noble = @ - @ \div 2, !.bandido = Capped(@ + SpellBandit)]
       IN IF criminal(fallen) THEN ExpulsarFaccionReal(fallen) ELSE fallen

\* AtacablePor makes of the victim somebody the attacker may defend itself from.
IsDefence(a, v, attacker) ==
  ~criminal(a) /\ ~criminal(v) /\ v.atacablePor = attacker

\* (Mutant: soldiers of the army may attack citizens with the safety off.)
SparesNobody(a, v) == FALSE
\* What a soldier of the army may not do, with the safety on or off.
SoldierMustSpare(a, v) == ~criminal(v) /\ a.armada

(***************************************************************************)
(* PuedeAtacar.  seguro is the attacker's safety, consulta whether one of  *)
(* the two is in a consultation; victims invisible as administrators are   *)
(* left out with the other privileges.                                     *)
(***************************************************************************)
PuedeAtacar(a, v, attacker, site, seguro, consulta) ==
  /\ ~a.muerto /\ ~v.muerto /\ ~consulta
  /\ \/ TriggerZonaPelea(site) = "PERMITE"
     \/ /\ TriggerZonaPelea(site) = "AUSENTE"
        /\ ~(~criminal(v) /\ ~criminal(a) /\ a.armada /\ v.armada)
        /\ ~(criminal(v) /\ v.caos /\ a.caos)
        /\ \/ IsDefence(a, v, attacker)
           \/ /\ ~(seguro /\ ~criminal(v))
              /\ ~SoldierMustSpare(a, v)
              /\ \/ site = "open"
                 \/ site = "royal" /\ a.armada /\ a.rangoReal > 11
                 \/ site = "legion" /\ a.caos /\ a.rangoCaos > 11

(***************************************************************************)
(* UsuarioAtacadoPorUsuario: what an attack costs the attacker.            *)
(***************************************************************************)
\* (Mutant: an attack on a citizen costs the attacker no more than points.)
OnlyPoints(a, v, defence, arena) == a
BecomesCriminal(a, v, defence, arena) ==
  IF ~criminal(a) /\ ~criminal(v) /\ ~defence THEN VolverCriminal(a, arena) ELSE a

UsuarioAtacadoPorUsuario(a, v, attacker, site) ==
  LET defence == IsDefence(a, v, attacker)
      turned == BecomesCriminal(a, v, defence, FirstInArena(site))
  IN IF TriggerZonaPelea(site) = "PERMITE" THEN a
     ELSE IF defence THEN turned
     ELSE IF criminal(v) THEN [turned EXCEPT !.noble = Capped(@ + vlNoble)]
     ELSE [turned EXCEPT !.bandido = Capped(@ + vlASALTO), !.noble = @ \div 2]

(***************************************************************************)
(* ContarMuerte counts a kill, and ActStats pays for it (its experience is *)
(* left out): in C++ only deaths by magic call ActStats.                   *)
(***************************************************************************)
\* (Mutant: a death in self-defence is counted as any other.)
Unjustified(v, attacker) == TRUE
Unprovoked(v, attacker) == v.atacablePor # attacker

ContarMuerte(a, v, attacker, victim, site) ==
  IF v.elv <= LimiteNewbie \/ SecondInArena(site) \/ ~Unprovoked(v, attacker) THEN a
  ELSE IF criminal(v)
  THEN [a EXCEPT !.lastCrim = victim,
        !.crimMatados = IF a.lastCrim # victim THEN Counted(@) ELSE @,
        !.reenlistadas = IF a.sirvioCaos /\ v.caos THEN 200 ELSE @]
  ELSE [a EXCEPT !.lastCiud = victim,
        !.ciudMatados = IF a.lastCiud # victim THEN Counted(@) ELSE @]

ActStats(a, v, attacker) ==
  IF ~Unprovoked(v, attacker) THEN a
  ELSE IF criminal(v) THEN [a EXCEPT !.noble = Capped(@ + vlASESINO \div 2)]
  ELSE [a EXCEPT !.asesino = Capped(@ + 2 * vlASESINO), !.noble = 0, !.plebe = 0]

\* UserDie, as far as conduct goes.
Dies(v) == [v EXCEPT !.muerto = TRUE, !.atacablePor = NoUser]

\* RestarCriminalidad: a guard's justice.
RestarCriminalidad(r) ==
  IF r.bandido > 0 THEN [r EXCEPT !.bandido = NotBelowZero(@ - vlASALTO)]
  ELSE [r EXCEPT !.ladrones = NotBelowZero(@ - 10 * vlCAZADOR)]

\* ToogleToAtackable: u attacked what belongs to owner.
ToogleToAtackable(r, o, user, owner) ==
  IF user # owner /\ ~criminal(r) /\ ~criminal(o) THEN [r EXCEPT !.atacablePor = owner] ELSE r

(***************************************************************************)
(* CanSupportUser: whether a user may help another by magic, and what it   *)
(* costs.  grave is its parameter DoCriminal.                              *)
(***************************************************************************)
HelpsCriminal(c, t) == criminal(t) /\ ~criminal(c)
HelpsAttackable(c, t, caster) ==
  ~criminal(t) /\ ~criminal(c) /\ t.atacablePor \notin {NoUser, caster}

CanSupportUser(c, t, caster, site, seguro, consulta) ==
  /\ ~consulta
  /\ \/ TriggerZonaPelea(site) = "PERMITE"
     \/ /\ HelpsCriminal(c, t) \/ HelpsAttackable(c, t, caster) => ~c.armada /\ ~seguro
        /\ ~criminal(t) => ~c.caos

SupportCost(c, t, caster, site, grave) ==
  IF TriggerZonaPelea(site) = "PERMITE" THEN c
  ELSE IF HelpsCriminal(c, t) /\ grave THEN VolverCriminal(c, FirstInArena(site))
  ELSE IF HelpsCriminal(c, t) \/ HelpsAttackable(c, t, caster)
       THEN DisNobAuBan(c, FirstInArena(site))
  ELSE c

(***************************************************************************)
(* Creatures.  A creature is a record: tipo, hostil, faccion (0 none, 1    *)
(* the army's, 2 the legion's), alineacion, guardia (the city guard's      *)
(* number) and maestro, the user whose pet it is.                          *)
(***************************************************************************)
IsGuard(n, tipo) == ~n.hostil /\ n.tipo = tipo

\* PuedeAtacarNPC: its guards, and its price in a second operator.  Creatures
\* that are not attackable and distances are left out.
PuedeAtacarNPC(r, n, seguro, consulta) ==
  /\ ~r.muerto /\ ~consulta
  /\ IsGuard(n, "GuardiasCaos") => ~r.caos
  /\ IsGuard(n, "GuardiaReal") => ~r.armada /\ ~seguro

GuardPrice(r, n, arena) ==
  IF IsGuard(n, "GuardiaReal") THEN VolverCriminal(r, arena) ELSE r

\* NPCAtacado, which in C++ only spells call.
NPCAtacado(r, o, n, user, arena) ==
  LET toggled == IF n.maestro # NoUser THEN ToogleToAtackable(r, o, user, n.maestro) ELSE r
  IN IF n.faccion = 1 /\ toggled.armada THEN VolverCriminal(ExpulsarFaccionReal(toggled), arena)
     ELSE IF n.faccion = 2 /\ toggled.caos THEN VolverCriminal(ExpulsarFaccionCaos(toggled), arena)
     ELSE toggled

\* The reputation of who kills a creature (MuereNpc), and its expulsion.
ByAlignment(r, n) ==
  CASE n.alineacion = 0 ->
         LET g == IF n.guardia
                  THEN [r EXCEPT !.noble = 0, !.plebe = 0, !.asesino = Capped(@ + GuardMurder)]
                  ELSE r
         IN IF n.maestro = NoUser THEN [g EXCEPT !.asesino = Capped(@ + vlASESINO)] ELSE g
    [] n.alineacion = 2 -> [r EXCEPT !.noble = Capped(@ + vlASESINO \div 2)]
    [] n.alineacion \in {1, 4} -> [r EXCEPT !.plebe = Capped(@ + vlCAZADOR)]
    [] OTHER -> r

MuereNpc(r, n) ==
  LET judged == ByAlignment(r, n)
  IN [judged EXCEPT !.armada = @ /\ ~criminal(judged), !.caos = @ /\ criminal(judged)]
=============================================================================
