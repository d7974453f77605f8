------------------------------- MODULE Vitals -------------------------------
(***************************************************************************)
(* The condition of one user: life, mana, stamina, and what spells, blows  *)
(* and timers do to it (modHechizos.cpp, SistemaCombate.cpp, the status    *)
(* functions of Modulo_UsUaRiOs.cpp, hiding and meditation of Trabajo.cpp).*)
(* A handler touches the condition of at most two users, and each only     *)
(* through guards that are about places, reputations and intervals: the    *)
(* other side is an input here, so one user stands for every user.         *)
(* Reputation is in Conduct, creatures are in Combat.                      *)
(***************************************************************************)
EXTENDS Integers

CONSTANTS
  MaxHp, MaxMan, MaxSta,
  Mana,                \* mana a spell asks for
  MaxDamage,           \* bound of the damage of one blow, and of one healing
  IntervaloParalizado, \* ticks of paralysis and of stupidity
  IntervaloInvisible,  \* ticks of invisibility, and of a creature's stupidity
  IntervaloOculto,     \* bound of the ticks of hiding
  Jitter               \* the counter of invisibility restarts in -Jitter..Jitter (100)

ASSUME VitalsAssumption ==
  /\ {MaxHp, MaxMan, MaxSta, MaxDamage, IntervaloParalizado, IntervaloOculto} \subseteq Nat \ {0}
  /\ Mana \in 1..MaxMan /\ Jitter \in Nat
  /\ IntervaloInvisible \in Nat /\ IntervaloInvisible > Jitter

VARIABLE body  \* the condition of the user

Longest == IF IntervaloParalizado > IntervaloInvisible THEN IntervaloParalizado
           ELSE IntervaloInvisible

\* enchanted is the observer's: a spell of invisibility has not run out yet.
Condition ==
  [hp : 0..MaxHp, mana : 0..MaxMan, sta : 0..MaxSta, muerto : BOOLEAN,
   envenenado : BOOLEAN, paralizado : BOOLEAN, inmovilizado : BOOLEAN,
   paralisis : 0..IntervaloParalizado, estupidez : BOOLEAN, ceguera : BOOLEAN,
   cegu : 0..Longest, invisible : BOOLEAN, oculto : BOOLEAN,
   tiempoOculto : 0..IntervaloOculto, invisibilidad : -Jitter..IntervaloInvisible,
   meditando : BOOLEAN, enchanted : BOOLEAN]

\* No handler leaves a value beyond its limits, negative life and mana among
\* them: a creature's blow and a poisoning take more than what is left.
VitalsTypeOK == body \in Condition

VitalsInit ==
  body = [hp |-> MaxHp, mana |-> MaxMan, sta |-> MaxSta, muerto |-> FALSE,
          envenenado |-> FALSE, paralizado |-> FALSE, inmovilizado |-> FALSE, paralisis |-> 0,
          estupidez |-> FALSE, ceguera |-> FALSE, cegu |-> 0, invisible |-> FALSE,
          oculto |-> FALSE, tiempoOculto |-> 0, invisibilidad |-> 0, meditando |-> FALSE,
          enchanted |-> FALSE]

Least(a, b) == IF a < b THEN a ELSE b
Remaining(n) == IF n < 0 THEN 0 ELSE n

(***************************************************************************)
(* Death, resurrection and visibility.                                     *)
(***************************************************************************)
\* SetInvisible also writes the flag, which in the original it only showed.
SetInvisible(r, b) == [r EXCEPT !.invisible = b]

\* (Mutant: death leaves the dead in hiding.)
StaysHidden(r) == r
Unveiled(r) ==
  IF r.invisible \/ r.oculto
  THEN [SetInvisible(r, FALSE) EXCEPT !.oculto = FALSE, !.tiempoOculto = 0,
        !.invisibilidad = 0, !.enchanted = FALSE]
  ELSE r

\* UserDie: Inmovilizado, Ceguera and the counters stay as they are.
UserDie(r) ==
  Unveiled([r EXCEPT !.hp = 0, !.sta = 0, !.muerto = TRUE, !.envenenado = FALSE,
            !.paralizado = FALSE, !.estupidez = FALSE, !.meditando = FALSE])

\* (Mutant: nobody looks at the life that is left.)
Unnoticed(r) == r
\* Every handler that takes life ends so.
Mortal(r) == IF r.hp <= 0 THEN UserDie(r) ELSE r

Wounded(r, damage) == Mortal([r EXCEPT !.hp = @ - damage])
Healed(r, n) == [r EXCEPT !.hp = Least(@ + n, MaxHp)]

\* RefreshCharStatus, which VolverCriminal and whatever else changes a user's
\* standing call: it also frees the user.
RefreshCharStatus(r) == [r EXCEPT !.paralizado = FALSE, !.estupidez = FALSE]

\* DecirPalabrasMagicas: magic words reveal who hides.
DecirPalabrasMagicas(r) ==
  IF ~r.oculto THEN r ELSE [r EXCEPT !.oculto = FALSE, !.tiempoOculto = 0]

(***************************************************************************)
(* What other users and creatures do.  PuedeAtacar refuses the dead.       *)
(***************************************************************************)
Kinds == {"heal", "poison", "cure", "paralyse", "immobilise", "free", "blind", "stupefy",
          "clearMind", "invisibility", "restore", "drain"}

NotYet(r) == ~r.paralizado

Paralysed(r, stuck) ==
  IF ~NotYet(r) THEN r
  ELSE [r EXCEPT !.paralizado = TRUE, !.paralisis = IntervaloParalizado,
        !.inmovilizado = @ \/ stuck]

Stupefied(r, ticks) ==
  IF r.estupidez THEN r ELSE [r EXCEPT !.estupidez = TRUE, !.cegu = ticks]

\* (Mutant: each spell of invisibility lasts its full time.)
FromNow(r) == [r EXCEPT !.invisibilidad = -Jitter]
FromBefore(r) == r

\* HechizoEstadoUsuario and HechizoPropUsuario on a user that lives, without
\* wounds; a user with the ring of immunity is left as it was.
Struck(r, kind) ==
  CASE kind = "heal" -> Healed(r, MaxDamage)
    [] kind = "poison" -> [r EXCEPT !.envenenado = TRUE]
    [] kind = "cure" -> [r EXCEPT !.envenenado = FALSE]
    [] kind = "paralyse" -> Paralysed(r, FALSE)
    [] kind = "immobilise" -> Paralysed(r, TRUE)
    [] kind = "free" -> IF r.paralizado
                        THEN [r EXCEPT !.paralizado = FALSE, !.inmovilizado = FALSE] ELSE r
    [] kind = "blind" -> [r EXCEPT !.ceguera = TRUE, !.cegu = IntervaloParalizado \div 3]
    [] kind = "stupefy" -> Stupefied(r, IntervaloParalizado)
    [] kind = "clearMind" -> [r EXCEPT !.estupidez = FALSE]
    [] kind = "invisibility" -> [SetInvisible(FromBefore(r), TRUE) EXCEPT !.enchanted = TRUE]
    [] kind = "restore" -> [r EXCEPT !.mana = Least(@ + 1, MaxMan), !.sta = Least(@ + 1, MaxSta)]
    [] OTHER -> [r EXCEPT !.mana = Remaining(@ - 1), !.sta = Remaining(@ - 1)]

\* Spells that may be cast on oneself.
Kind == {"heal", "cure", "free", "clearMind", "invisibility"}

\* Another user's spell.
Enchanted(kind) == ~body.muerto /\ body' = Struck(body, kind)

\* Another user's blow or spell of damage (UserDañoUser, HechizoPropUsuario):
\* armour may take all of it, and the blade may be poisoned.
UserDano ==
  /\ ~body.muerto
  /\ \E damage \in 0..MaxDamage, venom \in BOOLEAN :
       body' = Wounded([body EXCEPT !.envenenado = @ \/ venom], damage)

\* A creature's blow hurts by one at least, and ends a meditation.
NpcDanoUser ==
  /\ ~body.muerto
  /\ \E damage \in 1..MaxDamage : body' = Wounded([body EXCEPT !.meditando = FALSE], damage)

\* What a creature's spell does to life (SubeHP: 1 heals, 2 wounds), and the
\* conditions it brings: a spell may do all of it at once.
Spells == [SubeHP : 0..2, Paraliza : BOOLEAN, Inmoviliza : BOOLEAN, Estupidez : BOOLEAN]

Cursed(r, sp) ==
  LET held == IF sp.Paraliza \/ sp.Inmoviliza THEN Paralysed(r, sp.Inmoviliza) ELSE r
  IN IF sp.Estupidez THEN Stupefied(held, IntervaloInvisible) ELSE held

\* Creatures do not see who hides, and look for users that live; the spell does
\* not look again whether its wound has killed before it curses.  The ring of
\* immunity refuses the conditions, not the wound.
NpcLanzaSpellSobreUser(sp) ==
  /\ ~body.muerto /\ ~body.invisible /\ ~body.oculto
  /\ \E n \in 0..MaxDamage, ring \in BOOLEAN :
       LET struck == CASE sp.SubeHP = 1 -> Healed(body, n)
                       [] sp.SubeHP = 2 -> Wounded(body, n)
                       [] OTHER -> body
       IN body' = IF ring THEN struck ELSE Cursed(struck, sp)

\* MagoDestruyeWand: the praetorian mage breaks its wand; whoever is near and has
\* less life than that takes is left without any, and nobody calls UserDie.
MagoDestruyeWand ==
  ~body.muerto /\ \E damage \in 1..MaxDamage : body' = [body EXCEPT !.hp = Remaining(@ - damage)]

\* RevivirUsuario: a priest's; by a user's spell mana and stamina are lost.
Resurrect ==
  /\ body.muerto
  /\ \E spell \in BOOLEAN :
       body' = [body EXCEPT !.muerto = FALSE, !.hp = 1, !.mana = IF spell THEN 0 ELSE @,
                !.sta = IF spell THEN 0 ELSE @]

(***************************************************************************)
(* What the user does.                                                     *)
(***************************************************************************)
\* The guards of HandleWorkLeftClick and PuedeLanzar.
PuedeLanzar(r) == ~r.muerto /\ ~r.meditando /\ r.mana >= Mana /\ r.sta >= 1

\* HandleHechizoUsuario and its siblings.
Paid(r) == [r EXCEPT !.mana = Remaining(@ - Mana), !.sta = Remaining(@ - 1)]

\* A spell on oneself.  CanSupportUser allows it.
CastOnSelf(kind) ==
  /\ PuedeLanzar(body)
  /\ kind = "free" => body.paralizado
  /\ kind = "clearMind" => body.estupidez
  /\ body' = Paid(Struck(DecirPalabrasMagicas(body), kind))

\* A spell on somebody else.  It may change the caster's standing.
CastAway ==
  /\ PuedeLanzar(body)
  /\ \E turned \in BOOLEAN :
       body' = Paid(DecirPalabrasMagicas(IF turned THEN RefreshCharStatus(body) ELSE body))

\* A resurrection takes part of the caster's life, or all of it; who dies of it
\* pays no mana, and the other lives all the same.
CastRevive ==
  /\ PuedeLanzar(body) /\ body.sta = MaxSta
  /\ \E turned \in BOOLEAN, left \in 0..body.hp :
       LET spent == [DecirPalabrasMagicas(IF turned THEN RefreshCharStatus(body) ELSE body)
                     EXCEPT !.hp = left]
       IN body' = IF left = 0 THEN UserDie(spent) ELSE Paid(spent)

\* HandleAttack and UsuarioAtaca: without stamina there is no blow, but who
\* hides is seen all the same.
HandleAttack ==
  /\ ~body.muerto /\ ~body.meditando
  /\ \E turned \in BOOLEAN, tired \in 1..MaxSta :
       LET struck == IF body.sta = 0 THEN body
                     ELSE [(IF turned THEN RefreshCharStatus(body) ELSE body)
                           EXCEPT !.sta = Remaining(@ - tired)]
       IN body' = DecirPalabrasMagicas(struck)

\* DoOcultarse, when it succeeds; HandleWork refuses who already hides.
DoOcultarse ==
  /\ ~body.muerto /\ ~body.oculto
  /\ \E ticks \in 0..IntervaloOculto :
       body' = [SetInvisible(body, TRUE) EXCEPT !.oculto = TRUE, !.tiempoOculto = ticks]

\* UseInvItem with the potion of type 6: dead at once, without UserDie.  What other
\* potions do, the spells above do too.
DrinkPoison == ~body.muerto /\ body' = [body EXCEPT !.muerto = TRUE, !.hp = 0]

\* Only players meditate: a game master gets its mana at once.
HandleMeditate ==
  /\ ~body.muerto
  /\ \/ body' = [body EXCEPT !.meditando = ~@]
     \/ body' = [body EXCEPT !.mana = MaxMan]

\* HandleWalk, as far as the condition goes.  Thieves and bandits walk hidden.
HandleWalk ==
  \E stealthy \in BOOLEAN :
    LET stopped == IF body.paralizado THEN body ELSE [body EXCEPT !.meditando = FALSE]
    IN body' = IF stealthy THEN stopped ELSE DecirPalabrasMagicas(stopped)

(***************************************************************************)
(* Timers: GameTimer of the original (frmMain.frm), every 40 ms for every  *)
(* user.  What lava and cold take, blows take too.                         *)
(***************************************************************************)
DoMeditar ==
  /\ ~body.muerto /\ body.meditando
  /\ body' = IF body.mana >= MaxMan THEN [body EXCEPT !.meditando = FALSE]
             ELSE [body EXCEPT !.mana = @ + 1]

\* DoPermanecerOculto, but for the hunters whose armour hides them for ever.
Emerges(r) ==
  LET shown == [r EXCEPT !.oculto = FALSE, !.tiempoOculto = 0]
  IN IF shown.invisible THEN shown ELSE SetInvisible(shown, FALSE)

DoPermanecerOculto ==
  /\ ~body.muerto /\ body.oculto
  /\ body' = IF body.tiempoOculto <= 1 THEN Emerges(body)
             ELSE [body EXCEPT !.tiempoOculto = @ - 1]

EfectoInvisibilidad ==
  /\ ~body.muerto /\ body.invisible
  /\ IF body.invisibilidad < IntervaloInvisible
     THEN body' = [body EXCEPT !.invisibilidad = @ + 1]
     ELSE \E n \in -Jitter..Jitter :
            body' = [SetInvisible(body, FALSE) EXCEPT !.invisibilidad = n, !.enchanted = FALSE]

EfectoParalisisUser ==
  /\ body.paralizado
  /\ body' = IF body.paralisis > 0 THEN [body EXCEPT !.paralisis = @ - 1]
             ELSE [body EXCEPT !.paralizado = FALSE, !.inmovilizado = FALSE]

EfectoCegueEstu ==
  /\ body.ceguera \/ body.estupidez
  /\ body' = IF body.cegu > 0 THEN [body EXCEPT !.cegu = @ - 1]
             ELSE [body EXCEPT !.ceguera = FALSE, !.estupidez = FALSE]

EfectoVeneno ==
  /\ ~body.muerto /\ body.envenenado
  /\ \E damage \in 1..MaxDamage : body' = Wounded(body, damage)

\* Sanar and RecStamina.
Recover ==
  /\ ~body.muerto
  /\ \/ body' = Healed(body, 1)
     \/ body' = [body EXCEPT !.sta = Least(@ + 1, MaxSta)]

VitalsNext ==
  \/ \E kind \in Kinds : Enchanted(kind)
  \/ UserDano \/ NpcDanoUser \/ MagoDestruyeWand \/ Resurrect
  \/ \E sp \in Spells : NpcLanzaSpellSobreUser(sp)
  \/ \E kind \in Kind : CastOnSelf(kind)
  \/ CastAway \/ CastRevive \/ HandleAttack \/ DoOcultarse \/ DrinkPoison
  \/ HandleMeditate \/ HandleWalk
  \/ DoMeditar \/ DoPermanecerOculto \/ EfectoInvisibilidad \/ EfectoParalisisUser
  \/ EfectoCegueEstu \/ EfectoVeneno \/ Recover

\* The timer goes over every user for as long as the server runs.
VitalsSpec ==
  /\ VitalsInit /\ [][VitalsNext]_body
  /\ WF_body(DoPermanecerOculto) /\ WF_body(EfectoInvisibilidad) /\ WF_body(EfectoParalisisUser)

-----------------------------------------------------------------------------
Freed(r) ==
  ~r.invisible /\ ~r.oculto /\ ~r.paralizado /\ ~r.estupidez /\ ~r.envenenado /\ ~r.meditando

\* The dead have no life and the living have some, after every handler and
\* timer: only the wand of the praetorian mage leaves a user alive with nothing.
AliveHasLife ==
  [][/\ body'.muerto => body'.hp = 0
     /\ body'.hp = 0 /\ ~body'.muerto => MagoDestruyeWand \/ (body.hp = 0 /\ ~body.muerto)]_body

\* One spell of a creature kills and then curses the dead.  No spell of
\* Hechizos.dat brings a condition with its wound.
KillsAndBinds ==
  /\ ~body.muerto /\ body'.muerto
  /\ \E sp \in Spells : /\ sp.SubeHP = 2 /\ (sp.Paraliza \/ sp.Inmoviliza \/ sp.Estupidez)
                        /\ NpcLanzaSpellSobreUser(sp)

\* The dead are seen, move and are done with what they were doing, whatever
\* condition death met them in and whatever is cast at them afterwards; only a
\* death by potion leaves them as they were, and a spell that binds whom it has
\* just killed.
DeadAreFreed ==
  [][body'.muerto /\ ~Freed(body') =>
       DrinkPoison \/ KillsAndBinds \/ (body.muerto /\ ~Freed(body))]_body

\* Death comes with the end of life, and is the end of all the rest.
DeathIsWhole == AliveHasLife /\ DeadAreFreed

\* A paralysis comes to an end, however many spells of paralysis follow it, and
\* death by potion does not keep it: only one killed again and again by spells
\* that bind too could stay paralysed through each death.
ParalysisEnds ==
  (body.paralizado ~> ~body.paralizado) \/ []<><<KillsAndBinds>>_body

\* A spell of invisibility comes to an end, however often it is cast anew.
InvisibilityEnds == body.invisible ~> ~body.invisible \/ body.muerto

\* Nobody that lives hides for ever.
HidingEnds == body.oculto ~> ~body.oculto \/ body.muerto

\* Every one of these conditions ends by itself.
StatesEnd == ParalysisEnds /\ InvisibilityEnds /\ HidingEnds

\* Magic words, blows and the end of hiding show who hid; only a spell keeps a
\* user from being seen (docs/implementation/23-modhechizos-breakdown.md:205).
HidersAreRevealed == body.invisible => body.oculto \/ body.enchanted
=============================================================================
