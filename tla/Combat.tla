------------------------------- MODULE Combat -------------------------------
(***************************************************************************)
(* Creatures, their minds and their experience (AI_NPC.cpp, the creature   *)
(* parts of SistemaCombate.cpp and modHechizos.cpp, MuereNpc and FollowAmo *)
(* of MODULO_NPCs.cpp).  Where anybody stands, who sees whom, reputations  *)
(* (Conduct), ladders of life (Vitals) and chance are inputs: a call is an *)
(* operator that gives the set of states it may leave, and the calls a     *)
(* handler makes one after the other are composed by AfterEach.            *)
(*                                                                         *)
(* Nothing in the server calls CheckPets, nor NpcAtacaNpc so that the      *)
(* victim answers, nor ApropioNpc: no creature ever has a TargetNPC, an    *)
(* Owner or the movement NpcAtacaNpc, and these are not here.              *)
(***************************************************************************)
EXTENDS Integers, FiniteSets

CONSTANTS
  User, Npc,            \* NoOne is neither; places of Npclist
  NoOne,
  FirstKinds,           \* the creatures a map may start with: a kind for each place
  Domable,              \* the kinds that may be tamed
  MaxHp, GiveEXP,       \* of each kind
  MaxDamage,            \* bound of one blow, one spell and one healing
  IntervaloParalizado

Kinds == {"beast", "deer", "guard"}

ASSUME CombatAssumption ==
  /\ IsFiniteSet(Npc) /\ Npc = 1..Cardinality(Npc) /\ NoOne \notin User
  /\ FirstKinds \subseteq [Npc -> Kinds] /\ FirstKinds # {} /\ Domable \subseteq Kinds \ {"guard"}
  /\ MaxHp \in [Kinds -> Nat \ {0}] /\ GiveEXP \in [Kinds -> Nat]
  /\ MaxDamage \in Nat \ {0} /\ IntervaloParalizado \in Nat

\* What NPCs.dat says of a kind: a beast is hostile, evil and casts spells; a
\* guard casts spells as it marches.
Hostile(kind) == kind = "beast"
LanzaSpells(kind) == kind \in {"beast", "guard"}

VARIABLES
  user,   \* what a user is in combat
  npc,    \* Npclist
  short   \* observer: experience the last creature a user killed did not pay

vars == <<user, npc, short>>

Movements == {"own", "NPCDEFENSA", "SigueAmo"}

\* deaths is the observer's: times UserDie ran in this life.  pets is what
\* MascotasIndex holds, dead creatures included.
UserType == [muerto : BOOLEAN, deaths : 0..2, pets : SUBSET Npc]

\* paid is the observer's: the experience the creature at n has given.
NpcType ==
  [active : BOOLEAN, kind : Kinds, hp : Int, ExpCount : Int, paid : Int,
   MaestroUser : User \cup {NoOne}, Target : User \cup {NoOne},
   AttackedBy : User \cup {NoOne}, Movement : Movements, Hostile : BOOLEAN,
   CanAttack : BOOLEAN, Paralizado : BOOLEAN, Inmovilizado : BOOLEAN,
   Paralisis : 0..IntervaloParalizado]

\* A pet has a place of its master's, nothing is both paralysed and
\* immobilised, and no creature that lives has more life than it may.
TypeOK ==
  /\ user \in [User -> UserType]
  /\ \A n \in Npc :
       /\ npc[n] \in NpcType
       /\ npc[n].hp <= MaxHp[npc[n].kind]
       /\ ~(npc[n].Paralizado /\ npc[n].Inmovilizado)
       /\ npc[n].MaestroUser # NoOne => npc[n].active /\ n \in user[npc[n].MaestroUser].pets

\* What OpenNPC reads of NPCs.dat, in a place where nothing is left.
Fresh(kind) ==
  [active |-> TRUE, kind |-> kind, hp |-> MaxHp[kind], ExpCount |-> GiveEXP[kind], paid |-> 0,
   MaestroUser |-> NoOne, Target |-> NoOne, AttackedBy |-> NoOne, Movement |-> "own",
   Hostile |-> Hostile(kind), CanAttack |-> FALSE, Paralizado |-> FALSE,
   Inmovilizado |-> FALSE, Paralisis |-> 0]

\* OpenNPC in the place where c was.  What was written there after QuitarNPC
\* emptied it, by who still has the place in MascotasIndex, is the newborn's.
OpenNPC(c, kind) ==
  [Fresh(kind) EXCEPT !.Target = c.Target, !.AttackedBy = c.AttackedBy, !.CanAttack = c.CanAttack]

\* QuitarNPC; the kind stays for whoever brings the creature back.
Gone(kind) == [Fresh(kind) EXCEPT !.active = FALSE]

Init ==
  /\ user = [u \in User |-> [muerto |-> FALSE, deaths |-> 0, pets |-> {}]]
  /\ \E first \in FirstKinds : npc = [n \in Npc |-> Fresh(first[n])]
  /\ short = 0

\* The handlers work on one record of the three.
Now == [user |-> user, npc |-> npc, short |-> short]
Becomes(states) == \E s \in states : user' = s.user /\ npc' = s.npc /\ short' = s.short

AfterEach(states, Call(_)) == UNION {Call(s) : s \in states}

Least(a, b) == IF a < b THEN a ELSE b

\* Living creatures, and the users they may turn on.
Active(s) == {n \in Npc : s.npc[n].active}
Alive(s) == {u \in User : ~s.user[u].muerto}

(***************************************************************************)
(* Experience.                                                             *)
(***************************************************************************)
\* (Mutant: a creature healed in between pays for all of its wounds.)
Uncapped(exp, left) == exp
\* CalcularDarExp never pays more than ExpCount.
Payable(exp, left) == Least(exp, left)

\* CalcularDarExp: the share of GiveEXP that the damage is of the life left.
\* A double is floored; damage is never negative here.
CalcularDarExp(s, n, damage) ==
  LET c == s.npc[n]
      exp == (Least(damage, c.hp) * GiveEXP[c.kind]) \div MaxHp[c.kind]
      pay == Payable(exp, c.ExpCount)
  IN IF damage <= 0 \/ exp <= 0 THEN s
     ELSE [s EXCEPT !.npc[n].ExpCount = @ - pay, !.npc[n].paid = @ + pay]

\* (Mutant: who kills gets the whole experience of the creature.)
Whole(c) == GiveEXP[c.kind]
\* The killer gets what is left of ExpCount.
Rest(c) == c.ExpCount

\* QuitarNPC, as combat sees it: the master's MascotasIndex keeps the place.
QuitarNPC(s, n) == [s EXCEPT !.npc[n] = Gone(s.npc[n].kind)]

\* ReSpawnNpc takes the first free place.
ReSpawnNpc(s, kind) ==
  LET free == Npc \ Active(s)
      n == CHOOSE x \in free : \A y \in free : x <= y
  IN IF free = {} THEN s ELSE [s EXCEPT !.npc[n] = OpenNPC(s.npc[n], kind)]

\* MuereNpc, with killer NoOne when a wild creature kills.
MuereNpc(s, n, killer) ==
  LET c == s.npc[n]
      buried == QuitarNPC(s, n)
      settled == IF killer = NoOne THEN buried
                 ELSE [buried EXCEPT !.short = GiveEXP[c.kind] - c.paid - Rest(c)]
  IN IF c.MaestroUser = NoOne THEN ReSpawnNpc(settled, c.kind) ELSE settled

(***************************************************************************)
(* Users strike creatures.                                                 *)
(***************************************************************************)
Hit(s, n, damage) == [s EXCEPT !.npc[n].hp = @ - damage]

\* DoApuñalar, DoGolpeCritico or DoAcuchillar: whatever life it leaves, nobody
\* looks at it.
Blow(s, n) == {s} \cup {CalcularDarExp(Hit(s, n, d), n, d) : d \in 1..MaxDamage}

\* After a blow that did not kill come the stab, then what the class brings (the
\* bandit's critical blow, the pirate's slash).
ExtraBlows(s, n) == AfterEach(Blow(s, n), LAMBDA t : Blow(t, n))

UserDanoNpc(s, u, n) ==
  UNION {LET struck == Hit(CalcularDarExp(s, n, d), n, d)
         IN IF struck.npc[n].hp > 0 THEN ExtraBlows(struck, n) ELSE {MuereNpc(struck, n, u)}
         : d \in 0..MaxDamage}

\* UsuarioAtacaNpc; a miss changes nothing.
UsuarioAtacaNpc(u, n) ==
  /\ ~user[u].muerto /\ npc[n].active
  /\ Becomes(UserDanoNpc(Now, u, n))

\* HechizoPropNPC: life given, or taken.
HechizoPropNPC(u, n) ==
  /\ ~user[u].muerto /\ npc[n].active
  /\ \E d \in 0..MaxDamage :
       \/ Becomes({[Now EXCEPT !.npc[n].hp = Least(@ + d, MaxHp[npc[n].kind])]})
       \/ LET struck == CalcularDarExp(Hit(Now, n, d), n, d)
          IN Becomes({IF struck.npc[n].hp < 1 THEN MuereNpc(struck, n, u) ELSE struck})

\* HechizoEstadoNPC: a spell of paralysis undoes one of immobility, and the
\* other way round.
Held(c, stuck) ==
  [c EXCEPT !.Paralizado = ~stuck, !.Inmovilizado = stuck, !.Paralisis = IntervaloParalizado]
Freed(c) == [c EXCEPT !.Paralizado = FALSE, !.Inmovilizado = FALSE, !.Paralisis = 0]

\* Only its master frees a creature, or a soldier a guard.
HechizoEstadoNPC(u, n) ==
  /\ ~user[u].muerto /\ npc[n].active
  /\ \/ \E stuck \in BOOLEAN : npc' = [npc EXCEPT ![n] = Held(npc[n], stuck)]
     \/ /\ npc[n].Paralizado \/ npc[n].Inmovilizado
        /\ npc[n].MaestroUser = u \/ npc[n].kind = "guard"
        /\ npc' = [npc EXCEPT ![n] = Freed(npc[n])]
  /\ UNCHANGED <<user, short>>

(***************************************************************************)
(* Users strike users: their pets join.                                    *)
(***************************************************************************)
UserDie(s, u) ==
  [s EXCEPT !.user[u] = [s.user[u] EXCEPT !.muerto = TRUE, !.deaths = Least(@ + 1, 2)]]

\* Every handler that hurts a user ends in UserDie when no life is left, and
\* of the dead none ever is.
Hurt(s, u) == {UserDie(s, u)} \cup (IF s.user[u].muerto THEN {} ELSE {s})

\* AllMascotasAtacanUser(victim, master)
AllMascotasAtacanUser(s, victim, master) ==
  [s EXCEPT !.npc = [n \in Npc |->
    IF n \notin s.user[master].pets THEN s.npc[n]
    ELSE [s.npc[n] EXCEPT !.AttackedBy = victim, !.Movement = "NPCDEFENSA", !.Hostile = TRUE,
          !.Target = victim]]]

AllFollowAmo(s, master) ==
  [s EXCEPT !.npc = [n \in Npc |->
    IF n \notin s.user[master].pets THEN s.npc[n]
    ELSE [s.npc[n] EXCEPT !.Target = NoOne, !.Movement = "SigueAmo"]]]

\* The pets come back from a victim that a blow of their master's killed.
CallBack(s, master, victim) ==
  IF \E n \in s.user[master].pets : s.npc[n].Target = victim THEN AllFollowAmo(s, master) ELSE s

UsuarioAtacadoPorUsuario(s, a, v) ==
  AllMascotasAtacanUser(AllMascotasAtacanUser(s, a, v), v, a)

\* UsuarioAtacaUsuario: in a duel the pets look on.
UsuarioAtacaUsuario(a, v) ==
  /\ a # v /\ ~user[a].muerto /\ ~user[v].muerto
  /\ \E duel \in BOOLEAN :
       LET s == IF duel THEN Now ELSE UsuarioAtacadoPorUsuario(Now, a, v)
       IN Becomes({s, UserDie(CallBack(s, a, v), v)})

\* HechizoPropUsuario: the pets are not called back.
HechizoPropUsuario(a, v) ==
  /\ a # v /\ ~user[a].muerto /\ ~user[v].muerto
  /\ \E duel \in BOOLEAN :
       Becomes(Hurt(IF duel THEN Now ELSE UsuarioAtacadoPorUsuario(Now, a, v), v))

RevivirUsuario(u) ==
  /\ user[u].muerto
  /\ user' = [user EXCEPT ![u] = [user[u] EXCEPT !.muerto = FALSE, !.deaths = 0]]
  /\ UNCHANGED <<npc, short>>

(***************************************************************************)
(* Pets, on a map where they may stay (World has the others).              *)
(***************************************************************************)
\* FollowAmo: unlike the original it forgets neither the target nor the
\* hostility.
FollowAmo(c) == [c EXCEPT !.Movement = "SigueAmo"]

DoDomar(u, n) ==
  /\ ~user[u].muerto /\ npc[n].active /\ npc[n].kind \in Domable /\ npc[n].MaestroUser = NoOne
  /\ user' = [user EXCEPT ![u] = [user[u] EXCEPT !.pets = @ \cup {n}]]
  /\ npc' = [npc EXCEPT ![n] = FollowAmo([npc[n] EXCEPT !.MaestroUser = u])]
  /\ UNCHANGED short

HandlePetFollow(u, n) ==
  /\ ~user[u].muerto /\ npc[n].MaestroUser = u
  /\ npc' = [npc EXCEPT ![n] = FollowAmo(npc[n])]
  /\ UNCHANGED <<user, short>>

\* HandleReleasePet calls QuitarPet, which alone clears MascotasIndex.
HandleReleasePet(u, n) ==
  /\ ~user[u].muerto /\ npc[n].MaestroUser = u
  /\ user' = [user EXCEPT ![u] = [user[u] EXCEPT !.pets = @ \ {n}]]
  /\ npc' = QuitarNPC(Now, n).npc
  /\ UNCHANGED short

(***************************************************************************)
(* Creatures strike.                                                       *)
(***************************************************************************)
\* (Mutant: a creature strikes and may still cast its spell.)
Tireless(s, n) == s
\* One attack for each beat of npcataca.
Spent(s, n) == [s EXCEPT !.npc[n].CanAttack = FALSE]

NpcAtacaUser(s, n, u) ==
  LET t == [Spent(s, n) EXCEPT !.npc[n].Target = IF @ = NoOne THEN u ELSE @]
  IN IF s.npc[n].CanAttack THEN {t} \cup Hurt(t, u) ELSE {s}

\* NpcLanzaSpellSobreUser (and NpcLanzaUnSpell before it): nothing happens to
\* one who hides or stands where magic has no effect.
NpcLanzaUnSpell(s, n, u) ==
  {s} \cup (IF LanzaSpells(s.npc[n].kind) /\ s.npc[n].CanAttack THEN Hurt(Spent(s, n), u) ELSE {})

\* NpcAtacaNpc with NpcDañoNpc: a creature that kills goes back to its ways.
NpcDanoNpc(s, n, victim) ==
  LET calm == [s EXCEPT !.npc[n].Movement = "own",
                        !.npc[n].Hostile = IF s.npc[n].AttackedBy # NoOne
                                           THEN Hostile(s.npc[n].kind) ELSE @]
  IN {IF s.npc[victim].hp - d < 1 THEN MuereNpc(calm, victim, s.npc[n].MaestroUser)
      ELSE Hit(s, victim, d) : d \in 1..MaxDamage}

NpcAtacaNpc(s, n, victim) ==
  IF s.npc[n].CanAttack THEN {Spent(s, n)} \cup NpcDanoNpc(Spent(s, n), n, victim) ELSE {s}

(***************************************************************************)
(* What a creature does at each beat of TIMER_AI: at who stands next to it *)
(* (GuardiasAI, HostilMalvadoAI, HostilBuenoAI), and then as it moves.     *)
(* Each may also find nobody.                                              *)
(***************************************************************************)
RestoreOldMovement(s, n) ==
  IF s.npc[n].MaestroUser # NoOne THEN s
  ELSE [s EXCEPT !.npc[n] = [s.npc[n] EXCEPT !.Movement = "own", !.AttackedBy = NoOne,
                             !.Hostile = Hostile(s.npc[n].kind)]]

\* A criminal, or the one by whom the guard was attacked.
GuardiasAI(s, n) ==
  {RestoreOldMovement(s, n)} \cup UNION {NpcAtacaUser(s, n, u) : u \in Alive(s)}

\* A blow and then a spell, or a spell alone; or another user's pet.
HostilMalvadoAI(s, n) ==
  LET Cast(u) == [t \in NpcAtacaUser(s, n, u) |-> NpcLanzaUnSpell(t, n, u)]
      prey == {p \in Active(s) \ {n} : s.npc[p].MaestroUser # NoOne /\ ~s.npc[p].Paralizado}
  IN {RestoreOldMovement(s, n)}
     \cup (UNION {(UNION {Cast(u)[t] : t \in DOMAIN Cast(u)}) \cup NpcLanzaUnSpell(s, n, u)
                  : u \in Alive(s)})
     \cup (UNION {NpcAtacaNpc(s, n, p) : p \in prey})

\* A spell and then a blow, at the aggressor alone; the blow comes even when
\* the spell has just killed.
HostilBuenoAI(s, n) ==
  {RestoreOldMovement(s, n)}
  \cup UNION {AfterEach(NpcLanzaUnSpell(s, n, u), LAMBDA t : NpcAtacaUser(t, n, u))
              : u \in Alive(s) \cap {s.npc[n].AttackedBy}}

LooksAround(s, n) ==
  IF s.npc[n].MaestroUser # NoOne THEN {s}
  ELSE IF s.npc[n].kind = "guard" THEN GuardiasAI(s, n)
  ELSE IF ~s.npc[n].Hostile THEN {s}
  ELSE IF s.npc[n].kind = "beast" THEN HostilMalvadoAI(s, n)
  ELSE HostilBuenoAI(s, n)

\* IrUsuarioCercano and PersigueCriminal: spells from afar.
IrUsuarioCercano(s, n) == {s} \cup UNION {NpcLanzaUnSpell(s, n, u) : u \in Alive(s)}
PersigueCriminal(s, n) ==
  {RestoreOldMovement(s, n)} \cup UNION {NpcLanzaUnSpell(s, n, u) : u \in Alive(s)}

\* SeguirAgresor: a pet of a lawful master, safe on or in the army, lets a
\* citizen go, and comes back if it can move.
LetsGo(s, n) ==
  LET c == [s.npc[n] EXCEPT !.AttackedBy = NoOne]
  IN [s EXCEPT !.npc[n] = IF c.Paralizado \/ c.Inmovilizado THEN c ELSE FollowAmo(c)]

SeguirAgresor(s, n) ==
  LET u == s.npc[n].AttackedBy
      c == s.npc[n]
  IN {RestoreOldMovement(s, n)}
     \cup (IF u # NoOne /\ c.MaestroUser # NoOne THEN {LetsGo(s, n)} ELSE {})
     \cup (IF u \notin Alive(s) THEN {}
           ELSE IF LanzaSpells(c.kind) THEN NpcLanzaUnSpell(s, n, u) ELSE NpcAtacaUser(s, n, u))

\* SeguirAmo either walks or forgets an old fight.
SeguirAmo(s, n) == {s, RestoreOldMovement(s, n)}

Moves(s, n) ==
  LET c == s.npc[n]
  IN IF c.Movement = "NPCDEFENSA" THEN SeguirAgresor(s, n)
     ELSE IF c.Movement = "SigueAmo" THEN IF c.Inmovilizado THEN {s} ELSE SeguirAmo(s, n)
     ELSE IF c.kind = "beast" THEN IrUsuarioCercano(s, n)
     ELSE IF c.kind = "guard" THEN PersigueCriminal(s, n)
     ELSE {s}

NPCAI(s, n) == AfterEach(LooksAround(s, n), LAMBDA t : Moves(t, n))

EfectoParalisisNpc(c) == IF c.Paralisis > 0 THEN [c EXCEPT !.Paralisis = @ - 1] ELSE Freed(c)

\* The original's timer passes over a paralysed creature's mind.
TIMER_AI(n) ==
  LET c == npc[n]
      s == [Now EXCEPT !.npc[n] = IF c.Paralizado \/ c.Inmovilizado
                                  THEN EfectoParalisisNpc(c) ELSE c]
  IN /\ c.active
     /\ Becomes(IF c.Paralizado THEN {s} ELSE NPCAI(s, n))

\* Every place up to LastNPC, the empty ones included.
npcataca ==
  /\ npc' = [n \in Npc |-> [npc[n] EXCEPT !.CanAttack = @ \/ \E m \in Active(Now) : n <= m]]
  /\ UNCHANGED <<user, short>>

\* Trainers and game masters bring creatures (SpawnNpc).
SpawnNpc ==
  /\ Active(Now) # Npc
  /\ \E n \in Npc \ Active(Now) : npc' = ReSpawnNpc(Now, npc[n].kind).npc
  /\ UNCHANGED <<user, short>>

Next ==
  \/ \E u \in User, n \in Npc :
       \/ UsuarioAtacaNpc(u, n) \/ HechizoPropNPC(u, n) \/ HechizoEstadoNPC(u, n)
       \/ DoDomar(u, n) \/ HandlePetFollow(u, n) \/ HandleReleasePet(u, n)
  \/ \E a, v \in User : UsuarioAtacaUsuario(a, v) \/ HechizoPropUsuario(a, v)
  \/ \E u \in User : RevivirUsuario(u)
  \/ \E n \in Npc : TIMER_AI(n)
  \/ npcataca
  \/ SpawnNpc

Spec == Init /\ [][Next]_vars

(***************************************************************************)
(* Properties.                                                             *)
(***************************************************************************)
\* A creature never gives more experience than it has, however it is wounded
\* and healed, and who kills it gets the rest to the last point
\* (CalcularDarExp, MuereNpc).
ExpAccounted ==
  /\ \A n \in Active(Now) : npc[n].ExpCount >= 0 /\ npc[n].paid + npc[n].ExpCount = GiveEXP[npc[n].kind]
  /\ short = 0

\* Creatures are held one way at a time, serve who knows of them, and account for
\* their experience.
CombatSound == TypeOK /\ ExpAccounted

\* A life ends once, although creatures strike and cast at a user without
\* looking whether it still lives: UserDie drops what the dead own and counts
\* the death.
DiesOnce == \A u \in User : user[u].deaths = (IF user[u].muerto THEN 1 ELSE 0)

\* Not true: a creature without life left is gone
\* (docs/audit/04a-sistemacombate-detalle.md).
CreaturesLive == \A n \in Active(Now) : npc[n].hp > 0
=============================================================================
