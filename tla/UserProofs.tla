------------------------------- MODULE UserProofs -------------------------------
(* The proofs about one user. About Faction: what deeds keep of a character, what
   only the army and the legion change, and the properties of the run. At the end,
   about Vitals: what life, mana and conditions are after every blow, spell, timer
   and death. *)
EXTENDS Faction, Vitals, TLAPS

\* What every deed keeps of a character: its record of service. A deed may expel
\* from the army or the legion and never admits.
Keeps(q, r) ==
  /\ q.sirvioReal = r.sirvioReal /\ q.sirvioCaos = r.sirvioCaos
  /\ q.rangoReal = r.rangoReal /\ q.rangoCaos = r.rangoCaos /\ q.next = r.next
  /\ q.ciudMatados = r.ciudMatados
  /\ q.armada => r.armada
  /\ q.caos => r.caos

Kept(q, r) == q \in Character /\ Keeps(q, r)

\* What the constants are.
LEMMA ConstantTypes ==
  /\ MAXREP \in Nat /\ MAXUSERMATADOS \in Nat
  /\ vlASALTO \in Nat /\ vlASESINO \in Nat /\ vlNoble \in Nat /\ vlCAZADOR \in Nat
  /\ vlLadron \in Nat /\ vlProleta \in Nat
  /\ SpellBandit \in Nat /\ SpellNoble \in Nat /\ GuardMurder \in Nat
BY ConductAssumption

\* What the sets of numbers contain.
LEMMA Limits ==
  /\ Reputation \subseteq Nat /\ Kills \subseteq Nat
  /\ 0 \in Reputation /\ NoUser \in SomeUser /\ Users \subseteq SomeUser
BY ConstantTypes DEF Reputation, Kills, SomeUser

\* What a character's numbers are.
LEMMA Numbers ==
  ASSUME NEW r \in Character
  PROVE  /\ r.asesino \in Reputation /\ r.bandido \in Reputation
         /\ r.ladrones \in Reputation /\ r.noble \in Reputation /\ r.plebe \in Reputation
         /\ r.ciudMatados \in Kills /\ r.crimMatados \in Kills
         /\ r.ciudMatados \in Nat
BY Limits DEF Character

\* What a deed adds to a reputation, and what it takes from one.
LEMMA Raised ==
  ASSUME NEW n \in Reputation, NEW k \in Nat
  PROVE  Capped(n + k) \in Reputation
BY ConstantTypes DEF Capped, Reputation

\* A reputation lowered by a deed stops at zero.
LEMMA Lowered ==
  ASSUME NEW n \in Reputation, NEW k \in Nat
  PROVE  NotBelowZero(n - k) \in Reputation
BY ConstantTypes DEF NotBelowZero, Reputation

\* Half a reputation, and what is left of it, are reputations.
LEMMA Halved ==
  ASSUME NEW n \in Reputation
  PROVE  n \div 2 \in Reputation /\ n - n \div 2 \in Reputation
<1>1. n \in Nat /\ n <= MAXREP /\ MAXREP \in Nat
  BY ConstantTypes DEF Reputation
<1>2. n \div 2 \in Nat /\ 2 * (n \div 2) <= n
  BY <1>1, Z3
<1> QED BY <1>1, <1>2 DEF Reputation

\* The count of the killed stays within its limit and never falls.
LEMMA CountsOne ==
  ASSUME NEW n \in Kills
  PROVE  Counted(n) \in Kills /\ Counted(n) >= n
BY ConstantTypes DEF Counted, Kills

\* No deed at all, and deeds one after the other.
LEMMA KeptStill == ASSUME NEW r \in Character PROVE Kept(r, r)
BY Numbers DEF Kept, Keeps

\* What two deeds keep one after the other, both together keep.
LEMMA KeptTwice ==
  ASSUME NEW p, NEW q, NEW r, Kept(p, q), Kept(q, r), r \in Character
  PROVE  Kept(p, r)
<1>1. p \in Character /\ q \in Character
  BY DEF Kept
<1> QED BY <1>1 DEF Kept, Keeps

\* Deeds that keep the record of service keep what the service left.
LEMMA KeptPast ==
  ASSUME NEW q, NEW r \in Character, Kept(q, r), Past(r)
  PROVE  Past(q)
BY DEF Kept, Keeps, Past, Character

\* One field at a time: a reputation,
LEMMA NewReputation ==
  ASSUME NEW r \in Character, NEW q, Kept(q, r), NEW n \in Reputation
  PROVE  /\ Kept([q EXCEPT !.asesino = n], r)
         /\ Kept([q EXCEPT !.bandido = n], r)
         /\ Kept([q EXCEPT !.ladrones = n], r)
         /\ Kept([q EXCEPT !.noble = n], r)
         /\ Kept([q EXCEPT !.plebe = n], r)
<1>0. q \in Character
  BY DEF Kept
<1>1. [q EXCEPT !.asesino = n] \in Character
  BY <1>0, Z3T(20) DEF Character
<1>2. Keeps([q EXCEPT !.asesino = n], r)
  BY <1>0, Z3T(20) DEF Character, Kept, Keeps
<1>3. [q EXCEPT !.bandido = n] \in Character
  BY <1>0, Z3T(20) DEF Character
<1>4. Keeps([q EXCEPT !.bandido = n], r)
  BY <1>0, Z3T(20) DEF Character, Kept, Keeps
<1>5. [q EXCEPT !.ladrones = n] \in Character
  BY <1>0, Z3T(20) DEF Character
<1>6. Keeps([q EXCEPT !.ladrones = n], r)
  BY <1>0, Z3T(20) DEF Character, Kept, Keeps
<1>7. [q EXCEPT !.noble = n] \in Character
  BY <1>0, Z3T(20) DEF Character
<1>8. Keeps([q EXCEPT !.noble = n], r)
  BY <1>0, Z3T(20) DEF Character, Kept, Keeps
<1>9. [q EXCEPT !.plebe = n] \in Character
  BY <1>0, Z3T(20) DEF Character
<1>10. Keeps([q EXCEPT !.plebe = n], r)
  BY <1>0, Z3T(20) DEF Character, Kept, Keeps
<1> QED BY <1>1, <1>2, <1>3, <1>4, <1>5, <1>6, <1>7, <1>8, <1>9, <1>10 DEF Kept

\* a user that was attacked or killed,
LEMMA NewUser ==
  ASSUME NEW r \in Character, NEW q, Kept(q, r), NEW n \in SomeUser
  PROVE  /\ Kept([q EXCEPT !.lastCrim = n], r)
         /\ Kept([q EXCEPT !.lastCiud = n], r)
         /\ Kept([q EXCEPT !.atacablePor = n], r)
<1>0. q \in Character
  BY DEF Kept
<1>1. [q EXCEPT !.lastCrim = n] \in Character
  BY <1>0, Z3T(20) DEF Character
<1>2. Keeps([q EXCEPT !.lastCrim = n], r)
  BY <1>0, Z3T(20) DEF Character, Kept, Keeps
<1>3. [q EXCEPT !.lastCiud = n] \in Character
  BY <1>0, Z3T(20) DEF Character
<1>4. Keeps([q EXCEPT !.lastCiud = n], r)
  BY <1>0, Z3T(20) DEF Character, Kept, Keeps
<1>5. [q EXCEPT !.atacablePor = n] \in Character
  BY <1>0, Z3T(20) DEF Character
<1>6. Keeps([q EXCEPT !.atacablePor = n], r)
  BY <1>0, Z3T(20) DEF Character, Kept, Keeps
<1> QED BY <1>1, <1>2, <1>3, <1>4, <1>5, <1>6 DEF Kept

\* life and death,
LEMMA NewLife ==
  ASSUME NEW r \in Character, NEW q, Kept(q, r), NEW b \in BOOLEAN
  PROVE  Kept([q EXCEPT !.muerto = b], r)
<1>0. q \in Character
  BY DEF Kept
<1>1. [q EXCEPT !.muerto = b] \in Character
  BY <1>0, Z3T(20) DEF Character
<1>2. Keeps([q EXCEPT !.muerto = b], r)
  BY <1>0, Z3T(20) DEF Character, Kept, Keeps
<1> QED BY <1>1, <1>2 DEF Kept

\* an expulsion from the army,
LEMMA LeavesArmy ==
  ASSUME NEW r \in Character, NEW q, Kept(q, r), NEW b \in BOOLEAN, b => q.armada
  PROVE  Kept([q EXCEPT !.armada = b], r)
<1>0. q \in Character
  BY DEF Kept
<1>1. [q EXCEPT !.armada = b] \in Character
  BY <1>0, Z3T(20) DEF Character
<1>2. Keeps([q EXCEPT !.armada = b], r)
  BY <1>0, Z3T(20) DEF Character, Kept, Keeps
<1> QED BY <1>1, <1>2 DEF Kept

\* or from the legion,
LEMMA LeavesLegion ==
  ASSUME NEW r \in Character, NEW q, Kept(q, r), NEW b \in BOOLEAN, b => q.caos
  PROVE  Kept([q EXCEPT !.caos = b], r)
<1>0. q \in Character
  BY DEF Kept
<1>1. [q EXCEPT !.caos = b] \in Character
  BY <1>0, Z3T(20) DEF Character
<1>2. Keeps([q EXCEPT !.caos = b], r)
  BY <1>0, Z3T(20) DEF Character, Kept, Keeps
<1> QED BY <1>1, <1>2 DEF Kept

\* criminals killed,
LEMMA MoreCriminals ==
  ASSUME NEW r \in Character, NEW q, Kept(q, r), NEW n \in Kills
  PROVE  Kept([q EXCEPT !.crimMatados = n], r)
<1>0. q \in Character
  BY DEF Kept
<1>1. [q EXCEPT !.crimMatados = n] \in Character
  BY <1>0, Z3T(20) DEF Character
<1>2. Keeps([q EXCEPT !.crimMatados = n], r)
  BY <1>0, Z3T(20) DEF Character, Kept, Keeps
<1> QED BY <1>1, <1>2 DEF Kept

\* the legion closed for ever.
LEMMA Outlawed ==
  ASSUME NEW r \in Character, NEW q, Kept(q, r)
  PROVE  Kept([q EXCEPT !.reenlistadas = 200], r)
<1>0. q \in Character
  BY DEF Kept
<1>1. [q EXCEPT !.reenlistadas = 200] \in Character
  BY <1>0, Z3T(20) DEF Character, Enlistments
<1>2. Keeps([q EXCEPT !.reenlistadas = 200], r)
  BY <1>0, Z3T(20) DEF Character, Kept, Keeps
<1> QED BY <1>1, <1>2 DEF Kept

\* An expulsion is one that leaves no membership.
LEMMA Expulsions ==
  ASSUME NEW r \in Character, NEW q, Kept(q, r)
  PROVE  Kept(ExpulsarFaccionReal(q), r) /\ Kept(ExpulsarFaccionCaos(q), r)
BY LeavesArmy, LeavesLegion DEF ExpulsarFaccionReal, ExpulsarFaccionCaos

\* What a deed adds to the reputations of a character.
LEMMA Adds ==
  ASSUME NEW q \in Character, NEW k \in Nat
  PROVE  /\ Capped(q.asesino + k) \in Reputation /\ Capped(q.bandido + k) \in Reputation
         /\ Capped(q.ladrones + k) \in Reputation /\ Capped(q.noble + k) \in Reputation
         /\ Capped(q.plebe + k) \in Reputation
BY Numbers, Raised

\* VolverCriminal and VolverCiudadano.
LEMMA VolverCriminalKeeps ==
  ASSUME NEW r \in Character, NEW q, Kept(q, r), NEW arena \in BOOLEAN
  PROVE  Kept(VolverCriminal(q, arena), r)
<1> DEFINE q1 == ExpulsarFaccionReal(q)
           q2 == [q1 EXCEPT !.noble = 0]
           q3 == [q2 EXCEPT !.plebe = 0]
           q4 == [q3 EXCEPT !.bandido = Capped(@ + vlASALTO)]
           q5 == [q4 EXCEPT !.atacablePor = NoUser]
<1>1. Kept(q1, r)
  BY Expulsions
<1>2. Kept(q2, r)
  BY <1>1, NewReputation, Limits
<1>3. Kept(q3, r)
  BY <1>2, NewReputation, Limits
<1>4. Kept(q4, r)
  BY <1>3, NewReputation, Adds, ConstantTypes DEF Kept
<1>5. Kept(q5, r)
  BY <1>4, NewUser, Limits
<1>6. VolverCriminal(q, arena) = IF arena THEN q ELSE q5
  BY DEF VolverCriminal
<1> HIDE DEF q5
<1> QED BY <1>5, <1>6

\* A citizen again: expelled from the legion, its crimes forgotten, its record kept.
LEMMA VolverCiudadanoKeeps ==
  ASSUME NEW r \in Character, NEW q, Kept(q, r), NEW arena \in BOOLEAN
  PROVE  Kept(VolverCiudadano(q, arena), r)
<1> DEFINE q1 == ExpulsarFaccionCaos(q)
           q2 == [q1 EXCEPT !.ladrones = 0]
           q3 == [q2 EXCEPT !.bandido = 0]
           q4 == [q3 EXCEPT !.asesino = 0]
           q5 == [q4 EXCEPT !.plebe = Capped(@ + vlASALTO)]
<1>1. Kept(q1, r)
  BY Expulsions
<1>2. Kept(q2, r)
  BY <1>1, NewReputation, Limits
<1>3. Kept(q3, r)
  BY <1>2, NewReputation, Limits
<1>4. Kept(q4, r)
  BY <1>3, NewReputation, Limits
<1>5. Kept(q5, r)
  BY <1>4, NewReputation, Adds, ConstantTypes DEF Kept
<1>6. VolverCiudadano(q, arena) = IF arena THEN q ELSE q5
  BY DEF VolverCiudadano
<1> HIDE DEF q5
<1> QED BY <1>5, <1>6

\* DisNobAuBan.
LEMMA DisNobAuBanKeeps ==
  ASSUME NEW r \in Character, NEW q, Kept(q, r), NEW arena \in BOOLEAN
  PROVE  Kept(DisNobAuBan(q, arena), r)
<1> DEFINE q1 == [q EXCEPT !.noble = @ - @ \div 2]
           q2 == [q1 EXCEPT !.bandido = Capped(@ + SpellBandit)]
<1>1. Kept(q1, r)
  BY NewReputation, Numbers, Halved DEF Kept
<1>2. Kept(q2, r)
  BY <1>1, NewReputation, Adds, ConstantTypes DEF Kept
<1>3. Kept(ExpulsarFaccionReal(q2), r)
  BY <1>2, Expulsions
<1>4. DisNobAuBan(q, arena) =
        IF arena THEN q ELSE IF criminal(q2) THEN ExpulsarFaccionReal(q2) ELSE q2
  BY DEF DisNobAuBan
<1> HIDE DEF q2
<1> QED BY <1>2, <1>3, <1>4

\* What an attack costs the attacker.
LEMMA AttackKeeps ==
  ASSUME NEW r \in Character, NEW v, NEW attacker, NEW site
  PROVE  Kept(UsuarioAtacadoPorUsuario(r, v, attacker, site), r)
<1> DEFINE turned == BecomesCriminal(r, v, IsDefence(r, v, attacker), FirstInArena(site))
           t1 == [turned EXCEPT !.bandido = Capped(@ + vlASALTO)]
           t2 == [t1 EXCEPT !.noble = @ \div 2]
           t3 == [turned EXCEPT !.noble = Capped(@ + vlNoble)]
<1>0. UsuarioAtacadoPorUsuario(r, v, attacker, site) =
        IF TriggerZonaPelea(site) = "PERMITE" THEN r
        ELSE IF IsDefence(r, v, attacker) THEN turned ELSE IF criminal(v) THEN t3 ELSE t2
  BY DEF UsuarioAtacadoPorUsuario
<1>1. Kept(turned, r)
  <2>1. FirstInArena(site) \in BOOLEAN
    BY DEF FirstInArena
  <2>2. Kept(VolverCriminal(r, FirstInArena(site)), r)
    BY <2>1, VolverCriminalKeeps, KeptStill
  <2> QED BY <2>2, KeptStill DEF BecomesCriminal
<1> HIDE DEF turned
<1>2. Kept(t1, r)
  BY <1>1, NewReputation, Adds, ConstantTypes DEF Kept
<1>3. Kept(t2, r)
  BY <1>2, NewReputation, Numbers, Halved DEF Kept
<1>4. Kept(t3, r)
  BY <1>1, NewReputation, Adds, ConstantTypes DEF Kept
<1> HIDE DEF t2, t3
<1> QED BY <1>0, <1>1, <1>3, <1>4, KeptStill

\* A kill: counted (ContarMuerte) and paid for (ActStats).
LEMMA ActStatsKeeps ==
  ASSUME NEW r \in Character, NEW q, Kept(q, r), NEW v, NEW attacker
  PROVE  Kept(ActStats(q, v, attacker), r)
<1> DEFINE q1 == [q EXCEPT !.noble = Capped(@ + vlASESINO \div 2)]
           q2 == [q EXCEPT !.asesino = Capped(@ + 2 * vlASESINO)]
           q3 == [q2 EXCEPT !.noble = 0]
           q4 == [q3 EXCEPT !.plebe = 0]
<1>0. ActStats(q, v, attacker) =
        IF ~Unprovoked(v, attacker) THEN q ELSE IF criminal(v) THEN q1 ELSE q4
  BY DEF ActStats
<1>1. vlASESINO \div 2 \in Nat /\ 2 * vlASESINO \in Nat
  BY ConstantTypes, Z3
<1>2. Kept(q1, r)
  BY <1>1, NewReputation, Adds DEF Kept
<1>3. Kept(q2, r)
  BY <1>1, NewReputation, Adds DEF Kept
<1>4. Kept(q3, r)
  BY <1>3, NewReputation, Limits
<1>5. Kept(q4, r)
  BY <1>4, NewReputation, Limits
<1> HIDE DEF q1, q4
<1> QED BY <1>0, <1>2, <1>5

\* A death counted leaves the record alone when the dead is no innocent citizen.
LEMMA ContarMuerteKeeps ==
  ASSUME NEW r \in Character, NEW v, NEW attacker, NEW victim \in Users, NEW site,
         criminal(v) \/ ~Unprovoked(v, attacker) \/ SecondInArena(site)
  PROVE  Kept(ContarMuerte(r, v, attacker, victim, site), r)
<1> DEFINE q1 == [r EXCEPT !.lastCrim = victim]
           q2 == [q1 EXCEPT !.crimMatados = IF r.lastCrim # victim THEN Counted(@) ELSE @]
           q3 == [q2 EXCEPT !.reenlistadas = IF r.sirvioCaos /\ v.caos THEN 200 ELSE @]
<1>0. ContarMuerte(r, v, attacker, victim, site) =
        IF v.elv <= LimiteNewbie \/ SecondInArena(site) \/ ~Unprovoked(v, attacker) THEN r ELSE q3
  BY DEF ContarMuerte
<1>1. Kept(q1, r)
  BY KeptStill, NewUser, Limits
<1>2. Kept(q2, r)
  <2>1. Counted(q1.crimMatados) \in Kills /\ q1.crimMatados \in Kills
    BY <1>1, Numbers, CountsOne DEF Kept
  <2> HIDE DEF q1
  <2> QED BY <1>1, <2>1, MoreCriminals
<1>3. Kept(q3, r)
  <2>1. Kept([q2 EXCEPT !.reenlistadas = 200], r)
    BY <1>2, Outlawed
  <2>2. Kept([q2 EXCEPT !.reenlistadas = q2.reenlistadas], r)
    <3>1. q2 \in Character
      BY <1>2 DEF Kept
    <3>2. [q2 EXCEPT !.reenlistadas = q2.reenlistadas] = q2
      <4> HIDE DEF q2
      <4> QED BY <3>1 DEF Character
    <3> QED BY <1>2, <3>2
  <2> HIDE DEF q2
  <2> QED BY <2>1, <2>2
<1> HIDE DEF q3
<1> QED BY <1>0, <1>3, KeptStill

\* A citizen's death is one more, and no more of the past is touched.
LEMMA ContarMuertePast ==
  ASSUME NEW r \in Character, Past(r), NEW v, NEW attacker, NEW victim \in Users, NEW site
  PROVE  /\ ContarMuerte(r, v, attacker, victim, site) \in Character
         /\ Past(ContarMuerte(r, v, attacker, victim, site))
<1>1. CASE criminal(v) \/ ~Unprovoked(v, attacker) \/ SecondInArena(site)
  BY <1>1, ContarMuerteKeeps, KeptPast DEF Kept
<1>2. CASE ~criminal(v) /\ Unprovoked(v, attacker) /\ ~SecondInArena(site)
  <2> DEFINE q1 == [r EXCEPT !.lastCiud = victim]
             n  == IF r.lastCiud # victim THEN Counted(q1.ciudMatados) ELSE q1.ciudMatados
             q2 == [q1 EXCEPT !.ciudMatados = n]
  <2>0. ContarMuerte(r, v, attacker, victim, site) = IF v.elv <= LimiteNewbie THEN r ELSE q2
    BY <1>2 DEF ContarMuerte
  <2>1. Kept(q1, r)
    BY KeptStill, NewUser, Limits
  <2>2. q1 \in Character /\ Past(q1)
    BY <2>1, KeptPast DEF Kept
  <2>3. n \in Kills /\ n >= q1.ciudMatados /\ q1.ciudMatados \in Nat /\ n \in Nat
    BY <2>2, Numbers, CountsOne, Limits
  <2> HIDE DEF q1, n
  <2>4. q2 \in Character
    BY <2>2, <2>3, Z3T(20) DEF Character
  <2>5. Past(q2)
    BY <2>2, <2>3, Z3T(20) DEF Character, Past
  <2> HIDE DEF q2
  <2> QED BY <2>0, <2>4, <2>5
<1> QED BY <1>1, <1>2

\* Death keeps the record of service.
LEMMA DiesKeeps ==
  ASSUME NEW r \in Character, NEW q, Kept(q, r)
  PROVE  Kept(Dies(q), r)
<1> DEFINE q1 == [q EXCEPT !.muerto = TRUE]
           q2 == [q1 EXCEPT !.atacablePor = NoUser]
<1>1. Kept(q1, r)
  BY NewLife
<1>2. Kept(q2, r)
  BY <1>1, NewUser, Limits
<1> QED BY <1>2 DEF Dies

\* A guard's justice.
LEMMA RestarKeeps ==
  ASSUME NEW r \in Character
  PROVE  Kept(RestarCriminalidad(r), r)
<1>1. NotBelowZero(r.bandido - vlASALTO) \in Reputation
  BY Numbers, Lowered, ConstantTypes
<1>2. NotBelowZero(r.ladrones - 10 * vlCAZADOR) \in Reputation
  BY Numbers, Lowered, ConstantTypes
<1>3. Kept([r EXCEPT !.bandido = NotBelowZero(@ - vlASALTO)], r)
  BY <1>1, KeptStill, NewReputation
<1>4. Kept([r EXCEPT !.ladrones = NotBelowZero(@ - 10 * vlCAZADOR)], r)
  BY <1>2, KeptStill, NewReputation
<1> QED BY <1>3, <1>4 DEF RestarCriminalidad

\* Help.
LEMMA SupportKeeps ==
  ASSUME NEW r \in Character, NEW t, NEW caster, NEW site, NEW grave
  PROVE  Kept(SupportCost(r, t, caster, site, grave), r)
<1>1. FirstInArena(site) \in BOOLEAN
  BY DEF FirstInArena
<1> QED BY <1>1, KeptStill, VolverCriminalKeeps, DisNobAuBanKeeps DEF SupportCost

\* Attacks on creatures and their deaths.
LEMMA GuardPriceKeeps ==
  ASSUME NEW r \in Character, NEW n, NEW arena \in BOOLEAN
  PROVE  Kept(GuardPrice(r, n, arena), r)
BY KeptStill, VolverCriminalKeeps DEF GuardPrice

\* An attack on a creature keeps the record, whoever the creature's master is.
LEMMA NPCAtacadoKeeps ==
  ASSUME NEW r \in Character, NEW q, Kept(q, r), NEW o, NEW n \in Creatures, NEW u,
         NEW arena \in BOOLEAN
  PROVE  Kept(NPCAtacado(q, o, n, u, arena), r)
<1> DEFINE toggled == IF n.maestro # NoUser THEN ToogleToAtackable(q, o, u, n.maestro) ELSE q
           army == VolverCriminal(ExpulsarFaccionReal(toggled), arena)
           legion == VolverCriminal(ExpulsarFaccionCaos(toggled), arena)
<1>0. NPCAtacado(q, o, n, u, arena) =
        IF n.faccion = 1 /\ toggled.armada THEN army
        ELSE IF n.faccion = 2 /\ toggled.caos THEN legion ELSE toggled
  BY DEF NPCAtacado
<1>1. Kept(toggled, r)
  <2>1. n.maestro \in SomeUser
    BY FactionAssumption DEF SomeUser
  <2>2. Kept([q EXCEPT !.atacablePor = n.maestro], r)
    BY <2>1, NewUser
  <2> QED BY <2>2 DEF ToogleToAtackable
<1> HIDE DEF toggled
<1>2. Kept(army, r) /\ Kept(legion, r)
  BY <1>1, Expulsions, VolverCriminalKeeps
<1> HIDE DEF army, legion
<1> QED BY <1>0, <1>1, <1>2

\* A kill judged by the creature's alignment keeps the record.
LEMMA ByAlignmentKeeps ==
  ASSUME NEW r \in Character, NEW q, Kept(q, r), NEW n
  PROVE  Kept(ByAlignment(q, n), r)
<1> DEFINE g1 == [q EXCEPT !.noble = 0]
           g2 == [g1 EXCEPT !.plebe = 0]
           g3 == [g2 EXCEPT !.asesino = Capped(@ + GuardMurder)]
           g  == IF n.guardia THEN g3 ELSE q
           h  == [g EXCEPT !.asesino = Capped(@ + vlASESINO)]
           k1 == [q EXCEPT !.noble = Capped(@ + vlASESINO \div 2)]
           k2 == [q EXCEPT !.plebe = Capped(@ + vlCAZADOR)]
<1>0. ByAlignment(q, n) \in {g, h, k1, k2, q}
  BY Z3T(20) DEF ByAlignment
<1>1. vlASESINO \div 2 \in Nat
  BY ConstantTypes, Z3
<1>2. Kept(g1, r)
  BY NewReputation, Limits
<1>3. Kept(g2, r)
  BY <1>2, NewReputation, Limits
<1>4. Kept(g3, r)
  BY <1>3, NewReputation, Adds, ConstantTypes DEF Kept
<1>5. Kept(g, r)
  <2> HIDE DEF g3
  <2> QED BY <1>4
<1>6. Kept(h, r)
  <2> HIDE DEF g
  <2> QED BY <1>5, NewReputation, Adds, ConstantTypes DEF Kept
<1>7. Kept(k1, r)
  BY <1>1, NewReputation, Adds DEF Kept
<1>8. Kept(k2, r)
  BY NewReputation, Adds, ConstantTypes DEF Kept
<1> HIDE DEF g, h, k1, k2
<1> QED BY <1>0, <1>5, <1>6, <1>7, <1>8

\* So does all that a creature's death costs and gains (MuereNpc).
LEMMA MuereNpcKeeps ==
  ASSUME NEW r \in Character, NEW q, Kept(q, r), NEW n
  PROVE  Kept(MuereNpc(q, n), r)
<1> DEFINE judged == ByAlignment(q, n)
           army == judged.armada /\ ~criminal(judged)
           legion == judged.caos /\ criminal(judged)
           j1 == [judged EXCEPT !.armada = army]
           j2 == [j1 EXCEPT !.caos = legion]
<1>0. MuereNpc(q, n) = [judged EXCEPT !.armada = @ /\ ~criminal(judged), !.caos = @ /\ criminal(judged)]
  BY DEF MuereNpc
<1>1. Kept(judged, r)
  BY ByAlignmentKeeps
<1> HIDE DEF judged
<1>2. Kept(j1, r)
  BY <1>1, LeavesArmy
<1>3. j1.caos = judged.caos
  BY <1>1 DEF Kept, Character
<1>4. Kept(j2, r)
  <2> HIDE DEF j1
  <2>1. legion => j1.caos
    BY <1>3
  <2> QED BY <1>2, <2>1, LeavesLegion
<1>5. j2 = [judged EXCEPT !.armada = @ /\ ~criminal(judged), !.caos = @ /\ criminal(judged)]
  BY <1>3
<1> QED BY <1>0, <1>4, <1>5

--------------------------------------------------------------------------------

\* The inductive invariant: every character is sound, and its past is one that
\* service leaves. RankMatchesNext rests on it, since NextRecompensa is one field
\* for both ladders and a former soldier could bring the legion's back.
IInv == user \in [Users -> Character] /\ \A u \in Users : Past(user[u])

\* What a step may make of a character: a sound one, with no citizen's death more
\* if it is a soldier.
Deed(q, r) ==
  /\ q \in Character /\ Past(q)
  /\ r.armada => q.ciudMatados = r.ciudMatados

\* No soldier's count of citizens changes in the step.
SoldiersCountSame ==
  \A w \in Users : user[w].armada => user'[w].ciudMatados = user[w].ciudMatados

\* What the invariant says of one user.
LEMMA InvCharacter ==
  ASSUME IInv, NEW u \in Users
  PROVE  user[u] \in Character /\ Past(user[u])
BY DEF IInv

\* A step that keeps the record of a sound character is a deed.
LEMMA KeptDeed ==
  ASSUME NEW r \in Character, Past(r), NEW q, Kept(q, r)
  PROVE  Deed(q, r)
<1>1. Past(q)
  BY KeptPast
<1> QED BY <1>1 DEF Deed, Kept, Keeps

\* A deed of one user keeps the invariant,
LEMMA OneDeed ==
  ASSUME IInv, NEW u \in Users, NEW q, Deed(q, user[u]), Set1(u, q)
  PROVE  IInv' /\ SoldiersCountSame
BY DEF IInv, Deed, Set1, SoldiersCountSame

\* and so do the deeds of two users in one step,
LEMMA TwoDeeds ==
  ASSUME IInv, NEW u \in Users, NEW v \in Users, u # v, NEW q, NEW p,
         Deed(q, user[u]), Deed(p, user[v]), Set2(u, q, v, p)
  PROVE  IInv' /\ SoldiersCountSame
BY DEF IInv, Deed, Set2, SoldiersCountSame

\* and a step of one user that keeps its record.
LEMMA OneKept ==
  ASSUME IInv, NEW u \in Users, NEW q, Kept(q, user[u]), Set1(u, q)
  PROVE  IInv' /\ SoldiersCountSame
BY InvCharacter, KeptDeed, OneDeed

\* A blow keeps the attacker's past. That a soldier counts no citizen is what the
\* guards of PuedeAtacar are for: the victim is a criminal, is answered in
\* defence, or dies in a fighting zone.
LEMMA BlowKeepsPast ==
  ASSUME IInv, NEW a \in Users, NEW v \in Users, NEW site, NEW magic, NEW lethal
  PROVE  AfterBlow(a, v, site, magic, lethal) \in Character /\ Past(AfterBlow(a, v, site, magic, lethal))
<1> DEFINE struck == UsuarioAtacadoPorUsuario(user[a], user[v], a, site)
           counted == IF Unprovoked(user[v], a) THEN ContarMuerte(struck, user[v], a, v, site) ELSE struck
           killer == IF magic THEN ActStats(counted, user[v], a) ELSE counted
<1>0. AfterBlow(a, v, site, magic, lethal) = IF lethal THEN killer ELSE struck
  BY DEF AfterBlow, Killer
<1>1. struck \in Character /\ Past(struck)
  BY InvCharacter, AttackKeeps, KeptPast DEF Kept
<1> HIDE DEF struck
<1>2. counted \in Character /\ Past(counted)
  BY <1>1, ContarMuertePast
<1> HIDE DEF counted
<1>3. killer \in Character /\ Past(killer)
  BY <1>2, KeptStill, ActStatsKeeps, KeptPast DEF Kept
<1> HIDE DEF killer
<1> QED BY <1>0, <1>1, <1>3

\* Whom a soldier may attack is a criminal, is answered in defence, or dies in an arena.
LEMMA SoldierGuard ==
  ASSUME NEW a \in Users, NEW v \in Users, NEW site, MayAttack(a, v, site), user[a].armada
  PROVE  criminal(user[v]) \/ ~Unprovoked(user[v], a) \/ SecondInArena(site)
BY Z3T(20) DEF MayAttack, PuedeAtacar, TriggerZonaPelea, IsDefence, SoldierMustSpare, Unprovoked,
     SecondInArena

\* So that a soldier's blow keeps its record.
LEMMA SoldierBlow ==
  ASSUME IInv, NEW a \in Users, NEW v \in Users, NEW site, NEW magic, NEW lethal,
         MayAttack(a, v, site), user[a].armada
  PROVE  Kept(AfterBlow(a, v, site, magic, lethal), user[a])
<1> DEFINE struck == UsuarioAtacadoPorUsuario(user[a], user[v], a, site)
           counted == IF Unprovoked(user[v], a) THEN ContarMuerte(struck, user[v], a, v, site) ELSE struck
           killer == IF magic THEN ActStats(counted, user[v], a) ELSE counted
<1>0. AfterBlow(a, v, site, magic, lethal) = IF lethal THEN killer ELSE struck
  BY DEF AfterBlow, Killer
<1>a. user[a] \in Character
  BY InvCharacter
<1>1. Kept(struck, user[a])
  BY <1>a, AttackKeeps
<1> HIDE DEF struck
<1>2. Kept(counted, user[a])
  <2>1. struck \in Character
    BY <1>1 DEF Kept
  <2>2. Kept(ContarMuerte(struck, user[v], a, v, site), struck)
    BY <2>1, SoldierGuard, ContarMuerteKeeps
  <2> QED BY <1>a, <1>1, <2>2, KeptTwice
<1> HIDE DEF counted
<1>3. Kept(killer, user[a])
  BY <1>a, <1>2, ActStatsKeeps
<1> HIDE DEF killer
<1> QED BY <1>0, <1>1, <1>3

\* A blow of one user to another, lethal or not.
LEMMA AttackStep ==
  ASSUME IInv, NEW a \in Users, NEW v \in Users, NEW site, NEW magic, Attack(a, v, site, magic)
  PROVE  IInv' /\ SoldiersCountSame
<1>1. ASSUME NEW lethal PROVE Deed(AfterBlow(a, v, site, magic, lethal), user[a])
  <2>1. CASE user[a].armada
    BY <2>1, SoldierBlow, KeptDeed, InvCharacter DEF Attack
  <2>2. CASE ~user[a].armada
    BY <2>2, BlowKeepsPast DEF Deed
  <2> QED BY <2>1, <2>2
<1>2. Deed(Dies(user[v]), user[v])
  BY InvCharacter, KeptStill, DiesKeeps, KeptDeed
<1>3. a # v
  BY DEF Attack, MayAttack
<1>4. CASE Set1(a, AfterBlow(a, v, site, magic, FALSE))
  BY <1>1, <1>4, OneDeed
<1>5. CASE Set2(a, AfterBlow(a, v, site, magic, TRUE), v, Dies(user[v]))
  BY <1>1, <1>2, <1>3, <1>5, TwoDeeds
<1> QED BY <1>4, <1>5 DEF Attack

\* A pet's spell is the deed of a master that counts what it kills.
LEMMA PetStep ==
  ASSUME IInv, NEW m \in Users, NEW v \in Users, NEW site, PetKills(m, v, site)
  PROVE  IInv'
<1> DEFINE dead == Dies(user[v])
           counted == ContarMuerte(user[m], dead, m, v, site)
           paid == ActStats(counted, dead, m)
<1>1. m # v /\ Set2(m, paid, v, dead)
  BY DEF PetKills
<1>2. dead \in Character /\ Past(dead)
  BY InvCharacter, KeptStill, DiesKeeps, KeptPast DEF Kept
<1> HIDE DEF dead
<1>3. counted \in Character /\ Past(counted)
  BY InvCharacter, ContarMuertePast
<1> HIDE DEF counted
<1>4. paid \in Character /\ Past(paid)
  BY <1>3, KeptStill, ActStatsKeeps, KeptPast DEF Kept
<1> HIDE DEF paid
<1> QED BY <1>1, <1>2, <1>4 DEF IInv, Set2

\* The other deeds, one lemma for each kind.
LEMMA ReviveStep ==
  ASSUME IInv, NEW c \in Users, NEW t \in Users, NEW site, Revive(c, t, site)
  PROVE  IInv' /\ SoldiersCountSame
<1> DEFINE paid == SupportCost(user[c], user[t], c, site, TRUE)
           honoured == [paid EXCEPT !.noble = Capped(@ + SpellNoble)]
           thanked == IF criminal(user[t]) THEN paid ELSE honoured
           risen == [user[t] EXCEPT !.muerto = FALSE]
<1>1. PICK exhausted \in BOOLEAN :
        Set2(c, IF exhausted THEN Dies(thanked) ELSE thanked, t, risen)
  BY DEF Revive
<1>2. c # t
  BY DEF Revive
<1>3. user[c] \in Character /\ Past(user[c]) /\ user[t] \in Character /\ Past(user[t])
  BY InvCharacter
<1>4. Kept(paid, user[c])
  BY <1>3, SupportKeeps
<1> HIDE DEF paid
<1>5. Kept(honoured, user[c])
  BY <1>3, <1>4, NewReputation, Adds, ConstantTypes DEF Kept
<1> HIDE DEF honoured
<1>6. Kept(thanked, user[c])
  BY <1>4, <1>5
<1> HIDE DEF thanked
<1>7. Deed(IF exhausted THEN Dies(thanked) ELSE thanked, user[c])
  BY <1>3, <1>6, DiesKeeps, KeptDeed
<1>8. Deed(risen, user[t])
  BY <1>3, KeptStill, NewLife, KeptDeed
<1> HIDE DEF risen
<1> QED BY <1>1, <1>2, <1>7, <1>8, TwoDeeds

\* A user killed by a creature or a guard.
LEMMA CreatureKillsStep ==
  ASSUME IInv, NEW v \in Users, CreatureKills(v)
  PROVE  IInv' /\ SoldiersCountSame
<1> DEFINE judged(b) == IF b THEN RestarCriminalidad(user[v]) ELSE user[v]
<1>1. PICK guard \in BOOLEAN, magic \in BOOLEAN :
        Set1(v, Dies(judged(guard /\ (magic \/ criminal(user[v])))))
  BY DEF CreatureKills
<1>2. ASSUME NEW b PROVE Kept(Dies(judged(b)), user[v])
  <2>1. Kept(judged(b), user[v])
    BY InvCharacter, RestarKeeps, KeptStill
  <2> QED BY <2>1, InvCharacter, DiesKeeps
<1> HIDE DEF judged
<1> QED BY <1>1, <1>2, OneKept

\* An attack on a creature, and the price of a guard.
LEMMA AttackNpcStep ==
  ASSUME IInv, NEW u \in Users, NEW n \in Creatures, NEW magic, AttackNpc(u, n, magic)
  PROVE  IInv' /\ SoldiersCountSame
<1> DEFINE owner == IF n.maestro = NoUser THEN user[u] ELSE user[n.maestro]
           paid(arena) == GuardPrice(user[u], n, arena)
           blamed(arena) == IF magic THEN NPCAtacado(paid(arena), owner, n, u, arena) ELSE paid(arena)
<1>1. PICK arena \in BOOLEAN, lethal \in BOOLEAN :
        Set1(u, IF lethal THEN MuereNpc(blamed(arena), n) ELSE blamed(arena))
  BY DEF AttackNpc
<1>2. user[u] \in Character
  BY InvCharacter
<1>3. Kept(paid(arena), user[u])
  BY <1>2, GuardPriceKeeps
<1> HIDE DEF paid, owner
<1>4. Kept(blamed(arena), user[u])
  BY <1>2, <1>3, NPCAtacadoKeeps
<1> HIDE DEF blamed
<1>5. Kept(IF lethal THEN MuereNpc(blamed(arena), n) ELSE blamed(arena), user[u])
  BY <1>2, <1>4, MuereNpcKeeps
<1> QED BY <1>1, <1>5, OneKept

\* A theft.
LEMMA RobStep ==
  ASSUME IInv, NEW u \in Users, NEW v \in Users, DoRobar(u, v)
  PROVE  IInv' /\ SoldiersCountSame
<1> DEFINE thief(arena) == IF ~criminal(user[u]) /\ ~criminal(user[v])
                           THEN VolverCriminal(user[u], arena) ELSE user[u]
           marked(arena) == [thief(arena) EXCEPT !.ladrones = Capped(@ + vlLadron)]
<1>1. PICK arena \in BOOLEAN : Set1(u, IF criminal(thief(arena)) THEN marked(arena) ELSE thief(arena))
  BY DEF DoRobar
<1>2. user[u] \in Character
  BY InvCharacter
<1>3. Kept(thief(arena), user[u])
  BY <1>2, VolverCriminalKeeps, KeptStill
<1> HIDE DEF thief
<1>4. Kept(marked(arena), user[u])
  BY <1>2, <1>3, NewReputation, Adds, ConstantTypes DEF Kept
<1> HIDE DEF marked
<1> QED BY <1>1, <1>3, <1>4, OneKept

\* Work, pardons, leaving a faction, resurrection and the end of an attack's memory.
LEMMA SmallSteps ==
  ASSUME IInv, NEW u \in Users,
         Work(u) \/ Pardon(u) \/ Leave(u) \/ RevivirUsuario(u) \/ AtacableExpires(u)
  PROVE  IInv' /\ SoldiersCountSame
<1>0. user[u] \in Character
  BY InvCharacter
<1>1. CASE Work(u)
  <2>1. Kept([user[u] EXCEPT !.plebe = Capped(@ + vlProleta)], user[u])
    BY <1>0, KeptStill, NewReputation, Adds, ConstantTypes
  <2> QED BY <1>1, <2>1, OneKept DEF Work
<1>2. CASE Pardon(u)
  BY <1>0, <1>2, KeptStill, VolverCiudadanoKeeps, OneKept DEF Pardon
<1>3. CASE Leave(u)
  BY <1>0, <1>3, KeptStill, Expulsions, OneKept DEF Leave
<1>4. CASE RevivirUsuario(u)
  <2>1. Kept([user[u] EXCEPT !.muerto = FALSE], user[u])
    BY <1>0, KeptStill, NewLife
  <2> QED BY <1>4, <2>1, OneKept DEF RevivirUsuario
<1>5. CASE AtacableExpires(u)
  <2>1. Kept([user[u] EXCEPT !.atacablePor = NoUser], user[u])
    BY <1>0, KeptStill, NewUser, Limits
  <2> QED BY <1>5, <2>1, OneKept DEF AtacableExpires
<1> QED BY <1>1, <1>2, <1>3, <1>4, <1>5

\* Help given to another user.
LEMMA SupportStep ==
  ASSUME IInv, NEW c \in Users, NEW t \in Users, NEW site, NEW grave, Support(c, t, site, grave)
  PROVE  IInv' /\ SoldiersCountSame
BY InvCharacter, SupportKeeps, OneKept DEF Support

--------------------------------------------------------------------------------
(* The army and the legion are what changes the record of service. *)

\* The rungs of a ladder.
LEMMA Rungs ==
  ASSUME NEW ladder \in {RealLadder, CaosLadder}
  PROVE  /\ ladder \in Ladder /\ Len(ladder) \in Nat \ {0}
         /\ \A i \in 1..Len(ladder) : ladder[i].next \in LadderNext(ladder)
<1>1. ladder \in Ladder /\ ladder # <<>>
  BY FactionAssumption
<1> QED BY <1>1 DEF Ladder, LadderNext

\* The first rung of each ladder names a rank that exists.
LEMMA EnterTypes ==
  /\ 0 \in RealRanks /\ 0 \in CaosRanks
  /\ RealLadder[1].next \in Rewards /\ CaosLadder[1].next \in Rewards
<1>1. Len(RealLadder) \in Nat \ {0} /\ RealLadder[1].next \in LadderNext(RealLadder)
  BY Rungs
<1>2. Len(CaosLadder) \in Nat \ {0} /\ CaosLadder[1].next \in LadderNext(CaosLadder)
  BY Rungs
<1> QED BY <1>1, <1>2 DEF RealRanks, CaosRanks, Rewards

\* An enlistment that passes the limit's guard is counted within its bound.
LEMMA OneMoreEnlistment ==
  ASSUME NEW r \in Character, r.reenlistadas <= MaxReenl
  PROVE  r.reenlistadas + 1 \in Enlistments
BY FactionAssumption DEF Character, Enlistments

\* The army takes nobody who ever killed a citizen, so nobody the legion took.
LEMMA RoyalStep ==
  ASSUME IInv, NEW u \in Users, EnlistarArmadaReal(u)
  PROVE  IInv' /\ SoldiersCountSame
<1> DEFINE r == user[u]
           r1 == [r EXCEPT !.armada = TRUE]
           r2 == [r1 EXCEPT !.reenlistadas = @ + 1]
           r3 == [r2 EXCEPT !.sirvioReal = TRUE]
           r4 == [r3 EXCEPT !.rangoReal = 0]
           r5 == [r4 EXCEPT !.next = RealLadder[1].next]
<1>1. r \in Character /\ Past(r)
  BY InvCharacter
<1>2. /\ ~r.armada /\ ~r.caos /\ r.ciudMatados = 0 /\ r.reenlistadas <= MaxReenl
      /\ Set1(u, IF r.sirvioReal THEN r2 ELSE r5)
  BY DEF EnlistarArmadaReal
<1> HIDE DEF r
<1>3. ~r.sirvioCaos
  BY <1>1, <1>2 DEF Past
<1>4. r1 \in Character
  <2>1. ASSUME NEW b \in BOOLEAN PROVE [r EXCEPT !.armada = b] \in Character
    BY <1>1, <2>1, Z3T(20) DEF Character
  <2> QED BY <2>1
<1>5. r1.reenlistadas = r.reenlistadas
  BY <1>1 DEF Character
<1>6. r2 \in Character
  <2>1. r1.reenlistadas + 1 \in Enlistments
    BY <1>2, <1>4, <1>5, OneMoreEnlistment
  <2> HIDE DEF r1
  <2> QED BY <1>4, <2>1, Z3T(20) DEF Character
<1>7. /\ r2.armada /\ r2.caos = r.caos /\ r2.sirvioReal = r.sirvioReal /\ r2.sirvioCaos = r.sirvioCaos
      /\ r2.next = r.next /\ r2.rangoReal = r.rangoReal
  BY <1>1, Z3T(20) DEF Character
<1>8. r.sirvioReal => Past(r2)
  BY <1>1, <1>2, <1>3, <1>7 DEF Past
<1> HIDE DEF r2
<1>9. r3 \in Character
  <2>1. ASSUME NEW b \in BOOLEAN PROVE [r2 EXCEPT !.sirvioReal = b] \in Character
    BY <1>6, <2>1, Z3T(20) DEF Character
  <2> QED BY <2>1
<1>10. r3.armada /\ r3.caos = r.caos /\ r3.sirvioReal /\ r3.sirvioCaos = r.sirvioCaos
  BY <1>6, <1>7, Z3T(20) DEF Character
<1> HIDE DEF r3
<1>11. r4 \in Character
  BY <1>9, EnterTypes, Z3T(20) DEF Character
<1>12. r5 \in Character
  <2> HIDE DEF r4
  <2> QED BY <1>11, EnterTypes, Z3T(20) DEF Character
<1>13. /\ r5.caos = r.caos /\ r5.sirvioReal /\ r5.sirvioCaos = r.sirvioCaos
       /\ r5.next = RealLadder[1].next /\ r5.rangoReal = 0
  BY <1>9, <1>10, Z3T(20) DEF Character
<1> HIDE DEF r5
<1>14. Past(r5)
  BY <1>2, <1>3, <1>13 DEF Past
<1>15. Deed(IF r.sirvioReal THEN r2 ELSE r5, r)
  BY <1>2, <1>6, <1>8, <1>12, <1>14 DEF Deed
<1> QED BY <1>2, <1>15, OneDeed DEF r

\* The legion takes nobody the army ever took, and only killers of citizens.
LEMMA ChaosStep ==
  ASSUME IInv, NEW u \in Users, EnlistarCaos(u)
  PROVE  IInv' /\ SoldiersCountSame
<1> DEFINE r == user[u]
           r1 == [r EXCEPT !.caos = TRUE]
           r2 == [r1 EXCEPT !.reenlistadas = @ + 1]
           r3 == [r2 EXCEPT !.sirvioCaos = TRUE]
           r4 == [r3 EXCEPT !.rangoCaos = 0]
           r5 == [r4 EXCEPT !.next = CaosLadder[1].next]
<1>1. r \in Character /\ Past(r)
  BY InvCharacter
<1>2. /\ ~r.caos /\ ~r.armada /\ r.ciudMatados >= MinCiud /\ ~r.sirvioReal /\ r.reenlistadas <= MaxReenl
      /\ Set1(u, IF r.sirvioCaos THEN r2 ELSE r5)
  BY DEF EnlistarCaos, NeverRoyal
<1> HIDE DEF r
<1>3. ~r.sirvioReal
  BY <1>2
<1>4. r1 \in Character
  <2>1. ASSUME NEW b \in BOOLEAN PROVE [r EXCEPT !.caos = b] \in Character
    BY <1>1, <2>1, Z3T(20) DEF Character
  <2> QED BY <2>1
<1>5. r1.reenlistadas = r.reenlistadas
  BY <1>1 DEF Character
<1>6. r2 \in Character
  <2>1. r1.reenlistadas + 1 \in Enlistments
    BY <1>2, <1>4, <1>5, OneMoreEnlistment
  <2> HIDE DEF r1
  <2> QED BY <1>4, <2>1, Z3T(20) DEF Character
<1>7. /\ r2.caos /\ r2.armada = r.armada /\ r2.sirvioCaos = r.sirvioCaos /\ r2.sirvioReal = r.sirvioReal
      /\ r2.next = r.next /\ r2.rangoCaos = r.rangoCaos /\ r2.ciudMatados = r.ciudMatados
  BY <1>1, Z3T(20) DEF Character
<1>8. r.sirvioCaos => Past(r2)
  BY <1>1, <1>2, <1>3, <1>7 DEF Past
<1> HIDE DEF r2
<1>9. r3 \in Character
  <2>1. ASSUME NEW b \in BOOLEAN PROVE [r2 EXCEPT !.sirvioCaos = b] \in Character
    BY <1>6, <2>1, Z3T(20) DEF Character
  <2> QED BY <2>1
<1>10. r3.ciudMatados = r.ciudMatados /\ r3.caos /\ r3.armada = r.armada /\ r3.sirvioCaos /\ r3.sirvioReal = r.sirvioReal
  BY <1>6, <1>7, Z3T(20) DEF Character
<1> HIDE DEF r3
<1>11. r4 \in Character
  BY <1>9, EnterTypes, Z3T(20) DEF Character
<1>12. r5 \in Character
  <2> HIDE DEF r4
  <2> QED BY <1>11, EnterTypes, Z3T(20) DEF Character
<1>13. /\ r5.armada = r.armada /\ r5.sirvioCaos /\ r5.sirvioReal = r.sirvioReal
       /\ r5.ciudMatados = r.ciudMatados /\ r5.next = CaosLadder[1].next /\ r5.rangoCaos = 0
  BY <1>9, <1>10, Z3T(20) DEF Character
<1> HIDE DEF r5
<1>14. Past(r5)
  <2>1. r.ciudMatados > 0
    BY <1>1, <1>2, Numbers, FactionAssumption
  <2> QED BY <1>2, <1>3, <1>13, <2>1 DEF Past
<1>15. Deed(IF r.sirvioCaos THEN r2 ELSE r5, r)
  BY <1>2, <1>6, <1>8, <1>12, <1>14 DEF Deed
<1> QED BY <1>2, <1>15, OneDeed DEF r

\* A reward is the rung of the next one, which becomes that of the rank above.
LEMMA RoyalReward ==
  ASSUME IInv, NEW u \in Users, RecompensaArmadaReal(u)
  PROVE  IInv' /\ SoldiersCountSame
<1> DEFINE r == user[u]
<1>0. r \in Character
  BY InvCharacter
<1>1. Past(r) /\ r.armada
  BY InvCharacter DEF RecompensaArmadaReal
<1>2. PICK i \in 1..Len(RealLadder) - 1 :
        Set1(u, [r EXCEPT !.rangoReal = i, !.next = RealLadder[i + 1].next])
  BY DEF RecompensaArmadaReal, Rung, NextRung
<1> DEFINE r1 == [r EXCEPT !.rangoReal = i]
           r2 == [r1 EXCEPT !.next = RealLadder[i + 1].next]
<1> HIDE DEF r
<1>3. r.sirvioReal /\ ~r.sirvioCaos
  BY <1>1 DEF Past
<1>4. i \in RealRanks /\ RealLadder[i + 1].next \in Rewards
  <2>1. Len(RealLadder) \in Nat \ {0} /\ i + 1 \in 1..Len(RealLadder) /\ i \in 0..Len(RealLadder)
    BY Rungs
  <2> QED BY <2>1, Rungs DEF RealRanks, Rewards
<1>5. r1 \in Character
  BY <1>0, <1>4, Z3T(20) DEF Character
<1>6. r2 \in Character
  <2> HIDE DEF r1
  <2> QED BY <1>5, <1>4, Z3T(20) DEF Character
<1>7. /\ r2.armada = r.armada /\ r2.caos = r.caos
      /\ r2.sirvioReal = r.sirvioReal /\ r2.sirvioCaos = r.sirvioCaos
      /\ r2.rangoReal = i /\ r2.next = RealLadder[i + 1].next /\ r2.ciudMatados = r.ciudMatados
  <2>1. /\ r1.armada = r.armada /\ r1.caos = r.caos
        /\ r1.sirvioReal = r.sirvioReal /\ r1.sirvioCaos = r.sirvioCaos
        /\ r1.rangoReal = i /\ r1.ciudMatados = r.ciudMatados
    <3>1. ASSUME NEW n PROVE
            LET q == [r EXCEPT !.rangoReal = n]
            IN /\ q.armada = r.armada /\ q.caos = r.caos
               /\ q.sirvioReal = r.sirvioReal /\ q.sirvioCaos = r.sirvioCaos
               /\ q.rangoReal = n /\ q.ciudMatados = r.ciudMatados
      BY <1>0, Z3T(20) DEF Character
    <3> QED BY <3>1
  <2> HIDE DEF r1
  <2>2. ASSUME NEW n PROVE
          LET q == [r1 EXCEPT !.next = n]
          IN /\ q.armada = r1.armada /\ q.caos = r1.caos
             /\ q.sirvioReal = r1.sirvioReal /\ q.sirvioCaos = r1.sirvioCaos
             /\ q.rangoReal = r1.rangoReal /\ q.next = n /\ q.ciudMatados = r1.ciudMatados
    BY <1>5, Z3T(20) DEF Character
  <2> QED BY <2>1, <2>2
<1>8. Set1(u, r2)
  BY <1>2
<1> HIDE DEF r2
<1>9. Past(r2)
  BY <1>1, <1>3, <1>7 DEF Past
<1>10. Deed(r2, r)
  BY <1>6, <1>7, <1>9 DEF Deed
<1> QED BY <1>8, <1>10, OneDeed DEF r

\* The legion's rewards, on its own ladder.
LEMMA ChaosReward ==
  ASSUME IInv, NEW u \in Users, RecompensaCaos(u)
  PROVE  IInv' /\ SoldiersCountSame
<1> DEFINE r == user[u]
<1>0. r \in Character
  BY InvCharacter
<1>1. Past(r) /\ r.caos
  BY InvCharacter DEF RecompensaCaos
<1>2. PICK i \in 1..Len(CaosLadder) - 1 :
        Set1(u, [r EXCEPT !.rangoCaos = i, !.next = CaosLadder[i + 1].next])
  BY DEF RecompensaCaos, Rung, NextRung
<1> DEFINE r1 == [r EXCEPT !.rangoCaos = i]
           r2 == [r1 EXCEPT !.next = CaosLadder[i + 1].next]
<1> HIDE DEF r
<1>3. r.sirvioCaos /\ ~r.sirvioReal
  BY <1>1 DEF Past
<1>4. i \in CaosRanks /\ CaosLadder[i + 1].next \in Rewards
  <2>1. Len(CaosLadder) \in Nat \ {0} /\ i + 1 \in 1..Len(CaosLadder) /\ i \in 0..Len(CaosLadder)
    BY Rungs
  <2> QED BY <2>1, Rungs DEF CaosRanks, Rewards
<1>5. r1 \in Character
  BY <1>0, <1>4, Z3T(20) DEF Character
<1>6. r2 \in Character
  <2> HIDE DEF r1
  <2> QED BY <1>5, <1>4, Z3T(20) DEF Character
<1>7. /\ r2.caos = r.caos /\ r2.armada = r.armada
      /\ r2.sirvioCaos = r.sirvioCaos /\ r2.sirvioReal = r.sirvioReal
      /\ r2.rangoCaos = i /\ r2.next = CaosLadder[i + 1].next /\ r2.ciudMatados = r.ciudMatados
  <2>1. /\ r1.caos = r.caos /\ r1.armada = r.armada
        /\ r1.sirvioCaos = r.sirvioCaos /\ r1.sirvioReal = r.sirvioReal
        /\ r1.rangoCaos = i /\ r1.ciudMatados = r.ciudMatados
    <3>1. ASSUME NEW n PROVE
            LET q == [r EXCEPT !.rangoCaos = n]
            IN /\ q.caos = r.caos /\ q.armada = r.armada
               /\ q.sirvioCaos = r.sirvioCaos /\ q.sirvioReal = r.sirvioReal
               /\ q.rangoCaos = n /\ q.ciudMatados = r.ciudMatados
      BY <1>0, Z3T(20) DEF Character
    <3> QED BY <3>1
  <2> HIDE DEF r1
  <2>2. ASSUME NEW n PROVE
          LET q == [r1 EXCEPT !.next = n]
          IN /\ q.caos = r1.caos /\ q.armada = r1.armada
             /\ q.sirvioCaos = r1.sirvioCaos /\ q.sirvioReal = r1.sirvioReal
             /\ q.rangoCaos = r1.rangoCaos /\ q.next = n /\ q.ciudMatados = r1.ciudMatados
    BY <1>5, Z3T(20) DEF Character
  <2> QED BY <2>1, <2>2
<1>8. Set1(u, r2)
  BY <1>2
<1> HIDE DEF r2
<1>9. Past(r2)
  BY <1>1, <1>3, <1>7 DEF Past
<1>10. Deed(r2, r)
  BY <1>6, <1>7, <1>9 DEF Deed
<1> QED BY <1>8, <1>10, OneDeed DEF r

--------------------------------------------------------------------------------

\* Every step, but for who is a soldier when its pet kills.
LEMMA EveryStep ==
  ASSUME IInv, Next
  PROVE  /\ IInv'
         /\ SoldiersCountSame \/ \E m \in Players, v \in Users, site \in Sites : PetKills(m, v, site)
<1>0. Players \subseteq Users
  BY FactionAssumption
<1>1. CASE \E a \in Players, v \in Users, site \in Sites, magic \in BOOLEAN : Attack(a, v, site, magic)
  BY <1>0, <1>1, AttackStep
<1>2. CASE \E m \in Players, v \in Users, site \in Sites : PetKills(m, v, site)
  BY <1>0, <1>2, PetStep
<1>3. CASE \E c \in Players, t \in Users, site \in Sites, grave \in BOOLEAN : Support(c, t, site, grave)
  BY <1>0, <1>3, SupportStep
<1>4. CASE \E c \in Players, t \in Users, site \in Sites : Revive(c, t, site)
  BY <1>0, <1>4, ReviveStep
<1>5. CASE \E u \in Players, v \in Users : DoRobar(u, v)
  BY <1>0, <1>5, RobStep
<1>6. CASE \E u \in Players :
             \/ Work(u) \/ EnlistarArmadaReal(u) \/ EnlistarCaos(u) \/ Leave(u)
             \/ RecompensaArmadaReal(u) \/ RecompensaCaos(u) \/ Pardon(u)
  BY <1>0, <1>6, SmallSteps, RoyalStep, ChaosStep, RoyalReward, ChaosReward
<1>7. CASE \E u \in Users, n \in Creatures, magic \in BOOLEAN :
             (u \in Players \/ n.maestro \in Players) /\ AttackNpc(u, n, magic)
  BY <1>7, AttackNpcStep
<1>8. CASE \E u \in Users : CreatureKills(u) \/ RevivirUsuario(u) \/ AtacableExpires(u)
  BY <1>8, CreatureKillsStep, SmallSteps
<1> QED BY <1>1, <1>2, <1>3, <1>4, <1>5, <1>6, <1>7, <1>8 DEF Next

\* The invariant holds from the first characters on.
THEOREM FactionInvariant == Spec => []IInv
<1>1. Init => IInv
  BY CharactersAssumption DEF Init, IInv
<1>2. IInv /\ [Next]_user => IInv'
  <2>1. CASE Next
    BY <2>1, EveryStep
  <2>2. CASE UNCHANGED user
    BY <2>2 DEF IInv
  <2> QED BY <2>1, <2>2
<1> QED BY <1>1, <1>2, PTL DEF Spec

\* Nobody has served both the army and the legion, for any number of users, ladders
\* and limits (EnlistarArmadaReal, EnlistarCaos).
THEOREM ServedOneSide == Spec => []NeverServedBoth
<1>1. IInv => NeverServedBoth
  BY DEF IInv, Past, NeverServedBoth
<1> QED BY <1>1, FactionInvariant, PTL

\* Characters keep their types, and the next reward of a member is the one that
\* follows its rank (RecompensaArmadaReal, RecompensaCaos).
THEOREM RanksAreSound == Spec => []RanksSound
<1>1. IInv => RanksSound
  BY DEF IInv, Past, RanksSound, TypeOK, RankMatchesNext
<1> QED BY <1>1, FactionInvariant, PTL

\* What a pet kills is counted to its master alone.
LEMMA PetCounts ==
  ASSUME IInv, NEW m \in Users, NEW v \in Users, NEW site, PetKills(m, v, site), NEW a \in Users, a # m
  PROVE  user'[a].ciudMatados = user[a].ciudMatados
<1> DEFINE q == ActStats(ContarMuerte(user[m], Dies(user[v]), m, v, site), Dies(user[v]), m)
<1>1. m # v /\ user' = [user EXCEPT ![m] = q, ![v] = Dies(user[v])]
  BY DEF PetKills, Set2
<1> HIDE DEF q
<1>2. Dies(user[v]).ciudMatados = user[v].ciudMatados
  BY InvCharacter, KeptStill, DiesKeeps DEF Kept, Keeps
<1> QED BY <1>1, <1>2 DEF IInv

\* No soldier of the army ever counts a citizen's death, but for those of its pet's
\* spells (PuedeAtacar, ContarMuerte, VolverCriminal).
THEOREM SoldiersSpare == Spec => SoldierSpares
<1> DEFINE Spared ==
      \A a \in Players :
        user[a].armada /\ user'[a].ciudMatados > user[a].ciudMatados
        => \E v \in Users, site \in Sites : PetKills(a, v, site)
<1>0. Players \subseteq Users
  BY FactionAssumption
<1>1. IInv /\ [Next]_user => [Spared]_user
  <2> SUFFICES ASSUME IInv, Next, NEW a \in Players, user[a].armada,
                      user'[a].ciudMatados > user[a].ciudMatados
               PROVE  \E v \in Users, site \in Sites : PetKills(a, v, site)
    OBVIOUS
  <2>1. user[a].ciudMatados \in Nat
    BY <1>0, InvCharacter, Numbers
  <2>2. user'[a].ciudMatados # user[a].ciudMatados
    BY <2>1
  <2>3. PICK m \in Players, v \in Users, site \in Sites : PetKills(m, v, site)
    BY <1>0, <2>2, EveryStep DEF SoldiersCountSame
  <2> QED BY <1>0, <2>2, <2>3, PetCounts
<1> QED BY <1>1, FactionInvariant, PTL DEF Spec, SoldierSpares

--------------------------------------------------------------------------------
(* What one blow does, in any state with sound characters. *)

\* Outside of a duel a user may attack another only where neither stands in a
\* fighting zone, and a soldier only criminals, or in defence.
LEMMA Outside ==
  ASSUME NEW a, NEW v, NEW site \in Sites \ {"duel"}, MayAttack(a, v, site)
  PROVE  /\ TriggerZonaPelea(site) # "PERMITE" /\ ~FirstInArena(site) /\ ~SecondInArena(site)
         /\ IsDefence(user[a], user[v], a) \/ criminal(user[v]) \/ ~user[a].armada
BY Z3T(20) DEF MayAttack, PuedeAtacar, TriggerZonaPelea, FirstInArena, SecondInArena, SoldierMustSpare, Sites

\* Whoever strikes back at who took its creature loses nothing by it
\* (UsuarioAtacadoPorUsuario, ContarMuerte, ActStats).
THEOREM DefenceCostsNothing == Spec => []DefenceIsFree
<1>1. DefenceIsFree
  <2> SUFFICES ASSUME NEW a \in Players, NEW v \in Users, NEW site \in Sites \ {"duel"},
                      NEW magic \in BOOLEAN, NEW lethal \in BOOLEAN,
                      MayAttack(a, v, site), IsDefence(user[a], user[v], a)
               PROVE  AfterBlow(a, v, site, magic, lethal) = user[a]
    BY DEF DefenceIsFree
  <2>1. ~Unprovoked(user[v], a)
    BY DEF IsDefence, Unprovoked
  <2>2. UsuarioAtacadoPorUsuario(user[a], user[v], a, site) = user[a]
    BY DEF UsuarioAtacadoPorUsuario, BecomesCriminal
  <2> QED BY <2>1, <2>2 DEF AfterBlow, Killer, ActStats
<1> QED BY <1>1, PTL

\* A deed that is no virtue: it takes from the good reputations and adds to the bad.
Worse(q, r) ==
  /\ q.noble <= r.noble /\ q.plebe <= r.plebe
  /\ q.asesino >= r.asesino /\ q.bandido >= r.bandido /\ q.ladrones >= r.ladrones

\* Who is a criminal and then has a reputation no better stays one.
LEMMA WorseIsCriminal ==
  ASSUME NEW r \in Character, NEW q \in Character, Worse(q, r), criminal(r)
  PROVE  criminal(q)
<1> DEFINE sum(x) == x.noble + x.plebe - x.asesino - x.bandido - x.ladrones
<1>1. ASSUME NEW x \in Character
      PROVE  x.noble \in Nat /\ x.plebe \in Nat /\ x.asesino \in Nat /\ x.bandido \in Nat /\ x.ladrones \in Nat
  BY <1>1, Numbers, Limits
<1>2. sum(q) <= sum(r) /\ sum(q) \in Int /\ sum(r) \in Int
  BY <1>1 DEF Worse
<1>3. Parts \in Nat
  BY ConductAssumption
<1> HIDE DEF sum
<1>4. sum(r) <= -Parts => sum(q) <= -Parts
  BY <1>2, <1>3
<1> QED BY <1>4 DEF criminal, sum

\* A soldier no more, if it was one.
LEMMA AttackMarks ==
  ASSUME NEW r \in Character, NEW v, NEW attacker, NEW site,
         TriggerZonaPelea(site) # "PERMITE", ~FirstInArena(site),
         ~criminal(v), ~IsDefence(r, v, attacker), criminal(r) => ~r.armada
  PROVE  LET after == UsuarioAtacadoPorUsuario(r, v, attacker, site)
         IN after \in Character /\ criminal(after) /\ ~after.armada
<1> DEFINE turned == IF criminal(r) THEN r ELSE VolverCriminal(r, FALSE)
           t1 == [turned EXCEPT !.bandido = Capped(@ + vlASALTO)]
           t2 == [t1 EXCEPT !.noble = @ \div 2]
<1>0. UsuarioAtacadoPorUsuario(r, v, attacker, site) = t2
  <2>1. VolverCriminal(r, FirstInArena(site)) = VolverCriminal(r, FALSE)
    BY DEF VolverCriminal
  <2>2. BecomesCriminal(r, v, IsDefence(r, v, attacker), FirstInArena(site)) = turned
    BY <2>1 DEF BecomesCriminal
  <2> QED BY <2>2 DEF UsuarioAtacadoPorUsuario
<1>1. turned \in Character /\ ~turned.armada
  <2>1. CASE criminal(r)
    BY <2>1
  <2>2. CASE ~criminal(r)
    <3>1. VolverCriminal(r, FALSE) \in Character
      BY KeptStill, VolverCriminalKeeps DEF Kept
    <3>2. ~VolverCriminal(r, FALSE).armada
      BY Z3T(20) DEF VolverCriminal, ExpulsarFaccionReal, Character
    <3> QED BY <2>2, <3>1, <3>2
  <2> QED BY <2>1, <2>2
<1>2. criminal(turned)
  <2>1. CASE criminal(r)
    BY <2>1
  <2>2. CASE ~criminal(r)
    <3> DEFINE w == VolverCriminal(r, FALSE)
    <3>1. w.noble = 0 /\ w.plebe = 0 /\ w.bandido = Capped(r.bandido + vlASALTO)
      BY Z3T(20) DEF VolverCriminal, ExpulsarFaccionReal, Character
    <3>2. w \in Character /\ turned = w
      BY <2>2, KeptStill, VolverCriminalKeeps DEF Kept
    <3> HIDE DEF w
    <3>3. w.asesino \in Nat /\ w.ladrones \in Nat /\ w.bandido \in Nat /\ r.bandido \in Nat
      BY <3>2, Numbers, Limits
    <3>4. w.bandido >= Parts /\ Parts \in Nat
      BY <3>1, <3>3, ConductAssumption DEF Capped
    <3>5. w.noble + w.plebe - w.asesino - w.bandido - w.ladrones <= -Parts
      BY <3>1, <3>3, <3>4
    <3> QED BY <3>2, <3>5 DEF criminal
  <2> QED BY <2>1, <2>2
<1> HIDE DEF turned
<1>3. t2 \in Character
  <2>1. Kept(t1, turned)
    BY <1>1, KeptStill, NewReputation, Adds, ConstantTypes
  <2>2. Kept(t2, turned)
    BY <1>1, <2>1, NewReputation, Numbers, Halved DEF Kept
  <2> QED BY <2>2 DEF Kept
<1>4. t2.armada = turned.armada
  BY <1>1, Z3T(20) DEF Character
<1>5. Worse(t2, turned)
  <2>1. /\ t2.plebe = turned.plebe /\ t2.asesino = turned.asesino /\ t2.ladrones = turned.ladrones
        /\ t2.bandido = Capped(turned.bandido + vlASALTO) /\ t2.noble = turned.noble \div 2
    BY <1>1, Z3T(20) DEF Character
  <2>2. Capped(turned.bandido + vlASALTO) >= turned.bandido
    BY <1>1, Numbers, ConstantTypes DEF Capped, Reputation
  <2>3. turned.noble \div 2 <= turned.noble
    <3>1. turned.noble \in Nat
      BY <1>1, Numbers, Limits
    <3> QED BY <3>1, Z3
  <2>4. turned.plebe \in Nat /\ turned.asesino \in Nat /\ turned.ladrones \in Nat
    BY <1>1, Numbers, Limits
  <2> HIDE DEF t2
  <2> QED BY <2>1, <2>2, <2>3, <2>4 DEF Worse
<1> HIDE DEF t2
<1>6. criminal(t2)
  BY <1>1, <1>2, <1>3, <1>5, WorseIsCriminal
<1> QED BY <1>0, <1>1, <1>3, <1>4, <1>6

\* A killing of no criminal clears nobody.
LEMMA KillMarks ==
  ASSUME NEW r \in Character, criminal(r), ~r.armada, NEW v, NEW attacker, NEW victim \in Users,
         NEW site, NEW magic, ~criminal(v)
  PROVE  LET after == Killer(r, v, attacker, victim, site, magic)
         IN criminal(after) /\ ~after.armada
<1> DEFINE q1 == [r EXCEPT !.lastCiud = victim]
           n  == IF r.lastCiud # victim THEN Counted(q1.ciudMatados) ELSE q1.ciudMatados
           q2 == [q1 EXCEPT !.ciudMatados = n]
           counted == IF Unprovoked(v, attacker)
                      THEN ContarMuerte(r, v, attacker, victim, site) ELSE r
           k1 == [counted EXCEPT !.asesino = Capped(@ + 2 * vlASESINO)]
           k2 == [k1 EXCEPT !.noble = 0]
           k3 == [k2 EXCEPT !.plebe = 0]
           killer == IF magic THEN ActStats(counted, v, attacker) ELSE counted
<1>0. Killer(r, v, attacker, victim, site, magic) = killer
  BY DEF Killer
<1>1. counted \in {r, q2}
  <2>1. ContarMuerte(r, v, attacker, victim, site) \in {r, q2}
    BY DEF ContarMuerte
  <2> HIDE DEF q2
  <2> QED BY <2>1
<1>2. q2 \in Character
  <2>1. q1 \in Character
    BY KeptStill, NewUser, Limits DEF Kept
  <2>2. n \in Kills
    BY <2>1, Numbers, CountsOne
  <2> HIDE DEF q1, n
  <2> QED BY <2>1, <2>2, Z3T(20) DEF Character
<1>3. Worse(q2, r) /\ ~q2.armada
  <2>1. /\ q2.noble = r.noble /\ q2.plebe = r.plebe /\ q2.asesino = r.asesino
        /\ q2.bandido = r.bandido /\ q2.ladrones = r.ladrones /\ q2.armada = r.armada
    <3> HIDE DEF n
    <3> QED BY Z3T(20) DEF Character
  <2>2. r.noble \in Nat /\ r.plebe \in Nat /\ r.asesino \in Nat /\ r.bandido \in Nat /\ r.ladrones \in Nat
    BY Numbers, Limits
  <2> HIDE DEF q2
  <2> QED BY <2>1, <2>2 DEF Worse
<1>4. counted \in Character /\ criminal(counted) /\ ~counted.armada
  <2>1. criminal(q2)
    BY <1>2, <1>3, WorseIsCriminal
  <2> HIDE DEF counted, q2
  <2> QED BY <1>1, <1>2, <1>3, <2>1
<1>5. ActStats(counted, v, attacker) \in {counted, k3}
  BY DEF ActStats
<1> HIDE DEF counted
<1>6. k3 \in Character
  <2>1. Kept(k1, counted)
    <3>1. 2 * vlASESINO \in Nat
      BY ConstantTypes, Z3
    <3>2. Capped(counted.asesino + 2 * vlASESINO) \in Reputation
      <4> DEFINE k == 2 * vlASESINO
      <4> HIDE DEF k
      <4>1. Capped(counted.asesino + k) \in Reputation
        BY <1>4, <3>1, Adds DEF k
      <4> QED BY <4>1 DEF k
    <3>3. Kept(counted, counted)
      BY <1>4, KeptStill
    <3> QED BY <1>4, <3>2, <3>3, NewReputation
  <2>2. Kept(k2, counted)
    BY <1>4, <2>1, NewReputation, Limits
  <2>3. Kept(k3, counted)
    BY <1>4, <2>2, NewReputation, Limits
  <2> QED BY <2>3 DEF Kept
<1>7. Worse(k3, counted) /\ ~k3.armada
  <2>1. /\ k3.noble = 0 /\ k3.plebe = 0 /\ k3.asesino = Capped(counted.asesino + 2 * vlASESINO)
        /\ k3.bandido = counted.bandido /\ k3.ladrones = counted.ladrones /\ k3.armada = counted.armada
    BY <1>4, Z3T(20) DEF Character
  <2>2. Capped(counted.asesino + 2 * vlASESINO) >= counted.asesino
    BY <1>4, Numbers, ConstantTypes DEF Capped, Reputation
  <2>3. /\ counted.noble \in Nat /\ counted.plebe \in Nat
        /\ counted.bandido \in Nat /\ counted.ladrones \in Nat
    BY <1>4, Numbers, Limits
  <2> HIDE DEF k3
  <2> QED BY <1>4, <2>1, <2>2, <2>3 DEF Worse
<1>8. criminal(k3)
  <2> HIDE DEF k3
  <2> QED BY <1>4, <1>6, <1>7, WorseIsCriminal
<1> HIDE DEF k3
<1>9. criminal(killer) /\ ~killer.armada
  BY <1>4, <1>5, <1>7, <1>8
<1> HIDE DEF killer
<1> QED BY <1>0, <1>9

\* Whoever attacks an innocent not in its own defence is a criminal when the blow
\* is over and a soldier no more (UsuarioAtacadoPorUsuario, VolverCriminal, ActStats).
THEOREM CrimeIsMarked == Spec => []CrimeMarks
<1>1. IInv => CrimeMarks
  <2> SUFFICES ASSUME IInv, NEW a \in Players, NEW v \in Users, NEW site \in Sites \ {"duel"},
                      NEW magic \in BOOLEAN, NEW lethal \in BOOLEAN,
                      MayAttack(a, v, site), ~criminal(user[v]), ~IsDefence(user[a], user[v], a)
               PROVE  criminal(AfterBlow(a, v, site, magic, lethal))
                      /\ ~AfterBlow(a, v, site, magic, lethal).armada
    BY DEF CrimeMarks
  <2> DEFINE struck == UsuarioAtacadoPorUsuario(user[a], user[v], a, site)
  <2>0. AfterBlow(a, v, site, magic, lethal) = IF lethal THEN Killer(struck, user[v], a, v, site, magic) ELSE struck
    BY DEF AfterBlow
  <2>1. user[a] \in Character
    BY InvCharacter, FactionAssumption
  <2>2. struck \in Character /\ criminal(struck) /\ ~struck.armada
    BY <2>1, Outside, AttackMarks
  <2> HIDE DEF struck
  <2>3. criminal(Killer(struck, user[v], a, v, site, magic)) /\ ~Killer(struck, user[v], a, v, site, magic).armada
    BY <2>2, KillMarks
  <2> QED BY <2>0, <2>2, <2>3
<1> QED BY <1>1, FactionInvariant, PTL

-------------------------------------------------------------------------------
(* The condition of a user (Vitals) *)

\* What the constants of Vitals are.
LEMMA VitalsConstants ==
  /\ MaxHp \in Nat /\ MaxMan \in Nat /\ MaxSta \in Nat /\ MaxDamage \in Nat
  /\ MaxHp >= 1 /\ MaxMan >= 1 /\ MaxSta >= 1
  /\ IntervaloParalizado \in Nat /\ IntervaloOculto \in Nat /\ Mana \in Nat
  /\ Jitter \in Nat /\ IntervaloInvisible \in Nat /\ IntervaloInvisible > Jitter
  /\ Longest \in Nat /\ IntervaloParalizado <= Longest /\ IntervaloInvisible <= Longest
BY VitalsAssumption DEF Longest

\* What a handler writes is within the limits.
LEMMA VitalsLimits ==
  /\ 0 \in 0..MaxHp /\ 1 \in 0..MaxHp /\ 0 \in 0..MaxMan /\ 0 \in 0..MaxSta
  /\ 0 \in 0..IntervaloParalizado /\ 0 \in 0..IntervaloOculto /\ 0 \in 0..Longest
  /\ 0 \in -Jitter..IntervaloInvisible /\ IntervaloParalizado \in 0..IntervaloParalizado
  /\ IntervaloParalizado \in 0..Longest /\ IntervaloInvisible \in 0..Longest
  /\ IntervaloParalizado \div 3 \in 0..Longest
  /\ MaxHp \in 0..MaxHp /\ MaxMan \in 0..MaxMan /\ MaxSta \in 0..MaxSta
BY VitalsConstants

\* A condition whose life may have gone below zero, as within a handler.
Struggling ==
  [hp : Int, mana : 0..MaxMan, sta : 0..MaxSta, muerto : BOOLEAN,
   envenenado : BOOLEAN, paralizado : BOOLEAN, inmovilizado : BOOLEAN,
   paralisis : 0..IntervaloParalizado, estupidez : BOOLEAN, ceguera : BOOLEAN,
   cegu : 0..Longest, invisible : BOOLEAN, oculto : BOOLEAN,
   tiempoOculto : 0..IntervaloOculto, invisibilidad : -Jitter..IntervaloInvisible,
   meditando : BOOLEAN, enchanted : BOOLEAN]

\* The dead have no life.
NoLife(r) == r.muerto => r.hp = 0

\* What a step from p to q may do to life and death, but for the wand and the potion.
DiesWhole(p, q) ==
  /\ NoLife(q)
  /\ q.hp = 0 /\ ~q.muerto => p.hp = 0 /\ ~p.muerto
  /\ q.muerto /\ ~Freed(q) => p.muerto /\ ~Freed(p)

\* A condition, alive as p is, whose life is gone only if p's was.
Alike(p, q) ==
  /\ q \in Condition /\ q.muerto = p.muerto
  /\ q.hp = 0 => p.hp = 0

\* A condition is one of the wider kind.
LEMMA Widened == Condition \subseteq Struggling
<1> SUFFICES ASSUME NEW r \in Condition PROVE r \in Struggling
  OBVIOUS
<1> QED BY VitalsConstants DEF Condition, Struggling

\* Death leaves a sound condition, freed from all.
LEMMA DeathFrees ==
  ASSUME NEW r \in Struggling
  PROVE  /\ UserDie(r) \in Condition /\ UserDie(r).muerto
         /\ UserDie(r).hp = 0 /\ Freed(UserDie(r))
<1> DEFINE q == [r EXCEPT !.hp = 0, !.sta = 0, !.muerto = TRUE, !.envenenado = FALSE,
            !.paralizado = FALSE, !.estupidez = FALSE, !.meditando = FALSE]
<1>1. /\ q \in Condition /\ q.muerto /\ q.hp = 0 /\ ~q.paralizado /\ ~q.estupidez
      /\ ~q.envenenado /\ ~q.meditando
  <2>1. q \in Condition
    BY VitalsLimits DEF Struggling, Condition
  <2> QED BY <2>1 DEF Struggling
<1>2. UserDie(r) = Unveiled(q)
  BY DEF UserDie
<1> HIDE DEF q
<1>3. CASE q.invisible \/ q.oculto
  <2>1. UserDie(r) = [q EXCEPT !.invisible = FALSE, !.oculto = FALSE, !.tiempoOculto = 0,
                             !.invisibilidad = 0, !.enchanted = FALSE]
    BY <1>1, <1>2, <1>3 DEF Unveiled, SetInvisible, Condition
  <2>2. UserDie(r) \in Condition
    BY <1>1, <2>1, VitalsLimits DEF Condition
  <2> QED BY <1>1, <2>1, <2>2 DEF Condition, Freed
<1>4. CASE ~q.invisible /\ ~q.oculto
  BY <1>1, <1>2, <1>4 DEF Unveiled, Freed
<1> QED BY <1>3, <1>4

\* Whatever takes life leaves a sound condition: who has none left dies of it.
LEMMA MortalWhole ==
  ASSUME NEW p \in Condition, ~p.muerto, NEW r \in Struggling, ~r.muerto, r.hp <= MaxHp
  PROVE  Mortal(r) \in Condition /\ DiesWhole(p, Mortal(r))
<1>1. CASE r.hp <= 0
  BY <1>1, DeathFrees DEF Mortal, DiesWhole, NoLife
<1>2. CASE ~(r.hp <= 0)
  <2>1. Mortal(r) = r /\ r.hp \in Int
    BY <1>2 DEF Mortal, Struggling
  <2>2. r.hp \in 0..MaxHp /\ r.hp # 0
    BY <1>2, <2>1, VitalsConstants
  <2>3. r \in Condition
    BY <2>2 DEF Struggling, Condition
  <2> QED BY <2>1, <2>2, <2>3 DEF DiesWhole, NoLife
<1> QED BY <1>1, <1>2

\* So does a wound, and so does the wound of one whose flags have changed.
LEMMA WoundWhole ==
  ASSUME NEW p \in Condition, ~p.muerto, NEW r \in Condition, ~r.muerto,
         NEW damage \in 0..MaxDamage
  PROVE  Wounded(r, damage) \in Condition /\ DiesWhole(p, Wounded(r, damage))
<1> DEFINE w == [r EXCEPT !.hp = @ - damage]
<1>1. r.hp \in 0..MaxHp /\ r.hp \in Int
  BY VitalsConstants DEF Condition
<1>2. r.hp - damage \in Int /\ r.hp - damage <= MaxHp
  BY <1>1, VitalsConstants
<1>3. w.hp = r.hp - damage /\ w.muerto = r.muerto
  BY DEF Condition
<1>4. w \in Struggling
  BY <1>2, VitalsConstants DEF Condition, Struggling
<1> HIDE DEF w
<1>5. Mortal(w) \in Condition /\ DiesWhole(p, Mortal(w))
  BY <1>2, <1>3, <1>4, MortalWhole
<1> QED BY <1>5 DEF Wounded, w

\* Whoever is alike is whole.
LEMMA AlikeWhole ==
  ASSUME NEW p \in Condition, ~p.muerto, NEW q, Alike(p, q)
  PROVE  q \in Condition /\ DiesWhole(p, q)
BY DEF Alike, DiesWhole, NoLife

\* Magic words, a change of standing and the payment for a spell keep a user alike.
LEMMA Spoken ==
  ASSUME NEW r \in Condition
  PROVE  Alike(r, DecirPalabrasMagicas(r))
<1>1. CASE ~r.oculto
  BY <1>1 DEF DecirPalabrasMagicas, Alike
<1>2. CASE r.oculto
  <2>1. DecirPalabrasMagicas(r) = [r EXCEPT !.oculto = FALSE, !.tiempoOculto = 0]
    BY <1>2 DEF DecirPalabrasMagicas
  <2>2. DecirPalabrasMagicas(r) \in Condition
    BY <2>1, VitalsLimits DEF Condition
  <2> QED BY <2>1, <2>2 DEF Alike, Condition
<1> QED BY <1>1, <1>2

LEMMA Refreshed ==
  ASSUME NEW r \in Condition
  PROVE  Alike(r, RefreshCharStatus(r))
BY DEF RefreshCharStatus, Alike, Condition

\* What is left of a number after a payment.
LEMMA Left ==
  ASSUME NEW m \in Nat, NEW n \in 0..m, NEW k \in Nat
  PROVE  Remaining(n - k) \in 0..m
BY DEF Remaining

LEMMA PaidAlike ==
  ASSUME NEW r \in Condition
  PROVE  Alike(r, Paid(r))
<1>1. r.mana \in 0..MaxMan /\ r.sta \in 0..MaxSta
  BY DEF Condition
<1>2. Remaining(r.mana - Mana) \in 0..MaxMan /\ Remaining(r.sta - 1) \in 0..MaxSta
  BY <1>1, Left, VitalsConstants
<1>3. Paid(r) = [r EXCEPT !.mana = Remaining(r.mana - Mana), !.sta = Remaining(r.sta - 1)]
  BY DEF Paid, Condition
<1> QED BY <1>2, <1>3 DEF Alike, Condition

\* One after the other.
LEMMA AlikeOn ==
  ASSUME NEW p, NEW q, NEW r, Alike(p, q), Alike(q, r)
  PROVE  Alike(p, r)
BY DEF Alike

\* The lesser of a sum and its limit.
LEMMA AtMost ==
  ASSUME NEW m \in Nat, NEW n \in 0..m, NEW k \in Nat
  PROVE  Least(n + k, m) \in 0..m /\ (Least(n + k, m) = 0 => n = 0)
<1>1. n \in Nat /\ n <= m /\ n + k \in Nat
  OBVIOUS
<1>2. CASE n + k < m
  BY <1>1, <1>2 DEF Least
<1>3. CASE ~(n + k < m)
  BY <1>1, <1>3 DEF Least
<1> QED BY <1>2, <1>3

\* A healing keeps a user alike.
LEMMA HealedAlike ==
  ASSUME NEW r \in Condition, NEW n \in Nat
  PROVE  Alike(r, Healed(r, n))
<1>1. r.hp \in 0..MaxHp
  BY DEF Condition
<1>2. Least(r.hp + n, MaxHp) \in 0..MaxHp /\ (Least(r.hp + n, MaxHp) = 0 => r.hp = 0)
  BY <1>1, AtMost, VitalsConstants
<1>3. Healed(r, n) = [r EXCEPT !.hp = Least(r.hp + n, MaxHp)]
  BY DEF Healed
<1> HIDE DEF Healed
<1>4. Healed(r, n) \in Condition /\ Healed(r, n).muerto = r.muerto
      /\ Healed(r, n).hp = Least(r.hp + n, MaxHp)
  BY <1>2, <1>3 DEF Condition
<1> QED BY <1>2, <1>4 DEF Alike

LEMMA ParalysedAlike ==
  ASSUME NEW r \in Condition, NEW stuck \in BOOLEAN
  PROVE  Alike(r, Paralysed(r, stuck))
<1>1. CASE ~NotYet(r)
  BY <1>1 DEF Paralysed, Alike
<1>2. CASE NotYet(r)
  <2>1. Paralysed(r, stuck) = [r EXCEPT !.paralizado = TRUE, !.paralisis = IntervaloParalizado,
                                 !.inmovilizado = (r.inmovilizado \/ stuck)]
    BY <1>2 DEF Paralysed, Condition
  <2>2. (r.inmovilizado \/ stuck) \in BOOLEAN
    OBVIOUS
  <2> DEFINE both == (r.inmovilizado \/ stuck)
  <2> HIDE DEF both
  <2>3. Paralysed(r, stuck) \in Condition
    BY <2>1, <2>2, VitalsLimits DEF Condition, both
  <2> QED BY <2>1, <2>3 DEF Alike, Condition
<1> QED BY <1>1, <1>2

LEMMA StupefiedAlike ==
  ASSUME NEW r \in Condition, NEW ticks \in 0..Longest
  PROVE  Alike(r, Stupefied(r, ticks))
<1>1. CASE r.estupidez
  BY <1>1 DEF Stupefied, Alike
<1>2. CASE ~r.estupidez
  BY <1>2 DEF Stupefied, Alike, Condition
<1> QED BY <1>1, <1>2

\* Whatever a spell does but wounding, the living stay alive.
LEMMA StruckAlike ==
  ASSUME NEW r \in Condition, NEW kind \in Kinds
  PROVE  Alike(r, Struck(r, kind))
<1>1. CASE kind = "heal"
  BY <1>1, HealedAlike, VitalsConstants DEF Struck
<1>2. CASE kind = "poison"
  BY <1>2 DEF Struck, Alike, Condition
<1>3. CASE kind = "cure"
  BY <1>3 DEF Struck, Alike, Condition
<1>4. CASE kind = "paralyse"
  BY <1>4, ParalysedAlike DEF Struck
<1>5. CASE kind = "immobilise"
  BY <1>5, ParalysedAlike DEF Struck
<1>6. CASE kind = "free"
  <2>1. Struck(r, kind) = IF r.paralizado
                          THEN [r EXCEPT !.paralizado = FALSE, !.inmovilizado = FALSE] ELSE r
    BY <1>6 DEF Struck
  <2> DEFINE q == [r EXCEPT !.paralizado = FALSE, !.inmovilizado = FALSE]
  <2>2. Alike(r, q) /\ Alike(r, r)
    <3>1. q.muerto = r.muerto /\ q.hp = r.hp
      BY DEF Condition
    <3>2. q \in Condition
      BY DEF Condition
    <3> QED BY <3>1, <3>2 DEF Alike
  <2>3. Struck(r, kind) = IF r.paralizado THEN q ELSE r
    BY <2>1
  <2> HIDE DEF q
  <2> QED BY <2>2, <2>3
<1>7. CASE kind = "blind"
  <2>1. Struck(r, kind) = [r EXCEPT !.ceguera = TRUE, !.cegu = IntervaloParalizado \div 3]
    BY <1>7 DEF Struck
  <2> DEFINE ticks == IntervaloParalizado \div 3
  <2>2. ticks \in 0..Longest
    BY VitalsLimits
  <2> HIDE DEF ticks
  <2>3. Struck(r, kind) = [r EXCEPT !.ceguera = TRUE, !.cegu = ticks]
    BY <2>1 DEF ticks
  <2> QED BY <2>2, <2>3 DEF Alike, Condition
<1>8. CASE kind = "stupefy"
  BY <1>8, StupefiedAlike, VitalsLimits DEF Struck
<1>9. CASE kind = "clearMind"
  BY <1>9 DEF Struck, Alike, Condition
<1>10. CASE kind = "invisibility"
  <2>1. Struck(r, kind) = [[r EXCEPT !.invisible = TRUE] EXCEPT !.enchanted = TRUE]
    BY <1>10 DEF Struck, SetInvisible, FromBefore
  <2> QED BY <2>1 DEF Alike, Condition
<1>11. CASE kind = "restore"
  <2>1. Struck(r, kind) = [r EXCEPT !.mana = Least(r.mana + 1, MaxMan), !.sta = Least(r.sta + 1, MaxSta)]
    BY <1>11 DEF Struck, Condition
  <2>2. r.mana \in 0..MaxMan /\ r.sta \in 0..MaxSta
    BY DEF Condition
  <2>3. Least(r.mana + 1, MaxMan) \in 0..MaxMan /\ Least(r.sta + 1, MaxSta) \in 0..MaxSta
    BY <2>2, AtMost, VitalsConstants
  <2> QED BY <2>1, <2>3 DEF Alike, Condition
<1>12. CASE kind = "drain"
  <2>1. Struck(r, kind) = [r EXCEPT !.mana = Remaining(r.mana - 1), !.sta = Remaining(r.sta - 1)]
    BY <1>12 DEF Struck, Condition
  <2>2. r.mana \in 0..MaxMan /\ r.sta \in 0..MaxSta
    BY DEF Condition
  <2>3. Remaining(r.mana - 1) \in 0..MaxMan /\ Remaining(r.sta - 1) \in 0..MaxSta
    BY <2>2, Left, VitalsConstants
  <2> QED BY <2>1, <2>3 DEF Alike, Condition
<1> QED BY <1>1, <1>2, <1>3, <1>4, <1>5, <1>6, <1>7, <1>8, <1>9, <1>10, <1>11, <1>12 DEF Kinds

-------------------------------------------------------------------------------
(* The steps *)

\* The inductive invariant: types, and no life in the dead.
VitalsIInv == VitalsTypeOK /\ NoLife(body)

\* What every step keeps, the wand and the potion apart.
Sound == body' \in Condition /\ DiesWhole(body, body')

LEMMA EnchantedSound ==
  ASSUME VitalsIInv, NEW kind \in Kinds, Enchanted(kind)
  PROVE  Sound
<1>1. body \in Condition /\ ~body.muerto /\ body' = Struck(body, kind)
  BY DEF VitalsIInv, VitalsTypeOK, Enchanted
<1> QED BY <1>1, StruckAlike, AlikeWhole DEF Sound

LEMMA BlowSound ==
  ASSUME VitalsIInv, UserDano \/ NpcDanoUser
  PROVE  Sound
<1>1. body \in Condition
  BY DEF VitalsIInv, VitalsTypeOK
<1>2. CASE UserDano
  <2>1. PICK damage \in 0..MaxDamage, venom \in BOOLEAN :
           /\ ~body.muerto
           /\ body' = Wounded([body EXCEPT !.envenenado = @ \/ venom], damage)
    BY <1>2 DEF UserDano
  <2> DEFINE r == [body EXCEPT !.envenenado = @ \/ venom]
  <2>2. r \in Condition /\ r.muerto = body.muerto
    BY <1>1 DEF Condition
  <2> HIDE DEF r
  <2>3. body' = Wounded(r, damage)
    BY <2>1 DEF r
  <2> QED BY <1>1, <2>1, <2>2, <2>3, WoundWhole DEF Sound
<1>3. CASE NpcDanoUser
  <2>1. PICK damage \in 1..MaxDamage :
           ~body.muerto /\ body' = Wounded([body EXCEPT !.meditando = FALSE], damage)
    BY <1>3 DEF NpcDanoUser
  <2> DEFINE r == [body EXCEPT !.meditando = FALSE]
  <2>2. r \in Condition /\ r.muerto = body.muerto
    BY <1>1 DEF Condition
  <2> HIDE DEF r
  <2>3. body' = Wounded(r, damage) /\ damage \in 0..MaxDamage
    BY <2>1, VitalsConstants DEF r
  <2> QED BY <1>1, <2>1, <2>2, <2>3, WoundWhole DEF Sound
<1> QED BY <1>2, <1>3

\* What a creature's spell brings besides its wound leaves life as it is.
LEMMA CursedAlike ==
  ASSUME NEW r \in Condition, NEW sp \in Spells
  PROVE  Alike(r, Cursed(r, sp)) /\ Cursed(r, sp).hp = r.hp
<1> DEFINE held == IF sp.Paraliza \/ sp.Inmoviliza THEN Paralysed(r, sp.Inmoviliza) ELSE r
<1>1. Alike(r, held) /\ held.hp = r.hp
  <2>1. Paralysed(r, sp.Inmoviliza).hp = r.hp
    BY DEF Paralysed, Condition
  <2>2. sp.Inmoviliza \in BOOLEAN
    BY DEF Spells
  <2>3. Alike(r, Paralysed(r, sp.Inmoviliza)) /\ Alike(r, r)
    BY <2>2, ParalysedAlike DEF Alike
  <2> QED BY <2>1, <2>3
<1> HIDE DEF held
<1>2. held \in Condition
  BY <1>1 DEF Alike
<1>3. Alike(held, Stupefied(held, IntervaloInvisible))
  BY <1>2, StupefiedAlike, VitalsLimits
<1>4. Stupefied(held, IntervaloInvisible).hp = held.hp
  BY <1>2 DEF Stupefied, Condition
<1>5. Cursed(r, sp) = IF sp.Estupidez THEN Stupefied(held, IntervaloInvisible) ELSE held
  BY DEF Cursed, held
<1>6. Alike(r, Stupefied(held, IntervaloInvisible))
  BY <1>1, <1>3, AlikeOn
<1> QED BY <1>1, <1>4, <1>5, <1>6

\* A spell that kills and binds leaves its victim dead, within the limits.
Bound == KillsAndBinds /\ body' \in Condition /\ body'.muerto /\ body'.hp = 0

LEMMA NpcSpellSound ==
  ASSUME VitalsIInv, NEW sp \in Spells, NpcLanzaSpellSobreUser(sp)
  PROVE  Sound \/ Bound
<1>1. body \in Condition /\ ~body.muerto
  BY DEF VitalsIInv, VitalsTypeOK, NpcLanzaSpellSobreUser
<1>2. PICK n \in 0..MaxDamage, ring \in BOOLEAN :
         LET struck == CASE sp.SubeHP = 1 -> Healed(body, n)
                         [] sp.SubeHP = 2 -> Wounded(body, n)
                         [] OTHER -> body
         IN body' = IF ring THEN struck ELSE Cursed(struck, sp)
  BY DEF NpcLanzaSpellSobreUser
<1> DEFINE struck == CASE sp.SubeHP = 1 -> Healed(body, n)
                       [] sp.SubeHP = 2 -> Wounded(body, n)
                       [] OTHER -> body
<1>3. body' = IF ring THEN struck ELSE Cursed(struck, sp)
  BY <1>2
<1>4. /\ sp.SubeHP = 1 => struck = Healed(body, n)
      /\ sp.SubeHP = 2 => struck = Wounded(body, n)
      /\ sp.SubeHP \notin {1, 2} => struck = body
  OBVIOUS
<1> HIDE DEF struck
<1>5. ASSUME Alike(body, struck) PROVE Sound
  <2>1. struck \in Condition
    BY <1>5 DEF Alike
  <2>2. Alike(struck, Cursed(struck, sp))
    BY <2>1, CursedAlike
  <2>3. Alike(body, Cursed(struck, sp))
    BY <1>5, <2>2, AlikeOn
  <2>4. Alike(body, body')
    BY <1>3, <1>5, <2>3
  <2> QED BY <1>1, <2>4, AlikeWhole DEF Sound
<1>6. CASE sp.SubeHP = 1
  <2>1. n \in Nat
    BY VitalsConstants
  <2> QED BY <1>1, <1>4, <1>5, <1>6, <2>1, HealedAlike
<1>7. CASE sp.SubeHP \notin {1, 2}
  BY <1>1, <1>4, <1>5, <1>7 DEF Alike
<1>8. CASE sp.SubeHP = 2
  <2>1. struck \in Condition /\ DiesWhole(body, struck)
    BY <1>1, <1>4, <1>8, WoundWhole
  <2>2. CASE ~struck.muerto
    <3>1. struck.hp = 0 => body.hp = 0
      BY <2>1, <2>2 DEF DiesWhole
    <3>2. struck.muerto = body.muerto
      <4>1. struck.muerto \in BOOLEAN /\ body.muerto \in BOOLEAN
        BY <1>1, <2>1 DEF Condition
      <4> QED BY <1>1, <2>2, <4>1
    <3>3. Alike(body, struck)
      BY <2>1, <3>1, <3>2 DEF Alike
    <3> QED BY <1>5, <3>3
  <2>3. CASE struck.muerto /\ body' = struck
    BY <2>1, <2>3 DEF Sound
  <2>4. CASE struck.muerto /\ body' # struck
    <3>1. body' = Cursed(struck, sp)
      BY <1>3, <2>4
    <3>2. Alike(struck, body') /\ body'.hp = struck.hp
      BY <2>1, <3>1, CursedAlike
    <3>3. body' \in Condition /\ body'.muerto /\ body'.hp = 0
      BY <2>1, <2>4, <3>2 DEF Alike, DiesWhole, NoLife
    <3>4. sp.Paraliza \/ sp.Inmoviliza \/ sp.Estupidez
      BY <2>4, <3>1 DEF Cursed
    <3>5. KillsAndBinds
      BY <1>1, <1>8, <3>3, <3>4 DEF KillsAndBinds
    <3> QED BY <3>3, <3>5 DEF Bound
  <2> QED BY <2>2, <2>3, <2>4
<1> QED BY <1>6, <1>7, <1>8

\* The wand of the praetorian mage.
LEMMA WandStep ==
  ASSUME VitalsIInv, MagoDestruyeWand
  PROVE  body' \in Condition /\ ~body'.muerto
<1>1. PICK damage \in 1..MaxDamage :
         ~body.muerto /\ body' = [body EXCEPT !.hp = Remaining(body.hp - damage)]
  BY DEF MagoDestruyeWand
<1>2. body \in Condition /\ body.hp \in 0..MaxHp
  BY DEF VitalsIInv, VitalsTypeOK, Condition
<1>3. Remaining(body.hp - damage) \in 0..MaxHp
  BY <1>2, Left, VitalsConstants
<1> QED BY <1>1, <1>2, <1>3 DEF Condition

LEMMA ReviveSound ==
  ASSUME VitalsIInv, Resurrect
  PROVE  Sound
<1>1. PICK spell \in BOOLEAN :
         body' = [body EXCEPT !.muerto = FALSE, !.hp = 1, !.mana = IF spell THEN 0 ELSE body.mana,
                  !.sta = IF spell THEN 0 ELSE body.sta]
  BY DEF Resurrect, VitalsIInv, VitalsTypeOK, Condition
<1> DEFINE m == IF spell THEN 0 ELSE body.mana
           s == IF spell THEN 0 ELSE body.sta
<1>2. body \in Condition
  BY DEF VitalsIInv, VitalsTypeOK
<1>3. m \in 0..MaxMan /\ s \in 0..MaxSta
  BY <1>2, VitalsLimits DEF Condition
<1>4. body' = [body EXCEPT !.muerto = FALSE, !.hp = 1, !.mana = m, !.sta = s]
  BY <1>1
<1> HIDE DEF m, s
<1>5. body' \in Condition /\ ~body'.muerto /\ body'.hp = 1
  BY <1>2, <1>3, <1>4, VitalsLimits DEF Condition
<1> QED BY <1>5 DEF Sound, DiesWhole, NoLife

\* The caster, as magic words and a change of standing leave it.
LEMMA CasterAlike ==
  ASSUME NEW r \in Condition, NEW turned \in BOOLEAN
  PROVE  Alike(r, DecirPalabrasMagicas(IF turned THEN RefreshCharStatus(r) ELSE r))
<1> DEFINE q == IF turned THEN RefreshCharStatus(r) ELSE r
<1>1. Alike(r, q)
  BY Refreshed DEF Alike
<1> HIDE DEF q
<1>2. Alike(q, DecirPalabrasMagicas(q))
  BY <1>1, Spoken DEF Alike
<1>3. Alike(r, DecirPalabrasMagicas(q))
  BY <1>1, <1>2, AlikeOn
<1> QED BY <1>3 DEF q

LEMMA CastSound ==
  ASSUME VitalsIInv, CastAway \/ \E kind \in Kind : CastOnSelf(kind)
  PROVE  Sound
<1>1. body \in Condition /\ ~body.muerto
  BY DEF VitalsIInv, VitalsTypeOK, CastAway, CastOnSelf, PuedeLanzar
<1>2. CASE CastAway
  <2>1. PICK turned \in BOOLEAN :
           body' = Paid(DecirPalabrasMagicas(IF turned THEN RefreshCharStatus(body) ELSE body))
    BY <1>2 DEF CastAway
  <2> DEFINE q == DecirPalabrasMagicas(IF turned THEN RefreshCharStatus(body) ELSE body)
  <2>2. Alike(body, q)
    BY <1>1, CasterAlike
  <2> HIDE DEF q
  <2>3. Alike(q, Paid(q)) /\ body' = Paid(q)
    BY <2>1, <2>2, PaidAlike DEF Alike, q
  <2>4. Alike(body, body')
    BY <2>2, <2>3, AlikeOn
  <2> QED BY <1>1, <2>4, AlikeWhole DEF Sound
<1>3. ASSUME NEW kind \in Kind, CastOnSelf(kind) PROVE Sound
  <2> DEFINE p == DecirPalabrasMagicas(body)
             q == Struck(p, kind)
  <2>1. Alike(body, p)
    BY <1>1, Spoken
  <2>2. body' = Paid(q) /\ kind \in Kinds
    BY <1>3 DEF CastOnSelf, Kind, Kinds
  <2> HIDE DEF p
  <2>3. Alike(p, q)
    BY <2>1, <2>2, StruckAlike DEF Alike
  <2> HIDE DEF q
  <2>4. Alike(q, Paid(q))
    BY <2>3, PaidAlike DEF Alike
  <2>5. Alike(body, body')
    BY <2>1, <2>2, <2>3, <2>4, AlikeOn
  <2> QED BY <1>1, <2>5, AlikeWhole DEF Sound
<1> QED BY <1>2, <1>3

LEMMA CastReviveSound ==
  ASSUME VitalsIInv, CastRevive
  PROVE  Sound
<1>1. body \in Condition /\ ~body.muerto /\ body.hp \in 0..MaxHp
  BY DEF VitalsIInv, VitalsTypeOK, CastRevive, PuedeLanzar, Condition
<1>2. PICK turned \in BOOLEAN, left \in 0..body.hp :
         LET spent == [DecirPalabrasMagicas(IF turned THEN RefreshCharStatus(body) ELSE body)
                       EXCEPT !.hp = left]
         IN body' = IF left = 0 THEN UserDie(spent) ELSE Paid(spent)
  BY Zenon DEF CastRevive
<1> DEFINE q == DecirPalabrasMagicas(IF turned THEN RefreshCharStatus(body) ELSE body)
           spent == [q EXCEPT !.hp = left]
<1>3. Alike(body, q)
  BY <1>1, CasterAlike
<1>4. body' = IF left = 0 THEN UserDie(spent) ELSE Paid(spent)
  BY <1>2
<1> HIDE DEF q
<1>5. left \in 0..MaxHp /\ left \in Nat
  BY <1>1, VitalsConstants
<1>6. spent \in Condition /\ spent.hp = left /\ ~spent.muerto
  BY <1>1, <1>3, <1>5 DEF Alike, Condition
<1> HIDE DEF spent
<1>7. CASE left = 0
  BY <1>4, <1>6, <1>7, Widened, DeathFrees DEF Sound, DiesWhole, NoLife
<1>8. CASE left # 0
  <2>1. Alike(spent, body')
    BY <1>4, <1>6, <1>8, PaidAlike
  <2> QED BY <1>6, <1>8, <2>1 DEF Sound, DiesWhole, NoLife, Alike
<1> QED BY <1>7, <1>8

LEMMA AttackSound ==
  ASSUME VitalsIInv, HandleAttack
  PROVE  Sound
<1>1. body \in Condition /\ ~body.muerto
  BY DEF VitalsIInv, VitalsTypeOK, HandleAttack
<1>2. PICK turned \in BOOLEAN, tired \in 1..MaxSta :
         LET struck == IF body.sta = 0 THEN body
                       ELSE [(IF turned THEN RefreshCharStatus(body) ELSE body)
                             EXCEPT !.sta = Remaining(@ - tired)]
         IN body' = DecirPalabrasMagicas(struck)
  BY Zenon DEF HandleAttack
<1> DEFINE r == IF turned THEN RefreshCharStatus(body) ELSE body
           left == Remaining(r.sta - tired)
           struck == IF body.sta = 0 THEN body ELSE [r EXCEPT !.sta = left]
<1>3. body' = DecirPalabrasMagicas(struck)
  BY <1>2
<1>4. Alike(body, r)
  BY <1>1, Refreshed DEF Alike
<1> HIDE DEF r
<1>5. left \in 0..MaxSta
  <2>1. r.sta \in 0..MaxSta /\ tired \in Nat
    BY <1>4 DEF Alike, Condition
  <2> QED BY <2>1, Left, VitalsConstants
<1> HIDE DEF left
<1>6. Alike(r, [r EXCEPT !.sta = left])
  BY <1>4, <1>5 DEF Alike, Condition
<1>7. Alike(body, struck)
  <2>1. CASE body.sta = 0
    BY <1>1, <2>1 DEF Alike
  <2>2. CASE body.sta # 0
    BY <1>4, <1>6, <2>2, AlikeOn
  <2> QED BY <2>1, <2>2
<1> HIDE DEF struck
<1>8. Alike(struck, body')
  BY <1>3, <1>7, Spoken DEF Alike
<1>9. Alike(body, body')
  BY <1>7, <1>8, AlikeOn
<1> QED BY <1>1, <1>9, AlikeWhole DEF Sound

LEMMA HideSound ==
  ASSUME VitalsIInv, DoOcultarse
  PROVE  Sound
<1>1. body \in Condition /\ ~body.muerto
  BY DEF VitalsIInv, VitalsTypeOK, DoOcultarse
<1>2. PICK ticks \in 0..IntervaloOculto :
         body' = [[body EXCEPT !.invisible = TRUE] EXCEPT !.oculto = TRUE, !.tiempoOculto = ticks]
  BY DEF DoOcultarse, SetInvisible
<1>3. Alike(body, body')
  BY <1>1, <1>2 DEF Alike, Condition
<1> QED BY <1>1, <1>3, AlikeWhole DEF Sound

\* The potion.
LEMMA PotionStep ==
  ASSUME VitalsIInv, DrinkPoison
  PROVE  body' \in Condition /\ NoLife(body') /\ body'.muerto
<1>1. body \in Condition
  BY DEF VitalsIInv, VitalsTypeOK
<1> QED BY <1>1, VitalsLimits DEF DrinkPoison, Condition, NoLife

LEMMA MeditateSound ==
  ASSUME VitalsIInv, HandleMeditate \/ DoMeditar
  PROVE  Sound
<1>1. body \in Condition /\ ~body.muerto
  BY DEF VitalsIInv, VitalsTypeOK, HandleMeditate, DoMeditar
<1>2. CASE HandleMeditate
  <2>1. \/ body' = [body EXCEPT !.meditando = ~body.meditando]
        \/ body' = [body EXCEPT !.mana = MaxMan]
    BY <1>2 DEF HandleMeditate
  <2>2. ASSUME body' = [body EXCEPT !.meditando = ~body.meditando] PROVE Alike(body, body')
    BY <1>1, <2>2 DEF Alike, Condition
  <2>3. ASSUME body' = [body EXCEPT !.mana = MaxMan] PROVE Alike(body, body')
    <3>1. MaxMan \in 0..MaxMan
      BY VitalsConstants
    <3> QED BY <1>1, <2>3, <3>1 DEF Alike, Condition
  <2>4. Alike(body, body')
    BY <2>1, <2>2, <2>3
  <2> QED BY <1>1, <2>4, AlikeWhole DEF Sound
<1>3. CASE DoMeditar /\ body.mana >= MaxMan
  <2>1. Alike(body, body')
    BY <1>1, <1>3 DEF DoMeditar, Alike, Condition
  <2> QED BY <1>1, <2>1, AlikeWhole DEF Sound
<1>4. CASE DoMeditar /\ ~(body.mana >= MaxMan)
  <2>1. body' = [body EXCEPT !.mana = body.mana + 1]
    BY <1>4 DEF DoMeditar
  <2>2. body.mana + 1 \in 0..MaxMan
    <3>1. body.mana \in 0..MaxMan
      BY <1>1 DEF Condition
    <3> QED BY <1>4, <3>1, VitalsConstants
  <2> DEFINE n == body.mana + 1
  <2> HIDE DEF n
  <2>3. Alike(body, body')
    BY <1>1, <2>1, <2>2 DEF Alike, Condition, n
  <2> QED BY <1>1, <2>3, AlikeWhole DEF Sound
<1> QED BY <1>2, <1>3, <1>4

\* A condition no less free than p's, alive as p is and with its life: what the
\* handlers and timers that also reach the dead leave.
AsFree(p, q) ==
  /\ q \in Condition /\ q.muerto = p.muerto /\ q.hp = p.hp
  /\ Freed(p) => Freed(q)

LEMMA AsFreeSound ==
  ASSUME VitalsIInv, AsFree(body, body')
  PROVE  Sound
BY DEF VitalsIInv, AsFree, Sound, DiesWhole, NoLife

LEMMA WalkSound ==
  ASSUME VitalsIInv, HandleWalk
  PROVE  Sound
<1> DEFINE r == IF body.paralizado THEN body ELSE [body EXCEPT !.meditando = FALSE]
<1>1. body \in Condition
  BY DEF VitalsIInv, VitalsTypeOK
<1>2. body' = r \/ body' = DecirPalabrasMagicas(r)
  BY DEF HandleWalk
<1>3. AsFree(body, r)
  <2>1. CASE body.paralizado
    BY <1>1, <2>1 DEF AsFree
  <2>2. CASE ~body.paralizado
    BY <1>1, <2>2 DEF AsFree, Freed, Condition
  <2> QED BY <2>1, <2>2
<1> HIDE DEF r
<1>4. r \in Condition
  BY <1>3 DEF AsFree
<1>5. AsFree(r, DecirPalabrasMagicas(r))
  <2>1. CASE ~r.oculto
    BY <1>4, <2>1 DEF AsFree, DecirPalabrasMagicas
  <2>2. CASE r.oculto
    <3>1. DecirPalabrasMagicas(r) = [r EXCEPT !.oculto = FALSE, !.tiempoOculto = 0]
      BY <2>2 DEF DecirPalabrasMagicas
    <3> QED BY <1>4, <3>1, VitalsLimits DEF AsFree, Freed, Condition
  <2> QED BY <2>1, <2>2
<1>6. AsFree(body, body')
  BY <1>2, <1>3, <1>5 DEF AsFree
<1> QED BY <1>6, AsFreeSound

LEMMA ParalysisSound ==
  ASSUME VitalsIInv, EfectoParalisisUser
  PROVE  Sound
<1>1. body \in Condition
  BY DEF VitalsIInv, VitalsTypeOK
<1>2. CASE body.paralisis > 0
  <2> DEFINE n == body.paralisis - 1
  <2>1. n \in 0..IntervaloParalizado
    <3>1. body.paralisis \in 0..IntervaloParalizado
      BY <1>1 DEF Condition
    <3> QED BY <1>2, <3>1, VitalsConstants
  <2>2. body' = [body EXCEPT !.paralisis = n]
    BY <1>2 DEF EfectoParalisisUser
  <2> HIDE DEF n
  <2>3. AsFree(body, body')
    BY <1>1, <2>1, <2>2 DEF AsFree, Freed, Condition
  <2> QED BY <2>3, AsFreeSound
<1>3. CASE ~(body.paralisis > 0)
  <2>1. body' = [body EXCEPT !.paralizado = FALSE, !.inmovilizado = FALSE]
    BY <1>3 DEF EfectoParalisisUser
  <2>2. AsFree(body, body')
    BY <1>1, <2>1 DEF AsFree, Freed, Condition
  <2> QED BY <2>2, AsFreeSound
<1> QED BY <1>2, <1>3

LEMMA StuporSound ==
  ASSUME VitalsIInv, EfectoCegueEstu
  PROVE  Sound
<1>1. body \in Condition
  BY DEF VitalsIInv, VitalsTypeOK
<1>2. CASE body.cegu > 0
  <2> DEFINE n == body.cegu - 1
  <2>1. n \in 0..Longest
    <3>1. body.cegu \in 0..Longest
      BY <1>1 DEF Condition
    <3> QED BY <1>2, <3>1, VitalsConstants
  <2>2. body' = [body EXCEPT !.cegu = n]
    BY <1>2 DEF EfectoCegueEstu
  <2> HIDE DEF n
  <2>3. AsFree(body, body')
    BY <1>1, <2>1, <2>2 DEF AsFree, Freed, Condition
  <2> QED BY <2>3, AsFreeSound
<1>3. CASE ~(body.cegu > 0)
  <2>1. body' = [body EXCEPT !.ceguera = FALSE, !.estupidez = FALSE]
    BY <1>3 DEF EfectoCegueEstu
  <2>2. AsFree(body, body')
    BY <1>1, <2>1 DEF AsFree, Freed, Condition
  <2> QED BY <2>2, AsFreeSound
<1> QED BY <1>2, <1>3

LEMMA EmergeSound ==
  ASSUME VitalsIInv, DoPermanecerOculto
  PROVE  Sound
<1>1. body \in Condition /\ ~body.muerto
  BY DEF VitalsIInv, VitalsTypeOK, DoPermanecerOculto
<1>2. CASE body.tiempoOculto <= 1
  <2> DEFINE shown == [body EXCEPT !.oculto = FALSE, !.tiempoOculto = 0]
  <2>1. body' = IF shown.invisible THEN shown ELSE [shown EXCEPT !.invisible = FALSE]
    BY <1>2 DEF DoPermanecerOculto, Emerges, SetInvisible
  <2>2. Alike(body, shown)
    BY <1>1, VitalsLimits DEF Alike, Condition
  <2> HIDE DEF shown
  <2>3. Alike(shown, body')
    BY <2>1, <2>2 DEF Alike, Condition
  <2>4. Alike(body, body')
    BY <2>2, <2>3, AlikeOn
  <2> QED BY <1>1, <2>4, AlikeWhole DEF Sound
<1>3. CASE ~(body.tiempoOculto <= 1)
  <2> DEFINE n == body.tiempoOculto - 1
  <2>1. n \in 0..IntervaloOculto
    <3>1. body.tiempoOculto \in 0..IntervaloOculto
      BY <1>1 DEF Condition
    <3> QED BY <1>3, <3>1, VitalsConstants
  <2>2. body' = [body EXCEPT !.tiempoOculto = n]
    BY <1>3 DEF DoPermanecerOculto
  <2> HIDE DEF n
  <2>3. Alike(body, body')
    BY <1>1, <2>1, <2>2 DEF Alike, Condition
  <2> QED BY <1>1, <2>3, AlikeWhole DEF Sound
<1> QED BY <1>2, <1>3

LEMMA InvisibilitySound ==
  ASSUME VitalsIInv, EfectoInvisibilidad
  PROVE  Sound
<1>1. body \in Condition /\ ~body.muerto
  BY DEF VitalsIInv, VitalsTypeOK, EfectoInvisibilidad
<1>2. CASE body.invisibilidad < IntervaloInvisible
  <2> DEFINE n == body.invisibilidad + 1
  <2>1. n \in -Jitter..IntervaloInvisible
    <3>1. body.invisibilidad \in -Jitter..IntervaloInvisible
      BY <1>1 DEF Condition
    <3> QED BY <1>2, <3>1, VitalsConstants
  <2>2. body' = [body EXCEPT !.invisibilidad = n]
    BY <1>2 DEF EfectoInvisibilidad
  <2> HIDE DEF n
  <2>3. Alike(body, body')
    BY <1>1, <2>1, <2>2 DEF Alike, Condition
  <2> QED BY <1>1, <2>3, AlikeWhole DEF Sound
<1>3. CASE ~(body.invisibilidad < IntervaloInvisible)
  <2>1. PICK n \in -Jitter..Jitter :
           body' = [[body EXCEPT !.invisible = FALSE] EXCEPT !.invisibilidad = n, !.enchanted = FALSE]
    BY <1>3 DEF EfectoInvisibilidad, SetInvisible
  <2>2. n \in -Jitter..IntervaloInvisible
    BY VitalsConstants
  <2>3. Alike(body, body')
    BY <1>1, <2>1, <2>2 DEF Alike, Condition
  <2> QED BY <1>1, <2>3, AlikeWhole DEF Sound
<1> QED BY <1>2, <1>3

LEMMA VenomSound ==
  ASSUME VitalsIInv, EfectoVeneno
  PROVE  Sound
<1>1. body \in Condition /\ ~body.muerto
  BY DEF VitalsIInv, VitalsTypeOK, EfectoVeneno
<1>2. PICK damage \in 1..MaxDamage : body' = Wounded(body, damage)
  BY DEF EfectoVeneno
<1>3. damage \in 0..MaxDamage
  BY VitalsConstants
<1> QED BY <1>1, <1>2, <1>3, WoundWhole DEF Sound

LEMMA RecoverSound ==
  ASSUME VitalsIInv, Recover
  PROVE  Sound
<1>1. body \in Condition /\ ~body.muerto
  BY DEF VitalsIInv, VitalsTypeOK, Recover
<1>2. CASE body' = Healed(body, 1)
  BY <1>1, <1>2, HealedAlike, AlikeWhole DEF Sound
<1>3. CASE body' = [body EXCEPT !.sta = Least(@ + 1, MaxSta)]
  <2> DEFINE n == Least(body.sta + 1, MaxSta)
  <2>1. n \in 0..MaxSta
    <3>1. body.sta \in 0..MaxSta
      BY <1>1 DEF Condition
    <3> QED BY <3>1, AtMost, VitalsConstants
  <2>2. body' = [body EXCEPT !.sta = n]
    BY <1>3
  <2> HIDE DEF n
  <2>3. Alike(body, body')
    BY <1>1, <2>1, <2>2 DEF Alike, Condition
  <2> QED BY <1>1, <2>3, AlikeWhole DEF Sound
<1> QED BY <1>2, <1>3 DEF Recover

\* Every step, the wand, the potion and the spell that binds the dead apart.
LEMMA StepSound ==
  ASSUME VitalsIInv, VitalsNext
  PROVE  Sound \/ MagoDestruyeWand \/ DrinkPoison \/ Bound
BY EnchantedSound, BlowSound, NpcSpellSound, ReviveSound, CastSound, CastReviveSound, AttackSound,
   HideSound, MeditateSound, WalkSound, EmergeSound, InvisibilitySound, ParalysisSound,
   StuporSound, VenomSound, RecoverSound DEF VitalsNext

LEMMA VitalsInitHolds == VitalsInit => VitalsIInv
<1> SUFFICES ASSUME VitalsInit PROVE VitalsIInv
  OBVIOUS
<1>1. body \in Condition
  BY VitalsLimits DEF VitalsInit, Condition
<1>2. ~body.muerto
  BY DEF VitalsInit
<1> QED BY <1>1, <1>2 DEF VitalsIInv, VitalsTypeOK, NoLife

LEMMA VitalsNextHolds == VitalsIInv /\ [VitalsNext]_body => VitalsIInv'
<1> SUFFICES ASSUME VitalsIInv, [VitalsNext]_body PROVE VitalsIInv'
  OBVIOUS
<1>1. CASE UNCHANGED body
  BY <1>1 DEF VitalsIInv, VitalsTypeOK, NoLife
<1>2. CASE Sound
  BY <1>2 DEF Sound, DiesWhole, VitalsIInv, VitalsTypeOK
<1>3. CASE MagoDestruyeWand
  BY <1>3, WandStep DEF VitalsIInv, VitalsTypeOK, NoLife
<1>4. CASE DrinkPoison
  BY <1>4, PotionStep DEF VitalsIInv, VitalsTypeOK
<1>5. CASE Bound
  BY <1>5 DEF Bound, VitalsIInv, VitalsTypeOK, NoLife
<1> QED BY <1>1, <1>2, <1>3, <1>4, <1>5, StepSound

\* The inductive invariant of the condition of a user.
THEOREM VitalsInvariant == VitalsSpec => []VitalsIInv
BY VitalsInitHolds, VitalsNextHolds, PTL DEF VitalsSpec

\* No blow, spell, timer or death leaves life, mana, stamina or a counter beyond its limits.
THEOREM VitalsTypes == VitalsSpec => []VitalsTypeOK
<1>1. VitalsIInv => VitalsTypeOK
  BY DEF VitalsIInv
<1> QED BY <1>1, VitalsInvariant, PTL

\* Life and death go together, the wand of the praetorian mage apart, and death frees from
\* everything, the potion apart and the spell that binds whom it kills.
THEOREM DeathsAreWhole == VitalsSpec => DeathIsWhole
<1>1. VitalsIInv /\ [VitalsNext]_body =>
        [/\ body'.muerto => body'.hp = 0
         /\ body'.hp = 0 /\ ~body'.muerto => MagoDestruyeWand \/ (body.hp = 0 /\ ~body.muerto)]_body
  <2> SUFFICES ASSUME VitalsIInv, VitalsNext
               PROVE  /\ body'.muerto => body'.hp = 0
                      /\ body'.hp = 0 /\ ~body'.muerto => MagoDestruyeWand \/ (body.hp = 0 /\ ~body.muerto)
    OBVIOUS
  <2> QED BY StepSound, WandStep, PotionStep DEF Sound, DiesWhole, NoLife, Bound
<1>2. VitalsIInv /\ [VitalsNext]_body =>
        [body'.muerto /\ ~Freed(body') =>
           DrinkPoison \/ KillsAndBinds \/ (body.muerto /\ ~Freed(body))]_body
  <2> SUFFICES ASSUME VitalsIInv, VitalsNext, body'.muerto, ~Freed(body')
               PROVE  DrinkPoison \/ KillsAndBinds \/ (body.muerto /\ ~Freed(body))
    OBVIOUS
  <2> QED BY StepSound, WandStep DEF Sound, DiesWhole, Bound
<1> QED BY <1>1, <1>2, VitalsInvariant, PTL DEF VitalsSpec, DeathIsWhole, AliveHasLife, DeadAreFreed

================================================================================
