----------------------------- MODULE CombatProofs -----------------------------
(***************************************************************************)
(* Proofs about Combat, for every number of users and creatures, and every *)
(* kind's life and experience: what handlers make of a state, one call     *)
(* after the other, keeps types, pets, experience and deaths in order.     *)
(***************************************************************************)
EXTENDS Combat, FiniteSetTheorems, TLAPS

-------------------------------------------------------------------------------
(* Creatures *)

\* A set of naturals that is not empty has a least element.
LEMMA LeastOf ==
  ASSUME NEW T \in SUBSET Nat, T # {}
  PROVE  \E m \in T : \A k \in T : m <= k
<1> DEFINE R == OpToRel(<, Nat)
<1>1. R = {ss \in Nat \X Nat : ss[1] < ss[2]}
  BY Zenon DEF OpToRel
<1>2. IsWellFoundedOn(R, Nat)
  BY NatLessThanWellFounded
<1> HIDE DEF R
<1>3. PICK m \in T : \A k \in T : ~ (<<k, m>> \in R)
  BY <1>2, WFMin
<1>4. ASSUME NEW k \in T PROVE m <= k
  <2>1. <<k, m>> \in Nat \X Nat /\ <<k, m>>[1] = k /\ <<k, m>>[2] = m
    OBVIOUS
  <2>2. ~(k < m)
    BY <1>1, <1>3, <2>1
  <2> QED BY <2>2
<1> QED BY <1>4

\* A creature in order: it has no more life than it may, is held one way at a time,
\* and has what it did not pay of its experience left.
Body(c) ==
  /\ c \in NpcType
  /\ c.hp <= MaxHp[c.kind]
  /\ ~(c.Paralizado /\ c.Inmovilizado)
  /\ c.ExpCount >= 0 /\ c.paid + c.ExpCount = GiveEXP[c.kind]

\* d is what became of the creature c: still there or not, the same master's.
Like(d, c) ==
  Body(d) /\ d.MaestroUser = c.MaestroUser /\ d.active = c.active /\ d.kind = c.kind

\* A change of its mind or its stamina.
LEMMA Minded ==
  ASSUME NEW c, Body(c), NEW u \in User \union {NoOne}, NEW m \in Movements, NEW b \in BOOLEAN
  PROVE  /\ Like([c EXCEPT !.Target = u], c) /\ Like([c EXCEPT !.AttackedBy = u], c)
         /\ Like([c EXCEPT !.Movement = m], c) /\ Like([c EXCEPT !.Hostile = b], c)
         /\ Like([c EXCEPT !.CanAttack = b], c)
<1>1. c \in NpcType
  BY DEF Body
<1>2. [c EXCEPT !.Target = u] \in NpcType
  BY <1>1, Z3T(20) DEF NpcType
<1>3. [c EXCEPT !.AttackedBy = u] \in NpcType
  BY <1>1, Z3T(20) DEF NpcType
<1>4. [c EXCEPT !.Movement = m] \in NpcType
  BY <1>1, Z3T(20) DEF NpcType
<1>5. [c EXCEPT !.Hostile = b] \in NpcType
  BY <1>1, Z3T(20) DEF NpcType
<1>6. [c EXCEPT !.CanAttack = b] \in NpcType
  BY <1>1, Z3T(20) DEF NpcType
<1>7. Like([c EXCEPT !.Target = u], c)
  BY <1>1, <1>2 DEF Like, Body, NpcType
<1>8. Like([c EXCEPT !.AttackedBy = u], c)
  BY <1>1, <1>3 DEF Like, Body, NpcType
<1>9. Like([c EXCEPT !.Movement = m], c)
  BY <1>1, <1>4 DEF Like, Body, NpcType
<1>10. Like([c EXCEPT !.Hostile = b], c)
  BY <1>1, <1>5 DEF Like, Body, NpcType
<1>11. Like([c EXCEPT !.CanAttack = b], c)
  BY <1>1, <1>6 DEF Like, Body, NpcType
<1> QED BY <1>7, <1>8, <1>9, <1>10, <1>11

\* A change of life, up to the most it may have.
LEMMA Lives ==
  ASSUME NEW c, Body(c), NEW h \in Int, h <= MaxHp[c.kind]
  PROVE  Like([c EXCEPT !.hp = h], c)
<1>1. c \in NpcType
  BY DEF Body
<1>2. [c EXCEPT !.hp = h] \in NpcType
  BY <1>1, Z3T(20) DEF NpcType
<1> QED BY <1>1, <1>2 DEF Like, Body, NpcType

\* It pays some of the experience it has left.
LEMMA Pays ==
  ASSUME NEW c, Body(c), NEW pay \in Int, pay <= c.ExpCount
  PROVE  Like([c EXCEPT !.ExpCount = c.ExpCount - pay, !.paid = c.paid + pay], c)
<1> DEFINE left == c.ExpCount - pay
           paid == c.paid + pay
           q == [c EXCEPT !.ExpCount = left]
           d == [q EXCEPT !.paid = paid]
<1>1. c \in NpcType
  BY DEF Body
<1>2. /\ left \in Int /\ paid \in Int /\ left >= 0
      /\ paid + left = GiveEXP[c.kind]
  <2>1. c.ExpCount \in Int /\ c.paid \in Int /\ c.paid + c.ExpCount = GiveEXP[c.kind]
    BY <1>1 DEF Body, NpcType
  <2> QED BY <2>1
<1>3. d = [c EXCEPT !.ExpCount = left, !.paid = paid]
  BY <1>1 DEF NpcType
<1> HIDE DEF left, paid
<1>4. q \in NpcType
  BY <1>1, <1>2, Z3T(20) DEF NpcType
<1>5. d \in NpcType
  <2> HIDE DEF q
  <2> QED BY <1>2, <1>4, Z3T(20) DEF NpcType
<1>6. Like(d, c)
  BY <1>1, <1>2, <1>5 DEF Like, Body, NpcType
<1> QED BY <1>3, <1>6 DEF left, paid

\* Spells hold it one way at a time or free it.
LEMMA Stuck ==
  ASSUME NEW c, Body(c), NEW b \in BOOLEAN
  PROVE  Like(Held(c, b), c) /\ Like(Freed(c), c) /\ Like(EfectoParalisisNpc(c), c)
<1>1. c \in NpcType
  BY DEF Body
<1>2. ASSUME NEW p \in BOOLEAN, NEW i \in BOOLEAN, ~(p /\ i), NEW k \in 0..IntervaloParalizado
      PROVE  Like([c EXCEPT !.Paralizado = p, !.Inmovilizado = i, !.Paralisis = k], c)
  <2> DEFINE q1 == [c EXCEPT !.Paralizado = p]
             q2 == [q1 EXCEPT !.Inmovilizado = i]
             d == [q2 EXCEPT !.Paralisis = k]
  <2>1. d = [c EXCEPT !.Paralizado = p, !.Inmovilizado = i, !.Paralisis = k]
    BY <1>1 DEF NpcType
  <2>2. q1 \in NpcType
    BY <1>1, Z3T(20) DEF NpcType
  <2>3. q2 \in NpcType
    <3> HIDE DEF q1
    <3> QED BY <2>2, Z3T(20) DEF NpcType
  <2>4. d \in NpcType
    <3> HIDE DEF q2
    <3> QED BY <2>3, Z3T(20) DEF NpcType
  <2>5. Like(d, c)
    <3>1. /\ d.hp = c.hp /\ d.kind = c.kind /\ d.ExpCount = c.ExpCount /\ d.paid = c.paid
          /\ d.MaestroUser = c.MaestroUser /\ d.active = c.active
          /\ d.Paralizado = p /\ d.Inmovilizado = i
      BY <1>1 DEF NpcType
    <3> HIDE DEF d
    <3> QED BY <1>2, <2>4, <3>1 DEF Like, Body
  <2> QED BY <2>1, <2>5
<1>3. IntervaloParalizado \in 0..IntervaloParalizado /\ 0 \in 0..IntervaloParalizado
  BY CombatAssumption
<1>4. Like(Held(c, b), c)
  <2>1. (~b) \in BOOLEAN /\ ~(~b /\ b)
    OBVIOUS
  <2> QED BY <1>2, <1>3, <2>1 DEF Held
<1>5. Like(Freed(c), c)
  BY <1>2, <1>3 DEF Freed
<1>6. Like(EfectoParalisisNpc(c), c)
  <2>1. CASE c.Paralisis > 0
    <3> DEFINE k == c.Paralisis - 1
               d == [c EXCEPT !.Paralisis = k]
    <3>1. k \in 0..IntervaloParalizado
      BY <1>1, <2>1, CombatAssumption DEF NpcType
    <3>2. EfectoParalisisNpc(c) = d
      BY <2>1 DEF EfectoParalisisNpc
    <3> HIDE DEF k
    <3>3. d \in NpcType
      BY <1>1, <3>1, Z3T(20) DEF NpcType
    <3>4. Like(d, c)
      BY <1>1, <3>3 DEF Like, Body, NpcType
    <3> QED BY <3>2, <3>4
  <2>2. CASE ~(c.Paralisis > 0)
    BY <1>5, <2>2 DEF EfectoParalisisNpc
  <2> QED BY <2>1, <2>2
<1> QED BY <1>4, <1>5, <1>6

\* A newborn creature, and the place of one that is gone.
LEMMA Born ==
  ASSUME NEW kind \in Kinds
  PROVE  /\ Body(Fresh(kind)) /\ Fresh(kind).MaestroUser = NoOne
         /\ Body(Gone(kind)) /\ Gone(kind).MaestroUser = NoOne
         /\ \A c : Body(c) => Body(OpenNPC(c, kind)) /\ OpenNPC(c, kind).MaestroUser = NoOne
<1>1. MaxHp[kind] \in Nat /\ GiveEXP[kind] \in Nat /\ IntervaloParalizado \in Nat
  BY CombatAssumption
<1>2. Hostile(kind) \in BOOLEAN
  BY DEF Hostile
<1>3. Fresh(kind) \in NpcType
  <2> DEFINE h == Hostile(kind)
             hp == MaxHp[kind]
             xp == GiveEXP[kind]
  <2>1. Fresh(kind) =
          [active |-> TRUE, kind |-> kind, hp |-> hp, ExpCount |-> xp, paid |-> 0,
           MaestroUser |-> NoOne, Target |-> NoOne, AttackedBy |-> NoOne, Movement |-> "own",
           Hostile |-> h, CanAttack |-> FALSE, Paralizado |-> FALSE,
           Inmovilizado |-> FALSE, Paralisis |-> 0]
    BY DEF Fresh
  <2>2. h \in BOOLEAN /\ hp \in Int /\ xp \in Int /\ 0 \in 0..IntervaloParalizado
    BY <1>1, <1>2
  <2> HIDE DEF h, hp, xp
  <2> QED BY <2>1, <2>2 DEF NpcType, Movements
<1>4. /\ Fresh(kind).kind = kind /\ Fresh(kind).hp = MaxHp[kind]
      /\ Fresh(kind).ExpCount = GiveEXP[kind] /\ Fresh(kind).paid = 0
      /\ ~Fresh(kind).Paralizado /\ Fresh(kind).MaestroUser = NoOne
  BY DEF Fresh
<1>5. Body(Fresh(kind))
  BY <1>1, <1>3, <1>4 DEF Body
<1>6. Body(Gone(kind)) /\ Gone(kind).MaestroUser = NoOne
  <2> DEFINE f == Fresh(kind)
             d == [f EXCEPT !.active = FALSE]
  <2>1. Gone(kind) = d
    BY DEF Gone
  <2> HIDE DEF f
  <2>2. f \in NpcType /\ Body(f) /\ f.MaestroUser = NoOne
    BY <1>3, <1>4, <1>5 DEF f
  <2>3. ASSUME NEW b \in BOOLEAN PROVE [f EXCEPT !.active = b] \in NpcType
    BY <2>2, Z3T(20) DEF NpcType
  <2>4. d \in NpcType
    BY <2>3
  <2> QED BY <2>1, <2>2, <2>4 DEF Body, NpcType
<1>7. ASSUME NEW c, Body(c)
      PROVE  Body(OpenNPC(c, kind)) /\ OpenNPC(c, kind).MaestroUser = NoOne
  <2> DEFINE f == Fresh(kind)
             q1 == [f EXCEPT !.Target = c.Target]
             q2 == [q1 EXCEPT !.AttackedBy = c.AttackedBy]
             d == [q2 EXCEPT !.CanAttack = c.CanAttack]
  <2>1. /\ c.Target \in User \union {NoOne} /\ c.AttackedBy \in User \union {NoOne}
        /\ c.CanAttack \in BOOLEAN
    BY <1>7 DEF Body, NpcType
  <2> HIDE DEF f
  <2>2. f \in NpcType /\ Body(f) /\ f.MaestroUser = NoOne
    BY <1>3, <1>4, <1>5 DEF f
  <2>3. OpenNPC(c, kind) = d
    BY <2>2 DEF OpenNPC, NpcType, f
  <2>4. Like(q1, f)
    BY <2>1, <2>2, Minded DEF Movements
  <2>5. Like(q2, q1)
    <3> HIDE DEF q1
    <3> QED BY <2>1, <2>4, Minded DEF Like, Movements
  <2>6. Like(d, q2)
    <3> HIDE DEF q2
    <3> QED BY <2>1, <2>5, Minded DEF Like, Movements
  <2> QED BY <2>2, <2>3, <2>4, <2>5, <2>6 DEF Like
<1> QED BY <1>4, <1>5, <1>6, <1>7

-------------------------------------------------------------------------------
(* States, as the handlers pass them on *)

\* What is so of every state a handler is given and leaves: users and creatures are
\* in order, pets serve who knows of them, the last kill paid in full, and every
\* user died as often in this life as it is dead.
StateOK(s) ==
  /\ s \in [user : [User -> UserType], npc : [Npc -> NpcType], short : {0}]
  /\ \A n \in Npc :
       /\ Body(s.npc[n])
       /\ s.npc[n].MaestroUser # NoOne =>
            s.npc[n].active /\ n \in s.user[s.npc[n].MaestroUser].pets
  /\ \A u \in User : s.user[u].deaths = (IF s.user[u].muerto THEN 1 ELSE 0)

\* The state s with c in the place n.
Put(s, n, c) == [s EXCEPT !.npc = [s.npc EXCEPT ![n] = c]]

\* It is in order when c is, and changes nothing else.
LEMMA Puts ==
  ASSUME NEW s, StateOK(s), NEW n \in Npc, NEW c, Body(c),
         c.MaestroUser # NoOne => c.active /\ n \in s.user[c.MaestroUser].pets
  PROVE  /\ StateOK(Put(s, n, c)) /\ Put(s, n, c).user = s.user
         /\ Put(s, n, c).npc[n] = c
         /\ \A m \in Npc \ {n} : Put(s, n, c).npc[m] = s.npc[m]
<1> DEFINE f == [s.npc EXCEPT ![n] = c]
           t == Put(s, n, c)
<1>1. c \in NpcType /\ s.npc \in [Npc -> NpcType] /\ s.user \in [User -> UserType] /\ s.short = 0
  BY DEF StateOK, Body
<1>2. f \in [Npc -> NpcType] /\ f[n] = c /\ \A m \in Npc \ {n} : f[m] = s.npc[m]
  BY <1>1
<1>3. t.npc = f /\ t.user = s.user /\ t \in [user : [User -> UserType], npc : [Npc -> NpcType], short : {0}]
  <2>1. s \in [user : [User -> UserType], npc : [Npc -> NpcType], short : {0}]
    BY DEF StateOK
  <2> HIDE DEF f
  <2>2. Put(s, n, c) = [s EXCEPT !.npc = f]
    BY DEF Put, f
  <2> QED BY <1>2, <2>1, <2>2
<1> HIDE DEF f, t
<1>4. StateOK(t)
  BY <1>2, <1>3 DEF StateOK
<1> QED BY <1>2, <1>3, <1>4 DEF t

\* In particular when c is what became of the creature there.
LEMMA PutsLike ==
  ASSUME NEW s, StateOK(s), NEW n \in Npc, NEW c, Like(c, s.npc[n])
  PROVE  /\ StateOK(Put(s, n, c)) /\ Put(s, n, c).user = s.user
         /\ Put(s, n, c).npc[n] = c
         /\ \A m \in Npc \ {n} : Put(s, n, c).npc[m] = s.npc[m]
<1>1. /\ Body(c)
      /\ c.MaestroUser # NoOne => c.active /\ n \in s.user[c.MaestroUser].pets
  BY DEF Like, StateOK
<1> QED BY <1>1, Puts

\* What s says of a creature and of a user.
LEMMA Of ==
  ASSUME NEW s, StateOK(s)
  PROVE  /\ \A n \in Npc : /\ Body(s.npc[n]) /\ s.npc[n] \in NpcType
                           /\ s.npc[n].kind \in Kinds /\ s.npc[n].hp \in Int
                           /\ s.npc[n].MaestroUser \in User \union {NoOne}
                           /\ s.npc[n].Target \in User \union {NoOne}
                           /\ s.npc[n].AttackedBy \in User \union {NoOne}
                           /\ s.npc[n].Hostile \in BOOLEAN /\ s.npc[n].CanAttack \in BOOLEAN
         /\ \A u \in User : /\ s.user[u] \in UserType
                            /\ s.user[u].pets \subseteq Npc
                            /\ s.user[u].deaths = (IF s.user[u].muerto THEN 1 ELSE 0)
<1>1. s.npc \in [Npc -> NpcType] /\ s.user \in [User -> UserType]
  BY DEF StateOK
<1>2. \A n \in Npc : s.npc[n] \in NpcType /\ Body(s.npc[n])
  BY <1>1 DEF StateOK
<1>3. \A u \in User : s.user[u] \in UserType /\ s.user[u].pets \subseteq Npc
  BY <1>1 DEF UserType
<1> QED BY <1>2, <1>3 DEF NpcType, StateOK

\* A change of one creature's record as EXCEPT writes it is a Put.
LEMMA Excepts ==
  ASSUME NEW s, StateOK(s), NEW n \in Npc, NEW v
  PROVE  /\ [s EXCEPT !.npc[n] = v] = Put(s, n, v)
         /\ [s EXCEPT !.npc[n].hp = v] = Put(s, n, [s.npc[n] EXCEPT !.hp = v])
         /\ [s EXCEPT !.npc[n].CanAttack = v] = Put(s, n, [s.npc[n] EXCEPT !.CanAttack = v])
         /\ [s EXCEPT !.npc[n].Target = v] = Put(s, n, [s.npc[n] EXCEPT !.Target = v])
BY DEF Put

\* A user dies, once.
LEMMA Dies ==
  ASSUME NEW s, StateOK(s), NEW u \in Alive(s)
  PROVE  StateOK(UserDie(s, u)) /\ UserDie(s, u).npc = s.npc
<1> DEFINE r == s.user[u]
           q == [r EXCEPT !.muerto = TRUE]
           e == [q EXCEPT !.deaths = 1]
           f == [s.user EXCEPT ![u] = e]
           t == UserDie(s, u)
<1>1. u \in User /\ r \in UserType /\ ~r.muerto /\ r.deaths = 0
  BY Of DEF Alive
<1>2. s \in [user : [User -> UserType], npc : [Npc -> NpcType], short : {0}]
  BY DEF StateOK
<1>3. Least(r.deaths + 1, 2) = 1
  BY <1>1 DEF Least
<1>4. e \in UserType /\ e.muerto /\ e.deaths = 1 /\ e.pets = r.pets
  <2> HIDE DEF r
  <2>1. ASSUME NEW b \in BOOLEAN PROVE [r EXCEPT !.muerto = b] \in UserType
    BY <1>1, Z3T(20) DEF UserType
  <2>2. q \in UserType
    BY <2>1
  <2>3. e \in UserType
    <3> HIDE DEF q
    <3> QED BY <2>2, Z3T(20) DEF UserType
  <2> QED BY <1>1, <2>3 DEF UserType
<1>5. t = [s EXCEPT !.user = f]
  <2>1. [s.user[u] EXCEPT !.muerto = TRUE, !.deaths = Least(@ + 1, 2)] = e
    BY <1>1, <1>3 DEF UserType
  <2> HIDE DEF e
  <2> QED BY <2>1 DEF UserDie
<1> HIDE DEF e, r
<1>6. f \in [User -> UserType] /\ f[u] = e /\ \A v \in User \ {u} : f[v] = s.user[v]
  BY <1>1, <1>2, <1>4
<1> HIDE DEF f
<1>7. /\ t \in [user : [User -> UserType], npc : [Npc -> NpcType], short : {0}]
      /\ t.user = f /\ t.npc = s.npc
  BY <1>2, <1>5, <1>6
<1> HIDE DEF t
<1>8. StateOK(t)
  <2>1. \A v \in User : f[v].pets = s.user[v].pets
    BY <1>4, <1>6 DEF r
  <2>2. ASSUME NEW n \in Npc, s.npc[n].MaestroUser # NoOne
        PROVE  s.npc[n].active /\ n \in f[s.npc[n].MaestroUser].pets
    BY <2>1, <2>2, Of DEF StateOK
  <2>3. ASSUME NEW v \in User PROVE f[v].deaths = (IF f[v].muerto THEN 1 ELSE 0)
    BY <1>4, <1>6 DEF StateOK
  <2> QED BY <1>7, <2>2, <2>3 DEF StateOK
<1> QED BY <1>7, <1>8 DEF t

\* A user that lives is hurt, and may die.
LEMMA Hurts ==
  ASSUME NEW s, StateOK(s), NEW u \in Alive(s), NEW t \in Hurt(s, u)
  PROVE  StateOK(t) /\ t.npc = s.npc
BY Dies DEF Hurt

-------------------------------------------------------------------------------
(* Experience and the death of creatures *)

\* A blow takes life.
LEMMA Hits ==
  ASSUME NEW s, StateOK(s), NEW n \in Npc, NEW d \in Nat
  PROVE  StateOK(Hit(s, n, d)) /\ Hit(s, n, d).user = s.user
<1> DEFINE h == s.npc[n].hp - d
           c == [s.npc[n] EXCEPT !.hp = h]
<1>1. Body(s.npc[n]) /\ s.npc[n].hp \in Int /\ s.npc[n].kind \in Kinds
  BY Of
<1>2. h \in Int /\ h <= MaxHp[s.npc[n].kind]
  <2>1. MaxHp[s.npc[n].kind] \in Nat /\ s.npc[n].hp <= MaxHp[s.npc[n].kind]
    BY <1>1, CombatAssumption DEF Body
  <2> QED BY <1>1, <2>1
<1>3. Hit(s, n, d) = Put(s, n, c)
  BY DEF Hit, Put
<1> HIDE DEF h
<1>4. Like(c, s.npc[n])
  BY <1>1, <1>2, Lives
<1> HIDE DEF c
<1> QED BY <1>3, <1>4, PutsLike

\* Wounds pay no more experience than is left.
LEMMA Earns ==
  ASSUME NEW s, StateOK(s), NEW n \in Npc, NEW d \in Nat
  PROVE  StateOK(CalcularDarExp(s, n, d)) /\ CalcularDarExp(s, n, d).user = s.user
<1> DEFINE c == s.npc[n]
           num == Least(d, c.hp) * GiveEXP[c.kind]
           exp == num \div MaxHp[c.kind]
           pay == Payable(exp, c.ExpCount)
           b == [c EXCEPT !.ExpCount = c.ExpCount - pay, !.paid = c.paid + pay]
           paid == [s EXCEPT !.npc[n].ExpCount = @ - pay, !.npc[n].paid = @ + pay]
<1>1. /\ Body(c) /\ c \in NpcType /\ c.kind \in Kinds /\ c.hp \in Int
      /\ c.ExpCount \in Int /\ c.ExpCount >= 0
  <2>1. Body(c) /\ c \in NpcType /\ c.kind \in Kinds /\ c.hp \in Int
    BY Of
  <2> QED BY <2>1 DEF Body, NpcType
<1>2. CalcularDarExp(s, n, d) = IF d <= 0 \/ exp <= 0 THEN s ELSE paid
  BY DEF CalcularDarExp
<1>3. exp \in Int
  <2>1. Least(d, c.hp) \in Int /\ GiveEXP[c.kind] \in Nat /\ MaxHp[c.kind] \in Nat \ {0}
    BY <1>1, CombatAssumption DEF Least
  <2>2. num \in Int
    BY <2>1
  <2> HIDE DEF num
  <2> QED BY <2>1, <2>2
<1> HIDE DEF exp
<1>4. pay \in Int /\ pay <= c.ExpCount
  BY <1>1, <1>3 DEF Payable, Least
<1>5. paid = Put(s, n, b)
  <2>1. s.npc \in [Npc -> NpcType]
    BY DEF StateOK
  <2> HIDE DEF pay
  <2> QED BY <1>1, <2>1 DEF Put, NpcType, StateOK
<1> HIDE DEF pay, paid
<1>6. Like(b, c)
  BY <1>1, <1>4, Pays
<1> HIDE DEF b
<1>7. StateOK(paid) /\ paid.user = s.user
  BY <1>5, <1>6, PutsLike
<1> QED BY <1>2, <1>7

\* A creature is taken out of its place.
LEMMA Quits ==
  ASSUME NEW s, StateOK(s), NEW n \in Npc
  PROVE  /\ StateOK(QuitarNPC(s, n)) /\ QuitarNPC(s, n).user = s.user
         /\ QuitarNPC(s, n).npc[n] = Gone(s.npc[n].kind)
         /\ \A m \in Npc \ {n} : QuitarNPC(s, n).npc[m] = s.npc[m]
<1>1. Body(Gone(s.npc[n].kind)) /\ Gone(s.npc[n].kind).MaestroUser = NoOne
  BY Of, Born
<1>2. QuitarNPC(s, n) = Put(s, n, Gone(s.npc[n].kind))
  BY DEF QuitarNPC, Put
<1> QED BY <1>1, <1>2, Puts

\* A creature is born in a free place, if there is one.
LEMMA ReSpawns ==
  ASSUME NEW s, StateOK(s), NEW kind \in Kinds
  PROVE  StateOK(ReSpawnNpc(s, kind)) /\ ReSpawnNpc(s, kind).user = s.user
<1> DEFINE free == Npc \ Active(s)
           n == CHOOSE x \in free : \A y \in free : x <= y
<1>1. CASE free = {}
  BY <1>1 DEF ReSpawnNpc
<1>2. CASE free # {}
  <2>1. Npc \subseteq Nat
    <3> DEFINE last == Cardinality(Npc)
    <3>1. last \in Nat /\ Npc = 1..last
      BY CombatAssumption, FS_CardinalityType
    <3> HIDE DEF last
    <3> QED BY <3>1
  <2>2. n \in Npc
    <3>1. free \in SUBSET Nat
      BY <2>1
    <3> HIDE DEF free
    <3>2. \E m \in free : \A k \in free : m <= k
      BY <1>2, <3>1, LeastOf
    <3> QED BY <3>2 DEF free
  <2>3. ReSpawnNpc(s, kind) = Put(s, n, OpenNPC(s.npc[n], kind))
    BY <1>2 DEF ReSpawnNpc, Put
  <2> HIDE DEF n
  <2>4. Body(OpenNPC(s.npc[n], kind)) /\ OpenNPC(s.npc[n], kind).MaestroUser = NoOne
    BY <2>2, Of, Born
  <2> QED BY <2>2, <2>3, <2>4, Puts
<1> QED BY <1>1, <1>2

\* A creature dies: whoever killed it is paid to the last point, and a wild one is
\* born again.
LEMMA DiesNpc ==
  ASSUME NEW s, StateOK(s), NEW n \in Npc, NEW killer
  PROVE  StateOK(MuereNpc(s, n, killer)) /\ MuereNpc(s, n, killer).user = s.user
<1> DEFINE c == s.npc[n]
           buried == QuitarNPC(s, n)
           left == GiveEXP[c.kind] - c.paid - Rest(c)
           settled == IF killer = NoOne THEN buried ELSE [buried EXCEPT !.short = left]
<1>1. StateOK(buried) /\ buried.user = s.user
  BY Quits
<1>2. left = 0 /\ c.kind \in Kinds
  <2>1. Body(c) /\ c.kind \in Kinds
    BY Of
  <2>2. c.ExpCount \in Int /\ c.paid \in Int /\ c.paid + c.ExpCount = GiveEXP[c.kind]
    BY <2>1 DEF Body, NpcType
  <2> QED BY <2>1, <2>2 DEF Rest
<1>3. MuereNpc(s, n, killer) = IF c.MaestroUser = NoOne THEN ReSpawnNpc(settled, c.kind) ELSE settled
  BY DEF MuereNpc
<1> HIDE DEF buried, left
<1>4. [buried EXCEPT !.short = left] = buried
  BY <1>1, <1>2 DEF StateOK
<1>5. StateOK(settled) /\ settled.user = s.user
  BY <1>1, <1>4
<1> HIDE DEF settled
<1> QED BY <1>2, <1>3, <1>5, ReSpawns

\* An extra blow, which nobody checks, pays within the bounds.
LEMMA Blows ==
  ASSUME NEW s, StateOK(s), NEW n \in Npc, NEW t \in Blow(s, n)
  PROVE  StateOK(t)
<1>1. \A e \in 1..MaxDamage : e \in Nat
  BY CombatAssumption
<1>2. t = s \/ \E e \in 1..MaxDamage : t = CalcularDarExp(Hit(s, n, e), n, e)
  BY DEF Blow
<1>3. ASSUME NEW e \in Nat PROVE StateOK(CalcularDarExp(Hit(s, n, e), n, e))
  <2>1. StateOK(Hit(s, n, e))
    BY Hits
  <2> QED BY <2>1, Earns
<1> QED BY <1>1, <1>2, <1>3

\* The blow of a user, with all that may come with it.
LEMMA Strikes ==
  ASSUME NEW s, StateOK(s), NEW n \in Npc, NEW u, NEW t \in UserDanoNpc(s, u, n)
  PROVE  StateOK(t)
<1> DEFINE struck(d) == Hit(CalcularDarExp(s, n, d), n, d)
<1>1. PICK d \in 0..MaxDamage :
        t \in IF struck(d).npc[n].hp > 0 THEN ExtraBlows(struck(d), n) ELSE {MuereNpc(struck(d), n, u)}
  BY DEF UserDanoNpc
<1>2. d \in Nat
  BY <1>1, CombatAssumption
<1>3. StateOK(struck(d))
  BY <1>2, Earns, Hits
<1> HIDE DEF struck
<1>4. ASSUME t \in ExtraBlows(struck(d), n) PROVE StateOK(t)
  <2>1. PICK first \in Blow(struck(d), n) : t \in Blow(first, n)
    BY <1>4 DEF ExtraBlows, AfterEach
  <2> QED BY <1>3, <2>1, Blows
<1>5. StateOK(MuereNpc(struck(d), n, u))
  BY <1>3, DiesNpc
<1> QED BY <1>1, <1>4, <1>5

-------------------------------------------------------------------------------
(* Creatures strike *)

\* A creature that struck waits for the next beat.
LEMMA Rests ==
  ASSUME NEW s, StateOK(s), NEW n \in Npc
  PROVE  /\ StateOK(Spent(s, n)) /\ Spent(s, n).user = s.user
         /\ ~Spent(s, n).npc[n].CanAttack
         /\ \A m \in Npc \ {n} : Spent(s, n).npc[m] = s.npc[m]
<1> DEFINE c == [s.npc[n] EXCEPT !.CanAttack = FALSE]
<1>1. Body(s.npc[n]) /\ s.npc[n] \in NpcType
  BY Of
<1>2. Like(c, s.npc[n]) /\ ~c.CanAttack
  <2>1. \A b \in BOOLEAN : Like([s.npc[n] EXCEPT !.CanAttack = b], s.npc[n])
    BY <1>1, Minded DEF Movements
  <2> QED BY <1>1, <2>1 DEF NpcType
<1>3. Spent(s, n) = Put(s, n, c)
  BY DEF Spent, Put
<1> HIDE DEF c
<1> QED BY <1>2, <1>3, PutsLike

\* After the blow of a creature on a user that lives, or of one that waits, the
\* creature waits: it strikes nobody a second time, the dead included.
LEMMA StrikesUser ==
  ASSUME NEW s, StateOK(s), NEW n \in Npc, NEW u \in User,
         s.npc[n].CanAttack => u \in Alive(s), NEW t \in NpcAtacaUser(s, n, u)
  PROVE  StateOK(t) /\ ~t.npc[n].CanAttack
<1> DEFINE p == Spent(s, n)
           v == IF p.npc[n].Target = NoOne THEN u ELSE p.npc[n].Target
           c == [p.npc[n] EXCEPT !.Target = v]
           r == [p EXCEPT !.npc[n].Target = IF @ = NoOne THEN u ELSE @]
<1>1. StateOK(p) /\ p.user = s.user /\ ~p.npc[n].CanAttack
  BY Rests
<1> HIDE DEF p
<1>2. r = Put(p, n, c)
  BY DEF Put
<1>3. Body(p.npc[n]) /\ p.npc[n] \in NpcType /\ v \in User \union {NoOne}
  BY <1>1, Of
<1> HIDE DEF v
<1>4. Like(c, p.npc[n]) /\ ~c.CanAttack
  <2>1. Like(c, p.npc[n])
    BY <1>3, Minded DEF Movements
  <2> QED BY <1>1, <1>3, <2>1 DEF NpcType
<1> HIDE DEF c
<1>5. StateOK(r) /\ r.user = s.user /\ ~r.npc[n].CanAttack
  BY <1>1, <1>2, <1>4, PutsLike
<1>6. NpcAtacaUser(s, n, u) = IF s.npc[n].CanAttack THEN {r} \union Hurt(r, u) ELSE {s}
  BY DEF NpcAtacaUser, p
<1> HIDE DEF r
<1>7. CASE s.npc[n].CanAttack
  <2>1. u \in Alive(r)
    BY <1>5, <1>7 DEF Alive
  <2>2. t = r \/ t \in Hurt(r, u)
    BY <1>6, <1>7
  <2> QED BY <1>5, <2>1, <2>2, Hurts
<1>8. CASE ~s.npc[n].CanAttack
  BY <1>6, <1>8
<1> QED BY <1>7, <1>8

\* A spell either does nothing or leaves the creature waiting.
LEMMA Casts ==
  ASSUME NEW s, StateOK(s), NEW n \in Npc, NEW u \in User,
         s.npc[n].CanAttack => u \in Alive(s), NEW t \in NpcLanzaUnSpell(s, n, u)
  PROVE  StateOK(t) /\ (t = s \/ ~t.npc[n].CanAttack)
<1> DEFINE p == Spent(s, n)
<1>1. StateOK(p) /\ p.user = s.user /\ ~p.npc[n].CanAttack
  BY Rests
<1> HIDE DEF p
<1>2. t = s \/ (s.npc[n].CanAttack /\ t \in Hurt(p, u))
  BY DEF NpcLanzaUnSpell, p
<1>3. ASSUME s.npc[n].CanAttack, t \in Hurt(p, u) PROVE StateOK(t) /\ ~t.npc[n].CanAttack
  <2>1. u \in Alive(p)
    BY <1>1, <1>3 DEF Alive
  <2> QED BY <1>1, <1>3, <2>1, Hurts
<1> QED BY <1>2, <1>3

\* A creature that wild ones kill is buried, and the killer goes back to its ways.
LEMMA StrikesNpc ==
  ASSUME NEW s, StateOK(s), NEW n \in Npc, NEW victim \in Npc, NEW t \in NpcAtacaNpc(s, n, victim)
  PROVE  StateOK(t)
<1> DEFINE p == Spent(s, n)
           h == IF p.npc[n].AttackedBy # NoOne THEN Hostile(p.npc[n].kind) ELSE p.npc[n].Hostile
           c1 == [p.npc[n] EXCEPT !.Movement = "own"]
           c == [c1 EXCEPT !.Hostile = h]
           calm == [p EXCEPT !.npc[n].Movement = "own",
                             !.npc[n].Hostile = IF p.npc[n].AttackedBy # NoOne
                                                THEN Hostile(p.npc[n].kind) ELSE @]
<1>1. StateOK(p)
  BY Rests
<1> HIDE DEF p
<1>2. /\ Body(p.npc[n]) /\ p.npc[n] \in NpcType /\ h \in BOOLEAN
      /\ p \in [user : [User -> UserType], npc : [Npc -> NpcType], short : {0}]
  BY <1>1, Of DEF Hostile, StateOK
<1>3. calm = Put(p, n, c)
  <2> DEFINE f == [p.npc EXCEPT ![n] = c1]
             g == [f EXCEPT ![n] = [f[n] EXCEPT !.Hostile = h]]
  <2>1. calm = [p EXCEPT !.npc = g]
    BY <1>2
  <2>2. f[n] = c1 /\ p.npc \in [Npc -> NpcType]
    BY <1>2
  <2>3. g = [p.npc EXCEPT ![n] = c]
    <3> HIDE DEF c1, h
    <3> QED BY <2>2
  <2> QED BY <2>1, <2>3 DEF Put
<1> HIDE DEF calm, h
<1>4. Like(c, p.npc[n])
  <2>1. Like(c1, p.npc[n])
    BY <1>2, Minded DEF Movements
  <2>2. Like(c, c1)
    <3> HIDE DEF c1
    <3> QED BY <1>2, <2>1, Minded DEF Like, Movements
  <2> QED BY <2>1, <2>2 DEF Like
<1> HIDE DEF c
<1>5. StateOK(calm)
  BY <1>1, <1>3, <1>4, PutsLike
<1>6. \/ t = s \/ t = p
      \/ \E d \in 1..MaxDamage : t \in {MuereNpc(calm, victim, p.npc[n].MaestroUser), Hit(p, victim, d)}
  BY DEF NpcAtacaNpc, NpcDanoNpc, p, calm
<1>7. \A d \in 1..MaxDamage : d \in Nat
  BY CombatAssumption
<1> QED BY <1>1, <1>5, <1>6, <1>7, DiesNpc, Hits

\* A creature forgets who attacked it; a pet does not.
LEMMA Restores ==
  ASSUME NEW s, StateOK(s), NEW n \in Npc
  PROVE  StateOK(RestoreOldMovement(s, n))
<1> DEFINE h == Hostile(s.npc[n].kind)
           c1 == [s.npc[n] EXCEPT !.Movement = "own"]
           c2 == [c1 EXCEPT !.AttackedBy = NoOne]
           c == [c2 EXCEPT !.Hostile = h]
<1>1. Body(s.npc[n]) /\ s.npc[n] \in NpcType /\ h \in BOOLEAN
  BY Of DEF Hostile
<1>2. RestoreOldMovement(s, n) = IF s.npc[n].MaestroUser # NoOne THEN s ELSE Put(s, n, c)
  <2>1. c = [s.npc[n] EXCEPT !.Movement = "own", !.AttackedBy = NoOne, !.Hostile = h]
    BY <1>1 DEF NpcType
  <2> HIDE DEF c
  <2> QED BY <2>1 DEF RestoreOldMovement, Put
<1> HIDE DEF h
<1>3. Like(c1, s.npc[n])
  BY <1>1, Minded DEF Movements
<1>4. Like(c2, c1)
  <2> HIDE DEF c1
  <2> QED BY <1>1, <1>3, Minded DEF Like, Movements
<1>5. Like(c, c2)
  <2> HIDE DEF c2
  <2> QED BY <1>1, <1>4, Minded DEF Like, Movements
<1>6. Like(c, s.npc[n])
  BY <1>3, <1>4, <1>5 DEF Like
<1> HIDE DEF c
<1> QED BY <1>2, <1>6, PutsLike

\* A pet lets a citizen go.
LEMMA LetsGoOK ==
  ASSUME NEW s, StateOK(s), NEW n \in Npc
  PROVE  StateOK(LetsGo(s, n))
<1> DEFINE c == [s.npc[n] EXCEPT !.AttackedBy = NoOne]
           d == IF c.Paralizado \/ c.Inmovilizado THEN c ELSE FollowAmo(c)
<1>1. Body(s.npc[n])
  BY Of
<1>2. Like(c, s.npc[n])
  BY <1>1, Minded DEF Movements
<1>3. LetsGo(s, n) = Put(s, n, d)
  BY DEF LetsGo, Put
<1> HIDE DEF c
<1>4. Like(FollowAmo(c), c)
  BY <1>2, Minded DEF Like, Movements, FollowAmo
<1>5. Like(d, s.npc[n])
  BY <1>2, <1>4 DEF Like
<1> HIDE DEF d
<1> QED BY <1>3, <1>5, PutsLike

-------------------------------------------------------------------------------
(* What a creature does at each beat *)

\* At who stands next to it ...
LEMMA Looks ==
  ASSUME NEW s, StateOK(s), NEW n \in Npc, NEW t \in LooksAround(s, n)
  PROVE  StateOK(t)
<1>1. StateOK(RestoreOldMovement(s, n))
  BY Restores
<1>2. \A u \in Alive(s) : u \in User
  BY DEF Alive
<1>3. ASSUME t \in GuardiasAI(s, n) PROVE StateOK(t)
  <2>1. t = RestoreOldMovement(s, n) \/ \E u \in Alive(s) : t \in NpcAtacaUser(s, n, u)
    BY <1>3 DEF GuardiasAI
  <2> QED BY <1>1, <1>2, <2>1, StrikesUser
<1>4. ASSUME t \in HostilMalvadoAI(s, n) PROVE StateOK(t)
  <2>1. \/ t = RestoreOldMovement(s, n)
        \/ \E u \in Alive(s) : \/ \E r \in NpcAtacaUser(s, n, u) : t \in NpcLanzaUnSpell(r, n, u)
                               \/ t \in NpcLanzaUnSpell(s, n, u)
        \/ \E p \in Npc : t \in NpcAtacaNpc(s, n, p)
    <3> DEFINE Cast(u) == [r \in NpcAtacaUser(s, n, u) |-> NpcLanzaUnSpell(r, n, u)]
               prey == {p \in Active(s) \ {n} : s.npc[p].MaestroUser # NoOne /\ ~s.npc[p].Paralizado}
               at(u) == UNION {Cast(u)[r] : r \in DOMAIN Cast(u)}
    <3>1. HostilMalvadoAI(s, n) =
            {RestoreOldMovement(s, n)}
            \union (UNION {at(u) \union NpcLanzaUnSpell(s, n, u) : u \in Alive(s)})
            \union (UNION {NpcAtacaNpc(s, n, p) : p \in prey})
      BY Zenon DEF HostilMalvadoAI
    <3>2. ASSUME NEW u \in Alive(s), t \in at(u)
          PROVE  \E r \in NpcAtacaUser(s, n, u) : t \in NpcLanzaUnSpell(r, n, u)
      BY <3>2
    <3>3. \A p \in prey : p \in Npc
      BY DEF Active
    <3> HIDE DEF at, prey
    <3>4. \/ t = RestoreOldMovement(s, n)
          \/ \E u \in Alive(s) : t \in at(u) \/ t \in NpcLanzaUnSpell(s, n, u)
          \/ \E p \in prey : t \in NpcAtacaNpc(s, n, p)
      BY <1>4, <3>1
    <3> QED BY <3>2, <3>3, <3>4
  <2>2. ASSUME NEW u \in Alive(s), NEW r \in NpcAtacaUser(s, n, u), t \in NpcLanzaUnSpell(r, n, u)
        PROVE  StateOK(t)
    <3>1. StateOK(r) /\ ~r.npc[n].CanAttack
      BY <1>2, <2>2, StrikesUser
    <3> QED BY <1>2, <2>2, <3>1, Casts
  <2> QED BY <1>1, <1>2, <2>1, <2>2, Casts, StrikesNpc
<1>5. ASSUME t \in HostilBuenoAI(s, n) PROVE StateOK(t)
  <2>1. \/ t = RestoreOldMovement(s, n)
        \/ \E u \in Alive(s), r \in UNION {NpcLanzaUnSpell(s, n, w) : w \in Alive(s)} :
             r \in NpcLanzaUnSpell(s, n, u) /\ t \in NpcAtacaUser(r, n, u)
    BY <1>5 DEF HostilBuenoAI, AfterEach
  <2>2. ASSUME NEW u \in Alive(s), NEW r \in NpcLanzaUnSpell(s, n, u), t \in NpcAtacaUser(r, n, u)
        PROVE  StateOK(t)
    <3>1. StateOK(r) /\ (r = s \/ ~r.npc[n].CanAttack)
      BY <1>2, <2>2, Casts
    <3> QED BY <1>2, <2>2, <3>1, StrikesUser
  <2> QED BY <1>1, <2>1, <2>2
<1> QED BY <1>3, <1>4, <1>5 DEF LooksAround

\* ... and then as it moves.
LEMMA Moved ==
  ASSUME NEW s, StateOK(s), NEW n \in Npc, NEW t \in Moves(s, n)
  PROVE  StateOK(t)
<1>1. StateOK(RestoreOldMovement(s, n)) /\ StateOK(LetsGo(s, n))
  BY Restores, LetsGoOK
<1>2. \A u \in Alive(s) : u \in User
  BY DEF Alive
<1>3. \/ t = s \/ t = RestoreOldMovement(s, n) \/ t = LetsGo(s, n)
      \/ \E u \in Alive(s) : t \in NpcLanzaUnSpell(s, n, u) \/ t \in NpcAtacaUser(s, n, u)
  <2>1. ASSUME t \in SeguirAgresor(s, n)
        PROVE  \/ t = s \/ t = RestoreOldMovement(s, n) \/ t = LetsGo(s, n)
               \/ \E u \in Alive(s) : t \in NpcLanzaUnSpell(s, n, u) \/ t \in NpcAtacaUser(s, n, u)
    <3> DEFINE u == s.npc[n].AttackedBy
               strikes == IF u \notin Alive(s) THEN {}
                          ELSE IF LanzaSpells(s.npc[n].kind) THEN NpcLanzaUnSpell(s, n, u)
                               ELSE NpcAtacaUser(s, n, u)
    <3>1. \/ t = RestoreOldMovement(s, n) \/ t = LetsGo(s, n)
          \/ t \in strikes
      BY <2>1, Zenon DEF SeguirAgresor
    <3> HIDE DEF u
    <3> QED BY <3>1
  <2>2. ASSUME t \in SeguirAmo(s, n) PROVE t = s \/ t = RestoreOldMovement(s, n)
    BY <2>2 DEF SeguirAmo
  <2> QED BY <2>1, <2>2 DEF Moves, IrUsuarioCercano, PersigueCriminal
<1> QED BY <1>1, <1>2, <1>3, Casts, StrikesUser

\* The two together.
LEMMA Thinks ==
  ASSUME NEW s, StateOK(s), NEW n \in Npc, NEW t \in NPCAI(s, n)
  PROVE  StateOK(t)
<1>1. PICK r \in LooksAround(s, n) : t \in Moves(r, n)
  BY DEF NPCAI, AfterEach
<1>2. StateOK(r)
  BY Looks
<1> QED BY <1>1, <1>2, Moved

-------------------------------------------------------------------------------
(* The invariant *)

IInv == StateOK(Now)

\* A handler whose states are all in order keeps the invariant.
LEMMA BecomesOK ==
  ASSUME NEW states, \A s \in states : StateOK(s), Becomes(states)
  PROVE  IInv'
<1>1. PICK s \in states : user' = s.user /\ npc' = s.npc /\ short' = s.short
  BY DEF Becomes
<1>2. StateOK(s)
  OBVIOUS
<1>3. s = [user |-> s.user, npc |-> s.npc, short |-> s.short]
  BY <1>2 DEF StateOK
<1>4. Now' = s
  BY <1>1, <1>3 DEF Now
<1>5. IInv' <=> StateOK(Now')
  BY DEF IInv, StateOK, Body
<1> QED BY <1>2, <1>4, <1>5

\* A spell that leaves the creature there what became of it keeps it too.
LEMMA NpcStep ==
  ASSUME IInv, NEW n \in Npc, NEW c, Like(c, npc[n]), npc' = [npc EXCEPT ![n] = c],
         UNCHANGED <<user, short>>
  PROVE  IInv'
<1> DEFINE t == Put(Now, n, c)
<1>1. StateOK(t)
  BY PutsLike DEF IInv, Now
<1>2. t.user = user' /\ t.npc = npc' /\ t.short = short'
  BY DEF Put, Now
<1> HIDE DEF t
<1>3. Becomes({t})
  BY <1>2 DEF Becomes
<1> QED BY <1>1, <1>3, BecomesOK

\* Fields of the record the handlers work on.
LEMMA NowIs ==
  ASSUME IInv
  PROVE  /\ Now.user = user /\ Now.npc = npc /\ Now.short = short /\ StateOK(Now)
         /\ user \in [User -> UserType] /\ npc \in [Npc -> NpcType] /\ short = 0
<1>1. Now.user = user /\ Now.npc = npc /\ Now.short = short /\ StateOK(Now)
  BY DEF Now, IInv
<1>2. Now \in [user : [User -> UserType], npc : [Npc -> NpcType], short : {0}]
  BY <1>1 DEF StateOK
<1> QED BY <1>1, <1>2

\* A user strikes a creature, or casts a spell that takes its life or gives it.
LEMMA UserOnNpcStep ==
  ASSUME IInv, NEW u \in User, NEW n \in Npc,
         UsuarioAtacaNpc(u, n) \/ HechizoPropNPC(u, n) \/ HechizoEstadoNPC(u, n)
  PROVE  IInv'
<1>1. CASE UsuarioAtacaNpc(u, n)
  <2>1. \A t \in UserDanoNpc(Now, u, n) : StateOK(t)
    BY NowIs, Strikes
  <2> QED BY <1>1, <2>1, BecomesOK DEF UsuarioAtacaNpc
<1>2. CASE HechizoPropNPC(u, n)
  <2> DEFINE healed(d) == [Now EXCEPT !.npc[n].hp = Least(@ + d, MaxHp[npc[n].kind])]
             struck(d) == CalcularDarExp(Hit(Now, n, d), n, d)
  <2>1. PICK d \in 0..MaxDamage :
          \/ Becomes({healed(d)})
          \/ Becomes({IF struck(d).npc[n].hp < 1 THEN MuereNpc(struck(d), n, u) ELSE struck(d)})
    BY <1>2, Zenon DEF HechizoPropNPC
  <2>2. d \in Nat
    BY <2>1, CombatAssumption
  <2>3. StateOK(healed(d))
    <3> DEFINE h == Least(npc[n].hp + d, MaxHp[npc[n].kind])
               c == [Now.npc[n] EXCEPT !.hp = h]
    <3>1. Body(Now.npc[n]) /\ npc[n].hp \in Int /\ npc[n].kind \in Kinds /\ Now.npc = npc
      BY NowIs, Of
    <3>2. h \in Int /\ h <= MaxHp[npc[n].kind]
      <4>1. MaxHp[npc[n].kind] \in Nat
        BY <3>1, CombatAssumption
      <4> QED BY <2>2, <3>1, <4>1 DEF Least
    <3>3. healed(d) = Put(Now, n, c)
      <4>1. Least(Now.npc[n].hp + d, MaxHp[npc[n].kind]) = h
        BY <3>1
      <4> HIDE DEF h
      <4> QED BY <4>1 DEF Put
    <3> HIDE DEF h
    <3>4. Like(c, Now.npc[n])
      BY <3>1, <3>2, Lives
    <3> HIDE DEF c
    <3> QED BY <3>3, <3>4, NowIs, PutsLike
  <2>4. StateOK(struck(d))
    <3>1. StateOK(Hit(Now, n, d))
      BY <2>2, NowIs, Hits
    <3> QED BY <2>2, <3>1, Earns
  <2> HIDE DEF healed, struck
  <2>5. StateOK(MuereNpc(struck(d), n, u))
    BY <2>4, DiesNpc
  <2>6. StateOK(IF struck(d).npc[n].hp < 1 THEN MuereNpc(struck(d), n, u) ELSE struck(d))
    BY <2>4, <2>5
  <2> QED BY <2>1, <2>3, <2>6, BecomesOK
<1>3. CASE HechizoEstadoNPC(u, n)
  <2>1. Body(npc[n])
    BY NowIs, Of
  <2>2. /\ \/ \E b \in BOOLEAN : npc' = [npc EXCEPT ![n] = Held(npc[n], b)]
           \/ npc' = [npc EXCEPT ![n] = Freed(npc[n])]
        /\ UNCHANGED <<user, short>>
    BY <1>3 DEF HechizoEstadoNPC
  <2> QED BY <2>1, <2>2, Stuck, NpcStep
<1> QED BY <1>1, <1>2, <1>3

\* The pets of a user turn on another one.
LEMMA PetsTurn ==
  ASSUME NEW s, StateOK(s), NEW v \in User, NEW m \in User
  PROVE  /\ StateOK(AllMascotasAtacanUser(s, v, m)) /\ AllMascotasAtacanUser(s, v, m).user = s.user
         /\ StateOK(AllFollowAmo(s, m)) /\ AllFollowAmo(s, m).user = s.user
<1>1. ASSUME NEW f \in [Npc -> NpcType],
             \A n \in Npc : f[n] = s.npc[n] \/ Like(f[n], s.npc[n])
      PROVE  StateOK([s EXCEPT !.npc = f]) /\ [s EXCEPT !.npc = f].user = s.user
  <2> DEFINE t == [s EXCEPT !.npc = f]
  <2>1. s \in [user : [User -> UserType], npc : [Npc -> NpcType], short : {0}]
    BY DEF StateOK
  <2>2. /\ t \in [user : [User -> UserType], npc : [Npc -> NpcType], short : {0}]
        /\ t.npc = f /\ t.user = s.user
    BY <2>1
  <2> HIDE DEF t
  <2>3. \A n \in Npc : /\ Body(f[n]) /\ f[n].MaestroUser = s.npc[n].MaestroUser
                       /\ f[n].active = s.npc[n].active
    BY <1>1 DEF Like, StateOK
  <2>4. StateOK(t)
    BY <2>2, <2>3 DEF StateOK
  <2> QED BY <2>2, <2>4 DEF t
<1> DEFINE angry(n) == [s.npc[n] EXCEPT !.AttackedBy = v, !.Movement = "NPCDEFENSA", !.Hostile = TRUE,
                                        !.Target = v]
           calm(n) == [s.npc[n] EXCEPT !.Target = NoOne, !.Movement = "SigueAmo"]
           f == [n \in Npc |-> IF n \notin s.user[m].pets THEN s.npc[n] ELSE angry(n)]
           g == [n \in Npc |-> IF n \notin s.user[m].pets THEN s.npc[n] ELSE calm(n)]
<1>2. ASSUME NEW n \in Npc PROVE Like(angry(n), s.npc[n]) /\ Like(calm(n), s.npc[n])
  <2> DEFINE c == s.npc[n]
             a1 == [c EXCEPT !.AttackedBy = v]
             a2 == [a1 EXCEPT !.Movement = "NPCDEFENSA"]
             a3 == [a2 EXCEPT !.Hostile = TRUE]
             a4 == [a3 EXCEPT !.Target = v]
             b1 == [c EXCEPT !.Target = NoOne]
             b2 == [b1 EXCEPT !.Movement = "SigueAmo"]
  <2>1. Body(c) /\ c \in NpcType
    BY Of
  <2>2. angry(n) = a4 /\ calm(n) = b2
    BY <2>1 DEF NpcType
  <2> HIDE DEF c, angry, calm
  <2>3. Like(a1, c) /\ Like(b1, c)
    BY <2>1, Minded DEF Movements
  <2>4. Like(a2, a1) /\ Like(b2, b1)
    <3> HIDE DEF a1, b1
    <3> QED BY <2>3, Minded DEF Like, Movements
  <2>5. Like(a3, a2)
    <3> HIDE DEF a2
    <3> QED BY <2>4, Minded DEF Like, Movements
  <2>6. Like(a4, a3)
    <3> HIDE DEF a3
    <3> QED BY <2>5, Minded DEF Like, Movements
  <2> QED BY <2>2, <2>3, <2>4, <2>5, <2>6 DEF Like, c
<1> HIDE DEF angry, calm
<1>3. \A n \in Npc : (f[n] = s.npc[n] \/ Like(f[n], s.npc[n])) /\ (g[n] = s.npc[n] \/ Like(g[n], s.npc[n]))
  BY <1>2
<1>4. f \in [Npc -> NpcType] /\ g \in [Npc -> NpcType]
  <2>1. \A n \in Npc : s.npc[n] \in NpcType /\ angry(n) \in NpcType /\ calm(n) \in NpcType
    BY <1>2, Of DEF Like, Body
  <2> QED BY <2>1
<1>5. /\ AllMascotasAtacanUser(s, v, m) = [s EXCEPT !.npc = f]
      /\ AllFollowAmo(s, m) = [s EXCEPT !.npc = g]
  BY DEF AllMascotasAtacanUser, AllFollowAmo, angry, calm
<1> HIDE DEF f, g
<1> QED BY <1>1, <1>3, <1>4, <1>5

\* A user strikes another, who may die of it.
LEMMA UserOnUserStep ==
  ASSUME IInv, NEW a \in User, NEW v \in User,
         UsuarioAtacaUsuario(a, v) \/ HechizoPropUsuario(a, v)
  PROVE  IInv'
<1> DEFINE roused == UsuarioAtacadoPorUsuario(Now, a, v)
           start(duel) == IF duel THEN Now ELSE roused
<1>1. StateOK(Now) /\ Now.user = user /\ ~user[v].muerto
  BY NowIs DEF UsuarioAtacaUsuario, HechizoPropUsuario
<1>2. StateOK(roused) /\ roused.user = user
  <2> DEFINE r == AllMascotasAtacanUser(Now, a, v)
  <2>1. StateOK(r) /\ r.user = user
    BY <1>1, PetsTurn
  <2>2. roused = AllMascotasAtacanUser(r, v, a)
    BY DEF UsuarioAtacadoPorUsuario
  <2> HIDE DEF r, roused
  <2> QED BY <2>1, <2>2, PetsTurn
<1>3. ASSUME NEW duel \in BOOLEAN
      PROVE  StateOK(start(duel)) /\ v \in Alive(start(duel))
  BY <1>1, <1>2 DEF Alive
<1>4. CASE UsuarioAtacaUsuario(a, v)
  <2>1. PICK duel \in BOOLEAN :
          Becomes({start(duel), UserDie(CallBack(start(duel), a, v), v)})
    BY <1>4, Zenon DEF UsuarioAtacaUsuario
  <2> DEFINE s == start(duel)
  <2>2. StateOK(s) /\ v \in Alive(s)
    BY <1>3
  <2> HIDE DEF s
  <2>3. StateOK(CallBack(s, a, v)) /\ CallBack(s, a, v).user = s.user
    BY <2>2, PetsTurn DEF CallBack
  <2>4. StateOK(UserDie(CallBack(s, a, v), v))
    BY <2>2, <2>3, Dies DEF Alive
  <2> QED BY <2>1, <2>2, <2>4, BecomesOK DEF s
<1>5. CASE HechizoPropUsuario(a, v)
  <2>1. PICK duel \in BOOLEAN : Becomes(Hurt(start(duel), v))
    BY <1>5, Zenon DEF HechizoPropUsuario
  <2> DEFINE s == start(duel)
  <2>2. StateOK(s) /\ v \in Alive(s)
    BY <1>3
  <2> HIDE DEF s
  <2>3. \A t \in Hurt(s, v) : StateOK(t)
    BY <2>2, Hurts
  <2> QED BY <2>1, <2>3, BecomesOK DEF s
<1> QED BY <1>4, <1>5

\* A step that sets the variables one by one keeps the invariant when each is in order.
LEMMA Ordered ==
  ASSUME user' \in [User -> UserType], npc' \in [Npc -> NpcType], short' = 0,
         \A n \in Npc :
           /\ Body(npc'[n])
           /\ npc'[n].MaestroUser # NoOne =>
                npc'[n].active /\ n \in user'[npc'[n].MaestroUser].pets,
         \A u \in User : user'[u].deaths = (IF user'[u].muerto THEN 1 ELSE 0)
  PROVE  IInv'
<1>1. /\ Now'.user = user' /\ Now'.npc = npc' /\ Now'.short = short'
      /\ Now' \in [user : [User -> UserType], npc : [Npc -> NpcType], short : {0}]
  BY DEF Now
<1>2. StateOK(Now')
  BY <1>1 DEF StateOK
<1> QED BY <1>2 DEF IInv, StateOK, Body

\* What the invariant says of the variables.
LEMMA NowOf ==
  ASSUME IInv
  PROVE  /\ \A n \in Npc :
              /\ Body(npc[n]) /\ npc[n] \in NpcType
              /\ npc[n].MaestroUser \in User \union {NoOne}
              /\ npc[n].MaestroUser # NoOne =>
                   npc[n].active /\ n \in user[npc[n].MaestroUser].pets
         /\ \A u \in User : /\ user[u] \in UserType
                            /\ user[u].deaths = (IF user[u].muerto THEN 1 ELSE 0)
<1>1. Now.user = user /\ Now.npc = npc /\ StateOK(Now)
  BY NowIs
<1> QED BY <1>1, Of DEF StateOK

\* A user comes back to life.
LEMMA RevivirStep ==
  ASSUME IInv, NEW u \in User, RevivirUsuario(u)
  PROVE  IInv'
<1> DEFINE q == [user[u] EXCEPT !.muerto = FALSE]
           r == [q EXCEPT !.deaths = 0]
<1>1. user[u] \in UserType /\ user \in [User -> UserType] /\ npc \in [Npc -> NpcType] /\ short = 0
  BY NowIs
<1>2. r \in UserType /\ ~r.muerto /\ r.deaths = 0 /\ r.pets = user[u].pets
  <2>1. ASSUME NEW b \in BOOLEAN PROVE [user[u] EXCEPT !.muerto = b] \in UserType
    BY <1>1, Z3T(20) DEF UserType
  <2>2. q \in UserType
    BY <2>1
  <2>3. r \in UserType
    <3> HIDE DEF q
    <3> QED BY <2>2, Z3T(20) DEF UserType
  <2> QED BY <1>1, <2>3 DEF UserType
<1>3. user' = [user EXCEPT ![u] = r] /\ npc' = npc /\ short' = short
  BY <1>1 DEF RevivirUsuario, UserType
<1> HIDE DEF r
<1>4. /\ user' \in [User -> UserType] /\ user'[u] = r
      /\ \A v \in User \ {u} : user'[v] = user[v]
  BY <1>1, <1>2, <1>3
<1>5. \A v \in User : user'[v].pets = user[v].pets
  BY <1>2, <1>4
<1>6. \A v \in User : user'[v].deaths = (IF user'[v].muerto THEN 1 ELSE 0)
  BY <1>2, <1>4, NowOf
<1>7. \A n \in Npc : npc'[n].MaestroUser # NoOne =>
                       npc'[n].active /\ n \in user'[npc'[n].MaestroUser].pets
  BY <1>3, <1>5, NowOf
<1> QED BY <1>1, <1>3, <1>4, <1>6, <1>7, NowOf, Ordered

\* A creature is tamed, called to follow, or released.
LEMMA PetStep ==
  ASSUME IInv, NEW u \in User, NEW n \in Npc,
         DoDomar(u, n) \/ HandlePetFollow(u, n) \/ HandleReleasePet(u, n)
  PROVE  IInv'
<1>1. user[u] \in UserType /\ user \in [User -> UserType] /\ npc \in [Npc -> NpcType] /\ short = 0
  BY NowIs
<1>2. Body(npc[n]) /\ npc[n] \in NpcType /\ user[u].pets \subseteq Npc
  BY <1>1, NowOf DEF UserType
<1>3. ASSUME NEW P \in SUBSET Npc
      PROVE  LET r == [user[u] EXCEPT !.pets = P]
             IN  r \in UserType /\ r.pets = P /\ r.muerto = user[u].muerto /\ r.deaths = user[u].deaths
  BY <1>1, Z3T(20) DEF UserType
<1>4. CASE DoDomar(u, n)
  <2> DEFINE r == [user[u] EXCEPT !.pets = user[u].pets \union {n}]
             c1 == [npc[n] EXCEPT !.MaestroUser = u]
             c == FollowAmo(c1)
  <2>1. r \in UserType /\ r.pets = user[u].pets \union {n} /\ r.muerto = user[u].muerto
        /\ r.deaths = user[u].deaths
    BY <1>2, <1>3
  <2>2. c1 \in NpcType
    BY <1>2, Z3T(20) DEF NpcType
  <2>3. Body(c1) /\ c1.MaestroUser = u /\ c1.active
    BY <1>2, <1>4, <2>2 DEF Body, NpcType, DoDomar
  <2>4. Body(c) /\ c.MaestroUser = u /\ c.active
    <3> HIDE DEF c1
    <3> QED BY <2>3, Minded DEF FollowAmo, Like, Movements
  <2>5. user' = [user EXCEPT ![u] = r] /\ npc' = [npc EXCEPT ![n] = c] /\ short' = short
    BY <1>4 DEF DoDomar
  <2> HIDE DEF r, c
  <2>6. /\ user' \in [User -> UserType] /\ user'[u] = r
        /\ \A v \in User \ {u} : user'[v] = user[v]
        /\ npc' \in [Npc -> NpcType] /\ npc'[n] = c
        /\ \A m \in Npc \ {n} : npc'[m] = npc[m]
    BY <1>1, <2>1, <2>4, <2>5 DEF Body
  <2>7. \A v \in User : /\ user[v].pets \subseteq user'[v].pets
                        /\ user'[v].deaths = (IF user'[v].muerto THEN 1 ELSE 0)
    BY <2>1, <2>6, NowOf
  <2>8. \A m \in Npc : /\ Body(npc'[m])
                       /\ npc'[m].MaestroUser # NoOne =>
                            npc'[m].active /\ m \in user'[npc'[m].MaestroUser].pets
    <3>1. n \in user'[u].pets
      BY <2>1, <2>6
    <3> QED BY <2>4, <2>6, <2>7, <3>1, NowOf
  <2> QED BY <1>1, <2>5, <2>6, <2>7, <2>8, Ordered
<1>5. CASE HandlePetFollow(u, n)
  <2>1. Like(FollowAmo(npc[n]), npc[n])
    BY <1>2, Minded DEF FollowAmo, Movements
  <2> QED BY <1>5, <2>1, NpcStep DEF HandlePetFollow
<1>6. CASE HandleReleasePet(u, n)
  <2> DEFINE r == [user[u] EXCEPT !.pets = user[u].pets \ {n}]
             c == Gone(npc[n].kind)
  <2>1. r \in UserType /\ r.pets = user[u].pets \ {n} /\ r.muerto = user[u].muerto
        /\ r.deaths = user[u].deaths
    BY <1>2, <1>3
  <2>2. Body(c) /\ c.MaestroUser = NoOne
    BY <1>2, Born DEF NpcType
  <2>3. user' = [user EXCEPT ![u] = r] /\ npc' = QuitarNPC(Now, n).npc /\ short' = short
    BY <1>6 DEF HandleReleasePet
  <2>4. /\ npc'[n] = c /\ \A m \in Npc \ {n} : npc'[m] = npc[m]
        /\ npc' \in [Npc -> NpcType]
    BY <2>3, NowIs, Quits DEF StateOK
  <2> HIDE DEF r, c
  <2>5. /\ user' \in [User -> UserType] /\ user'[u] = r
        /\ \A v \in User \ {u} : user'[v] = user[v]
    BY <1>1, <2>1, <2>3
  <2>6. \A v \in User : /\ user[v].pets \ {n} \subseteq user'[v].pets
                        /\ user'[v].deaths = (IF user'[v].muerto THEN 1 ELSE 0)
    BY <2>1, <2>5, NowOf
  <2>7. \A m \in Npc : /\ Body(npc'[m])
                       /\ npc'[m].MaestroUser # NoOne =>
                            npc'[m].active /\ m \in user'[npc'[m].MaestroUser].pets
    BY <2>2, <2>4, <2>6, NowOf
  <2> QED BY <1>1, <2>3, <2>4, <2>5, <2>6, <2>7, Ordered
<1> QED BY <1>4, <1>5, <1>6

\* A creature thinks, unless it is paralysed.
LEMMA TimerStep ==
  ASSUME IInv, NEW n \in Npc, TIMER_AI(n)
  PROVE  IInv'
<1> DEFINE c == npc[n]
           d == IF c.Paralizado \/ c.Inmovilizado THEN EfectoParalisisNpc(c) ELSE c
           s == [Now EXCEPT !.npc[n] = d]
<1>1. Body(c) /\ StateOK(Now) /\ Now.npc = npc
  BY NowIs, NowOf
<1>2. s = Put(Now, n, d)
  BY DEF Put
<1>3. Becomes(IF c.Paralizado THEN {s} ELSE NPCAI(s, n))
  BY Zenon DEF TIMER_AI
<1>4. Like(d, c)
  <2>1. Like(EfectoParalisisNpc(c), c) /\ Like(c, c)
    BY <1>1, Stuck DEF Like
  <2> QED BY <2>1
<1> HIDE DEF d
<1>5. StateOK(s)
  BY <1>1, <1>2, <1>4, PutsLike
<1> HIDE DEF s
<1>6. \A t \in IF c.Paralizado THEN {s} ELSE NPCAI(s, n) : StateOK(t)
  BY <1>5, Thinks
<1> HIDE DEF c
<1> QED BY <1>3, <1>6, BecomesOK

\* The beat by which creatures may strike again.
LEMMA BeatStep ==
  ASSUME IInv, npcataca
  PROVE  IInv'
<1> DEFINE b(n) == npc[n].CanAttack \/ \E m \in Active(Now) : n <= m
           c(n) == [npc[n] EXCEPT !.CanAttack = b(n)]
<1>1. user \in [User -> UserType] /\ npc \in [Npc -> NpcType] /\ short = 0
  BY NowIs
<1>2. npc' = [n \in Npc |-> c(n)] /\ user' = user /\ short' = short
  BY DEF npcataca
<1>3. ASSUME NEW n \in Npc PROVE Like(c(n), npc[n])
  <2>1. b(n) \in BOOLEAN /\ Body(npc[n])
    BY NowOf DEF NpcType
  <2> HIDE DEF b
  <2> QED BY <2>1, Minded DEF Movements
<1> HIDE DEF c
<1>4. \A n \in Npc : npc'[n] = c(n)
  BY <1>2
<1>5. npc' \in [Npc -> NpcType]
  BY <1>2, <1>3 DEF Like, Body
<1>6. \A n \in Npc : /\ Body(npc'[n])
                     /\ npc'[n].MaestroUser # NoOne =>
                          npc'[n].active /\ n \in user'[npc'[n].MaestroUser].pets
  BY <1>2, <1>3, <1>4, NowOf DEF Like
<1> QED BY <1>1, <1>2, <1>5, <1>6, NowOf, Ordered

\* A creature is brought in.
LEMMA SpawnStep ==
  ASSUME IInv, SpawnNpc
  PROVE  IInv'
<1>1. PICK n \in Npc : npc' = ReSpawnNpc(Now, npc[n].kind).npc
  BY DEF SpawnNpc
<1> DEFINE t == ReSpawnNpc(Now, npc[n].kind)
<1>2. npc[n].kind \in Kinds
  BY NowOf DEF NpcType
<1>3. StateOK(t) /\ t.user = user
  BY <1>2, NowIs, ReSpawns
<1>4. t.short = 0 /\ short = 0 /\ user' = user /\ short' = short /\ npc' = t.npc
  BY <1>1, <1>3, NowIs DEF SpawnNpc, StateOK
<1> HIDE DEF t
<1>5. Becomes({t})
  BY <1>3, <1>4 DEF Becomes
<1> QED BY <1>3, <1>5, BecomesOK

\* Nobody is dead, and every creature is newborn.
LEMMA InitIInv == Init => IInv
<1> SUFFICES ASSUME Init PROVE IInv
  OBVIOUS
<1>1. PICK first \in FirstKinds : npc = [n \in Npc |-> Fresh(first[n])]
  BY DEF Init
<1>2. \A n \in Npc : first[n] \in Kinds
  BY CombatAssumption
<1>3. \A n \in Npc : npc[n] \in NpcType /\ Body(npc[n]) /\ npc[n].MaestroUser = NoOne
  BY <1>1, <1>2, Born DEF Body
<1>4. user \in [User -> UserType] /\ \A u \in User : user[u].deaths = (IF user[u].muerto THEN 1 ELSE 0)
  BY DEF Init, UserType
<1>5. npc \in [Npc -> NpcType] /\ short = 0
  BY <1>1, <1>3 DEF Init
<1>6. /\ Now.user = user /\ Now.npc = npc
      /\ Now \in [user : [User -> UserType], npc : [Npc -> NpcType], short : {0}]
  BY <1>4, <1>5 DEF Now
<1> QED BY <1>3, <1>4, <1>6 DEF IInv, StateOK

\* Every step keeps the invariant.
LEMMA NextIInv == IInv /\ [Next]_vars => IInv'
<1> SUFFICES ASSUME IInv, [Next]_vars PROVE IInv'
  OBVIOUS
<1>1. CASE UNCHANGED vars
  BY <1>1, NowIs, NowOf, Ordered DEF vars
<1>2. ASSUME NEW u \in User, NEW n \in Npc,
             \/ UsuarioAtacaNpc(u, n) \/ HechizoPropNPC(u, n) \/ HechizoEstadoNPC(u, n)
             \/ DoDomar(u, n) \/ HandlePetFollow(u, n) \/ HandleReleasePet(u, n)
      PROVE  IInv'
  BY <1>2, UserOnNpcStep, PetStep
<1> QED BY <1>1, <1>2, UserOnUserStep, RevivirStep, TimerStep, BeatStep, SpawnStep DEF Next

-------------------------------------------------------------------------------
(* Theorems *)

\* The invariant holds of every behaviour.
THEOREM CombatInvariant == Spec => []IInv
BY InitIInv, NextIInv, PTL DEF Spec

\* Pets serve who knows of them and live, nothing is held two ways or has more life
\* than it may, and the experience of a creature is paid once and whole, however it
\* is wounded and healed, by whom it is killed, and whatever place it is born in.
THEOREM CombatIsSound == Spec => []CombatSound
<1>1. IInv => CombatSound
  <2> SUFFICES ASSUME IInv PROVE CombatSound
    OBVIOUS
  <2>1. /\ \A n \in Npc : Body(npc[n]) /\ npc[n] \in NpcType
        /\ user \in [User -> UserType] /\ short = 0 /\ Now.npc = npc
    BY NowIs, NowOf
  <2>2. TypeOK
    BY <2>1, NowOf DEF TypeOK, Body
  <2>3. ExpAccounted
    BY <2>1 DEF ExpAccounted, Active, Body
  <2> QED BY <2>2, <2>3 DEF CombatSound
<1> QED BY <1>1, CombatInvariant, PTL

\* A life ends once: in whatever order creatures strike and cast in one beat, users
\* fight and pets are called back, no handler reaches UserDie with a dead user.
THEOREM UsersDieOnce == Spec => []DiesOnce
<1>1. IInv => DiesOnce
  BY NowOf DEF DiesOnce
<1> QED BY <1>1, CombatInvariant, PTL
===============================================================================
