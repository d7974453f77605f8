--------------------------------- MODULE World ---------------------------------
(***************************************************************************)
(* Users, NPCs and pets on the map: Modulo_UsUaRiOs.cpp (characters,       *)
(* movement, warps, pets), ModAreas.cpp, MODULO_NPCs.cpp, DoDomar of       *)
(* Trabajo.cpp and HechizoInvocacion of modHechizos.cpp.                   *)
(*                                                                         *)
(* A user enters as ConnectUser of the original lets it; nothing in the    *)
(* C++ code takes it out of the map again.  Where a user is warped         *)
(* and what an NPC's turn chooses are inputs.  What the killer of an NPC   *)
(* gains is not modelled here, nor are ownership and targets: see Combat.  *)
(***************************************************************************)
EXTENDS Npcs

CONSTANTS
  Pk,           \* the maps where pets may be
  Statuses,     \* the users' statuses at the start: [Muerto, AdminInvisible]
  Births,       \* the NPCs of the maps: records [kind, orig]
  Starts,       \* where users enter
  Warps,        \* where they are warped
  Domables,     \* the kinds that can be tamed
  Invocables,   \* the kinds the spells of invocation call
  MaxPets       \* a bound on NroMascotas, which CallPet raises without limit

ASSUME WorldAssumption ==
  /\ Pk \subseteq Maps /\ Starts \subseteq Tile /\ Warps \subseteq Tile
  /\ \A b \in Births : b.kind \in Kinds /\ b.orig \in Tile /\ Around(b.orig) \subseteq Tile
  /\ Statuses \subseteq [User -> [Muerto : BOOLEAN, AdminInvisible : BOOLEAN]]
  /\ Domables \subseteq Kinds /\ Invocables \subseteq Kinds
  /\ MaxPets \in Nat /\ MaxPets >= MAXMASCOTAS

VARIABLES
  user,       \* UserList: where each user is, its character and its pets
  npc,        \* Npclist
  CharList,
  tileUser, tileNpc,   \* UserIndex and NpcIndex of MapData
  group,      \* ConnGroups
  NumUsers,   \* of MapInfoList
  LastNPC,
  pushed      \* an NPC has stepped where a tile names a user; the code does not keep it

vars == <<user, npc, CharList, tileUser, tileNpc, group, NumUsers, LastNPC, pushed>>

world == [user |-> user, npc |-> npc, CharList |-> CharList, tileUser |-> tileUser,
          tileNpc |-> tileNpc, group |-> group, NumUsers |-> NumUsers, LastNPC |-> LastNPC,
          pushed |-> pushed]

Become(s) ==
  /\ user' = s.user /\ npc' = s.npc /\ CharList' = s.CharList
  /\ tileUser' = s.tileUser /\ tileNpc' = s.tileNpc
  /\ group' = s.group /\ NumUsers' = s.NumUsers
  /\ LastNPC' = s.LastNPC /\ pushed' = s.pushed

Pets == 1..MAXMASCOTAS

\* MascotasIndex and MascotasType have an entry 0, which FreeMascotaIndex may name.
OutUser(st) ==
  [in |-> FALSE, Pos |-> NoPos, CharIndex |-> 0, Area |-> NoArea, Muerto |-> st.Muerto,
   AdminInvisible |-> st.AdminInvisible, NroMascotas |-> 0,
   MascotasIndex |-> [i \in 0..MAXMASCOTAS |-> 0],
   MascotasType |-> [i \in 0..MAXMASCOTAS |-> 0]]

Init ==
  /\ user \in {[u \in User |-> OutUser(st[u])] : st \in Statuses}
  /\ npc = [n \in Npc |-> NoNpc]
  /\ CharList = [c \in 1..MAXCHARS |-> 0]
  /\ tileUser = [c \in Cells |-> 0] /\ tileNpc = [c \in Cells |-> 0]
  /\ group = [m \in Maps |-> [u \in User |-> 0]]
  /\ NumUsers = [m \in Maps |-> 0]
  /\ LastNPC = 0 /\ pushed = FALSE

-------------------------------------------------------------------------------
(* The characters of users *)

AgregarUser(s, u, m) ==
  [s EXCEPT !.group = AgregarEntry(@, u, m),
            !.user[u].Area = IF m \in Maps THEN Agregar(@, s.user[u].Pos) ELSE @]

QuitarUser(s, u, m) == [s EXCEPT !.group = QuitarEntry(@, u, m)]

\* (Mutant: the tile is left as it is.)
StayOnTile(tiles, u, p) == tiles

\* The tile of u at p, which is cleared only while it names u.
LeaveTile(tiles, u, p) ==
  IF InMapBounds(p) /\ tiles[UserCell(p)] = u THEN [tiles EXCEPT ![UserCell(p)] = 0] ELSE tiles

EraseUserChar(s, u) ==
  QuitarUser([s EXCEPT !.CharList = ForgetChar(@, s.user[u].CharIndex),
                       !.tileUser = LeaveTile(@, u, s.user[u].Pos),
                       !.user[u].CharIndex = 0], u, s.user[u].Pos.map)

\* The first free index of CharList: 0 when there is none.
UserCharIndex(s) == Lowest({c \in 1..MAXCHARS : s.CharList[c] = 0}, 0)

\* MakeUserChar with to_map: the tile is the user's whoever was on it.
MakeUserChar(s, u, p) ==
  LET c == UserCharIndex(s)
      named == IF s.user[u].CharIndex # 0 \/ c = 0 THEN s
               ELSE [s EXCEPT !.user[u].CharIndex = c, !.CharList[c] = u]
  IN  IF ~InMapBounds(p) THEN s
      ELSE AgregarUser([named EXCEPT !.tileUser[UserCell(p)] = u], u, s.user[u].Pos.map)

\* The count of a map never goes below 0.
CountIn(n) == n + 1
CountOut(n) == IF n > 0 THEN n - 1 ELSE 0

-------------------------------------------------------------------------------
(* Pets *)

\* The lowest place of a pet without a kind; 0 when there is none.
FreeMascotaIndex(me) == Lowest({i \in Pets : me.MascotasType[i] = 0}, 0)

\* What WarpMascotas does to place i, given the count of pets so far.
WarpPlace(s, u, i) ==
  LET n == s.user[u].MascotasIndex[i]
      here == s.user[u].Pos
      canWarp == here.map \in Pk
      summoned == n > 0 /\ s.npc[n].Invocado
      kind == IF summoned THEN 0 ELSE s.user[u].MascotasType[i]
      left == IF n = 0 THEN s
              ELSE IF summoned THEN [QuitarNPC(s, n) EXCEPT !.user[u].MascotasIndex[i] = 0,
                                                            !.user[u].NroMascotas = @ - 1]
              ELSE QuitarNPC(s, n)
      born == SpawnNpc(left, kind, here, n = 0)
      new == born.npc
  IN  IF kind = 0 \/ ~canWarp THEN left
      ELSE IF new = 0 THEN born.world
      ELSE [born.world EXCEPT !.user[u].MascotasIndex[i] = new, !.npc[new].MaestroUser = u,
                              !.npc[new].Invocado = FALSE]

WarpMascotas(s, u) ==
  LET after[i \in 0..MAXMASCOTAS] == IF i = 0 THEN s ELSE WarpPlace(after[i - 1], u, i)
  IN  after[MAXMASCOTAS]

\* The farthest of the pets that were not summoned; 0 when there is none.
FarthestPet(s, u) ==
  LET abs(x) == IF x < 0 THEN 0 - x ELSE x
      Dist(i) == LET p == s.npc[s.user[u].MascotasIndex[i]].Pos
                 IN  abs(s.user[u].Pos.x - p.x) + abs(s.user[u].Pos.y - p.y)
      tame == {i \in Pets : s.user[u].MascotasIndex[i] > 0
                            /\ ~s.npc[s.user[u].MascotasIndex[i]].Invocado}
  IN  IF s.user[u].NroMascotas = 0 THEN 0
      ELSE Lowest({i \in tame : \A j \in tame : Dist(j) <= Dist(i)}, 0)

\* The pet is removed and born again at the target, and counted once more.
WarpMascota(s, u, i, target) ==
  LET n == s.user[u].MascotasIndex[i]
      counted == [(IF n > 0 THEN QuitarNPC(s, n) ELSE s) EXCEPT !.user[u].NroMascotas = @ + 1]
      born == SpawnNpc(counted, s.user[u].MascotasType[i], target, FALSE)
  IN  IF born.npc = 0 THEN born.world
      ELSE [born.world EXCEPT !.user[u].MascotasIndex[i] = born.npc,
                              !.npc[born.npc].MaestroUser = u]

-------------------------------------------------------------------------------
(* Users *)

LegalUserPos(s, p) ==
  InMapBounds(p) /\ UserCell(p) \notin Blocked
    /\ s.tileUser[UserCell(p)] = 0 /\ s.tileNpc[UserCell(p)] = 0

\* ConnectUser of the original: on the user's own tile or one beside it.  When all
\* are taken it closes the user or treads on the NPC that is there, which is left out.
Enter(u, p) ==
  /\ ~user[u].in /\ LegalUserPos(world, p)
  /\ Become(MakeUserChar([world EXCEPT !.user[u].in = TRUE, !.user[u].Pos = p,
                                       !.NumUsers[p.map] = CountIn(@)], u, p))

\* WarpUserChar: the first AgregarUser comes before the position changes.
WarpUserChar(s, u, p) ==
  LET old == s.user[u].Pos.map
      erased == EraseUserChar(s, u)
      counted == IF old = p.map THEN erased
                 ELSE AgregarUser(QuitarUser(
                        [erased EXCEPT !.NumUsers[p.map] = CountIn(@),
                                       !.NumUsers[old] = CountOut(@)], u, old), u, p.map)
  IN  WarpMascotas(MakeUserChar([counted EXCEPT !.user[u].Pos = p], u, p), u)

\* The callers look for a legal tile first, or repeat the user's own position.
Warp(u, p) ==
  /\ user[u].in
  /\ LegalUserPos(world, p) \/ user[u].Pos = p
  /\ Become(WarpUserChar(world, u, p))

MoveToLegalPos(s, p) ==
  /\ InMapBounds(p)
  /\ UserCell(p) \notin Blocked /\ s.tileNpc[UserCell(p)] = 0
  /\ LET v == s.tileUser[UserCell(p)]
     IN  v = 0 \/ s.user[v].Muerto \/ s.user[v].AdminInvisible

\* (Mutant: the area information of the one that is moved is not updated.)
SwapWithoutArea(s, u, v, heading) ==
  LET p == s.user[u].Pos
      left == LeaveTile(s.tileUser, v, s.user[v].Pos)
  IN  [s EXCEPT !.tileUser = [left EXCEPT ![UserCell(p)] = v], !.user[v].Pos = p]

\* v, on the tile u steps on, gets the tile u leaves.
Swap(s, u, v, heading) ==
  LET p == s.user[u].Pos
      left == LeaveTile(s.tileUser, v, s.user[v].Pos)
  IN  [s EXCEPT !.tileUser = [left EXCEPT ![UserCell(p)] = v], !.user[v].Pos = p,
                !.user[v].Area = CheckUpdateNeeded(@, p, InvertHeading(heading))]

MoveUserChar(s, u, heading) ==
  LET from == s.user[u].Pos
      to == Step(from, heading)
      v == s.tileUser[UserCell(to)]
      swapped == IF s.NumUsers[from.map] > 1 /\ v # 0 /\ ~s.user[u].AdminInvisible
                 THEN Swap(s, u, v, heading) ELSE s
      stays == s.user[u].AdminInvisible /\ v # 0
  IN  IF ~MoveToLegalPos(s, to) \/ stays THEN s
      ELSE [swapped EXCEPT
              !.tileUser = [LeaveTile(@, u, from) EXCEPT ![UserCell(to)] = u],
              !.user[u].Pos = to,
              !.user[u].Area = CheckUpdateNeeded(@, to, heading)]

Walk(u, heading) ==
  /\ user[u].in
  /\ Become(MoveUserChar(world, u, heading))

-------------------------------------------------------------------------------
(* NPCs and pets *)

\* The NPCs of a map, when the server starts.
Birth(b) ==
  /\ \A u \in User : ~user[u].in
  /\ \A n \in Npc : npc[n].Orig # b.orig
  /\ \E s \in CrearNPC(world, b.kind, b.orig.map, b.orig) : Become(s)

NpcMoves(n, heading) ==
  /\ npc[n].NPCActive
  /\ Become(MoveNPCChar(world, n, heading))

\* MuereNpc: killed, or at the end of its time when it was summoned.
NpcDies(n) ==
  /\ npc[n].NPCActive
  /\ \E s \in IF npc[n].MaestroUser = 0 THEN ReSpawnNpc(QuitarNPC(world, n), npc[n])
              ELSE {QuitarNPC(world, n)} : Become(s)

\* The handlers of these commands refuse the dead.
CanAct(u) == user[u].in /\ ~user[u].Muerto

\* (Mutant: what was tamed stays wherever it is.)
Anywhere(u) == TRUE

CanStay(u) == user[u].Pos.map \in Pk

\* DoDomar, when the roll and the skill suffice.
DoDomar(u, n) ==
  LET me == user[u]
      i == FreeMascotaIndex(me)
      tamed == [world EXCEPT !.user[u].NroMascotas = @ + 1, !.user[u].MascotasIndex[i] = n,
                             !.user[u].MascotasType[i] = npc[n].Numero,
                             !.npc[n].MaestroUser = u]
  IN  /\ CanAct(u) /\ npc[n].NPCActive /\ npc[n].Numero \in Domables
      /\ npc[n].Pos.map = me.Pos.map
      /\ me.NroMascotas < MAXMASCOTAS /\ npc[n].MaestroUser = 0
      /\ Cardinality({j \in Pets : me.MascotasType[j] = npc[n].Numero}) <= 1
      /\ Become(IF CanStay(u) THEN tamed ELSE QuitarNPC(tamed, n))

\* HechizoInvocacion of one creature.
Summon(u, kind, target) ==
  LET me == user[u]
      born == SpawnNpc(world, kind, target, FALSE)
      n == born.npc
      i == IF FreeMascotaIndex(me) > 0 THEN FreeMascotaIndex(me)
           ELSE Lowest({j \in Pets : me.MascotasIndex[j] = 0}, 0)
      taken == [born.world EXCEPT !.user[u].NroMascotas = @ + 1, !.npc[n].MaestroUser = u,
                                  !.npc[n].Invocado = TRUE]
  IN  /\ CanAct(u) /\ me.Pos.map \in Pk /\ target.map = me.Pos.map
      /\ me.NroMascotas < MAXMASCOTAS
      /\ Become(IF n = 0 THEN born.world
                ELSE IF i = 0 THEN taken
                ELSE [taken EXCEPT !.user[u].MascotasIndex[i] = n,
                                   !.user[u].MascotasType[i] = kind])

\* HechizoInvocacion of a spell that calls a pet (Warp=1).
CallPet(u, target) ==
  LET i == FarthestPet(world, u)
  IN  /\ CanAct(u) /\ user[u].Pos.map \in Pk /\ target.map = user[u].Pos.map
      /\ i > 0 /\ user[u].NroMascotas < MaxPets
      /\ Become(WarpMascota(world, u, i, target))

\* The command that releases a pet, by QuitarPet.
Release(u, n) ==
  LET i == Lowest({j \in Pets : user[u].MascotasIndex[j] = n}, 0)
  IN  /\ CanAct(u) /\ npc[n].NPCActive /\ npc[n].MaestroUser = u
      /\ npc[n].Pos.map = user[u].Pos.map /\ i > 0
      /\ Become(QuitarNPC([world EXCEPT !.user[u].NroMascotas = IF @ > 0 THEN @ - 1 ELSE @,
                                        !.user[u].MascotasIndex[i] = 0,
                                        !.user[u].MascotasType[i] = 0], n))

Next ==
  \/ \E u \in User :
       \/ \E p \in Starts : Enter(u, p)
       \/ \E p \in Warps : Warp(u, p)
       \/ \E h \in Headings : Walk(u, h)
       \/ \E n \in Npc : DoDomar(u, n) \/ Release(u, n)
       \/ \E p \in Warps : CallPet(u, p) \/ \E k \in Invocables : Summon(u, k, p)
  \/ \E n \in Npc : NpcDies(n) \/ \E h \in Headings : NpcMoves(n, h)
  \/ \E b \in Births : Birth(b)

Spec == Init /\ [][Next]_vars

-------------------------------------------------------------------------------
(* Properties *)

TypeOK ==
  /\ CharList \in [1..MAXCHARS -> 0..Max({MaxUsers, MAXNPCS})]
  /\ tileUser \in [Cells -> 0..MaxUsers] /\ tileNpc \in [Cells -> 0..MAXNPCS]
  /\ group \in [Maps -> [User -> Nat]] /\ NumUsers \in [Maps -> Nat]
  /\ LastNPC \in 0..MAXNPCS /\ pushed \in BOOLEAN
  /\ \A u \in User :
       /\ user[u].in => user[u].Pos \in Tile
       /\ user[u].CharIndex \in 0..MAXCHARS
       /\ user[u].MascotasIndex \in [0..MAXMASCOTAS -> 0..MAXNPCS]
       /\ user[u].MascotasType \in [0..MAXMASCOTAS -> Kinds \cup {0}]
  /\ \A n \in Npc : npc[n].CharIndex \in 0..(MAXCHARS + 1)

\* A character index belongs to one creature, user or NPC, and CharList holds the
\* index of that creature; an index nobody has is free to be given (MakeUserChar,
\* MakeNPCChar, EraseUserChar, EraseNPCChar share the list through warps, births,
\* deaths and pets that are removed twice).
CharsAgree ==
  \A c \in 1..MAXCHARS :
    LET us == {u \in User : user[u].CharIndex = c}
        ns == {n \in Npc : npc[n].CharIndex = c}
    IN  /\ Cardinality(us) + Cardinality(ns) <= 1
        /\ us \cup ns = IF CharList[c] = 0 THEN {} ELSE {CharList[c]}

\* Whoever is on a map is in the group of that map once, in no other group, and the
\* maps count the users that are on them (WarpUserChar, EraseUserChar and
\* MakeUserChar add and remove the same user several times in one warp).
MapsKnowTheirUsers ==
  \A m \in Maps :
    /\ \A u \in User : group[m][u] = IF user[u].in /\ user[u].Pos.map = m THEN 1 ELSE 0
    /\ NumUsers[m] = Cardinality({u \in User : user[u].in /\ user[u].Pos.map = m})

\* LastNPC is the highest NPC in use, so the loops up to it miss none, even after a
\* pet was removed twice (OpenNPC, QuitarNPC).
LastNPCExact == LastNPC = Max({0} \cup {n \in Npc : npc[n].NPCActive})

\* No ghosts: a tile that names an NPC is the one where that NPC is (MakeNPCChar,
\* EraseNPCChar, MoveNPCChar), and a tile that names a user the one where that user is
\* (MoveUserChar and its exchanges, WarpUserChar).
NpcsAreThere ==
  \A c \in Cells :
    tileNpc[c] # 0 => npc[tileNpc[c]].NPCActive /\ c = WorldCell(npc[tileNpc[c]].Pos)
UsersAreThere == \A c \in Cells : tileUser[c] # 0 => c = UserCell(user[tileUser[c]].Pos)

\* What the areas know of a character is what its position says, though steps move
\* the window by one stripe and never compute it: those that are at the edge of two
\* areas see and are seen as they should (CheckUpdateNeededUser, AgregarUser,
\* CheckUpdateNeededNpc; the dead whose place a living user takes included).
NpcAreasMatch == \A n \in Npc : npc[n].NPCActive => npc[n].Area = AreaOf(npc[n].Pos)
UserAreasMatch == \A u \in User : user[u].in => user[u].Area = AreaOf(user[u].Pos)

\* Characters, maps and areas, which every step, warp, birth and death writes one
\* after the other, say the same of who is where; of users until an NPC pushes one,
\* which MoveNPCChar takes from a cell that UserCell did not give.
WorldAgrees ==
  /\ TypeOK /\ CharsAgree /\ NpcAreasMatch
  /\ pushed \/ (MapsKnowTheirUsers /\ UserAreasMatch)

\* So do the table of NPCs and the tiles.
PlacesAgree ==
  /\ LastNPCExact /\ NpcsAreThere
  /\ pushed \/ UsersAreThere

\* No NPC with a master is on a map where pets may not be, whichever way it came to
\* its master (DoDomar, HechizoInvocacion, WarpMascota, WarpMascotas).
PetsOnlyInPk == \A n \in Npc : npc[n].MaestroUser # 0 => npc[n].Pos.map \in Pk

\* The pets a user is said to have are its own: MODULO_NPCs.cpp is to unlink the
\* master of an NPC that is removed.
PetsAreOwn ==
  \A u \in User, i \in Pets :
    LET n == user[u].MascotasIndex[i] IN n > 0 => npc[n].NPCActive /\ npc[n].MaestroUser = u

\* Nobody walks onto the tile of an NPC: MoveToLegalPos refuses the tiles MapData says
\* an NPC is on.
WalksOnNobody ==
  [][\A u \in User, h \in Headings, n \in Npc :
       Walk(u, h) /\ user'[u].Pos # user[u].Pos
         => ~(npc[n].NPCActive /\ npc[n].Pos = user'[u].Pos)]_vars

================================================================================
