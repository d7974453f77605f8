---------------------------------- MODULE Npcs ----------------------------------
(***************************************************************************)
(* The table of NPCs of MODULO_NPCs.cpp and the characters of NPCs on the  *)
(* map.  Every operator takes a world, the record of the state that World  *)
(* keeps in variables, and gives the one after the call; the callbacks of  *)
(* the code (AgregarNpc, CheckUpdateNeededNpc, LegalPosNPC...) are the     *)
(* functions they name.  LegalPos, LegalPosNPC, ClosestLegalPos and        *)
(* HayPCarea have no C++ code: they follow GameLogic.bas and TCP.bas of    *)
(* the original.                                                           *)
(*                                                                         *)
(* A kind is an entry of NPCs.dat.  Its combat, its goods and what it says *)
(* are left out; a tile either bears characters or is Blocked (water is    *)
(* not modelled), and the looks and headings of characters are left out,   *)
(* with the counters NumNPCs, NumChars and LastChar, which decide nothing. *)
(*                                                                         *)
(* CharList has MAXCHARS entries: EraseNPCChar of the NPC that got index   *)
(* MAXCHARS + 1 writes the entry after the last, which is modelled as a    *)
(* write that no other field sees.                                         *)
(***************************************************************************)
EXTENDS Areas

CONSTANTS
  Kinds,        \* the numbers of the NPCs of NPCs.dat
  Respawns,     \* the kinds that are born again (ReSpawn=0)
  Blocked,      \* the cells that bear no character
  NoSpawn,      \* the cells with a trigger that forbids spawns
  Reach         \* how far from its origin an NPC is born, 3

ASSUME NpcsAssumption ==
  /\ Kinds \subseteq Nat \ {0} /\ Respawns \subseteq Kinds
  /\ Blocked \subseteq Cells /\ NoSpawn \subseteq Cells /\ Reach \in Nat

NoNpc == [NPCActive |-> FALSE, Numero |-> 0, Pos |-> NoPos, Orig |-> NoPos,
          CharIndex |-> 0, Area |-> NoArea, MaestroUser |-> 0, Invocado |-> FALSE,
          Respawn |-> FALSE]

Lowest(m, none) == IF m = {} THEN none ELSE Min(m)

\* The first free index of CharList: MAXCHARS + 1 when there is none.
NextOpenCharIndex(s) == Lowest({c \in 1..MAXCHARS : s.CharList[c] = 0}, MAXCHARS + 1)

-------------------------------------------------------------------------------
(* Where an NPC may stand *)

LegalPos(s, p) ==
  /\ InMapBounds(p)
  /\ WorldCell(p) \notin Blocked
  /\ s.tileUser[WorldCell(p)] = 0 /\ s.tileNpc[WorldCell(p)] = 0

LegalPosNPC(s, p) ==
  /\ InMapBounds(p)
  /\ WorldCell(p) \notin Blocked
  /\ s.tileNpc[WorldCell(p)] = 0
  /\ LET u == s.tileUser[WorldCell(p)]
     IN  u = 0 \/ s.user[u].Muerto \/ s.user[u].AdminInvisible

\* The nearest legal tile, ring by ring up to the twelfth, row by row within a ring.
Ring(p, q) == Max({p.x - q.x, q.x - p.x, p.y - q.y, q.y - p.y})
Before(p, q, r) ==
  \/ Ring(p, q) < Ring(p, r)
  \/ Ring(p, q) = Ring(p, r) /\ (q.y < r.y \/ (q.y = r.y /\ q.x <= r.x))

ClosestLegalPos(s, p) ==
  LET legal == {q \in Tile : q.map = p.map /\ Ring(p, q) <= 12 /\ LegalPos(s, q)}
  IN  IF legal = {} THEN NoPos ELSE CHOOSE q \in legal : \A r \in legal : Before(p, q, r)

TestSpawnTrigger(s, p) == LegalPos(s, p) /\ WorldCell(p) \notin NoSpawn

\* Whether a user sees the tile: the maps of an instance are narrower than a screen.
HayPCarea(s, p) == \E q \in Tile : q.map = p.map /\ s.tileUser[WorldCell(q)] # 0

-------------------------------------------------------------------------------
(* The characters of NPCs *)

MakeNPCChar(s, n, p) ==
  LET c == NextOpenCharIndex(s)
      \* an NPC without a character gets the first free index
      Drawn == IF s.npc[n].CharIndex # 0 THEN s
               ELSE IF c > MAXCHARS THEN [s EXCEPT !.npc[n].CharIndex = c]
               ELSE [s EXCEPT !.npc[n].CharIndex = c, !.CharList[c] = n]
      Placed == IF InMapBounds(p) THEN [Drawn EXCEPT !.tileNpc[WorldCell(p)] = n] ELSE Drawn
  IN  [Placed EXCEPT !.npc[n].Area = Agregar(@, Placed.npc[n].Pos)]

ForgetChar(list, c) == IF c \in DOMAIN list THEN [list EXCEPT ![c] = 0] ELSE list

EraseNPCChar(s, n) ==
  [s EXCEPT !.CharList = ForgetChar(@, s.npc[n].CharIndex),
            !.tileNpc = IF InMapBounds(s.npc[n].Pos)
                        THEN [@ EXCEPT ![WorldCell(s.npc[n].Pos)] = 0] ELSE @,
            !.npc[n].CharIndex = 0]

-------------------------------------------------------------------------------
(* The table *)

NextOpenNPC(s) == Lowest({n \in Npc : ~s.npc[n].NPCActive}, MAXNPCS + 1)

\* Opens the entry NextOpenNPC names, which is in the table.
OpenNPC(s, kind, respawn) ==
  LET n == NextOpenNPC(s)
  IN  [s EXCEPT !.npc[n] = [@ EXCEPT !.NPCActive = TRUE, !.Numero = kind,
                                     !.Respawn = respawn /\ kind \in Respawns],
                !.LastNPC = IF n > @ THEN n ELSE @]

\* The highest entry in use below the last.
LastActive(npc, last) ==
  LET active == {n \in 1..(last - 1) : npc[n].NPCActive}
  IN  IF active = {} THEN 0 ELSE Max(active)

\* The entry is emptied.  A removed NPC keeps the area information that AgregarNpc
\* resets before anybody reads it: here it is reset at once.
QuitarNPC(s, n) ==
  LET off == [s EXCEPT !.npc[n].NPCActive = FALSE]
      erased == IF InMapBounds(s.npc[n].Pos) THEN EraseNPCChar(off, n) ELSE off
      reset == [erased EXCEPT !.npc[n] = NoNpc]
  IN  [reset EXCEPT !.LastNPC = IF n = @ THEN LastActive(reset.npc, @) ELSE @]

-------------------------------------------------------------------------------
(* Births: the world after, and the entry that was opened or 0 *)

SpawnNpc(s, kind, p, respawn) ==
  LET n == NextOpenNPC(s)
      opened == OpenNPC(s, kind, respawn)
      q == ClosestLegalPos(opened, p)
  IN  IF n > MAXNPCS THEN [world |-> s, npc |-> 0]
      ELSE IF q = NoPos THEN [world |-> QuitarNPC(opened, n), npc |-> 0]
      ELSE [world |-> MakeNPCChar([opened EXCEPT !.npc[n].Pos = q], n, q), npc |-> n]

\* The tiles the random tries of CrearNPC may come to.
Around(p) == {At(p.map, x, y) : x \in (p.x - Reach)..(p.x + Reach), y \in (p.y - Reach)..(p.y + Reach)}

Hatches(s, p) == LegalPosNPC(s, p) /\ ~HayPCarea(s, p) /\ TestSpawnTrigger(s, p)

\* A try that succeeds; or the last of a hundred that failed, wherever it fell.
CrearPos(s, orig) == {p \in Around(orig) : Hatches(s, p) \/ (p.x # 0 /\ p.y # 0)}

\* CrearNPC of a kind that was given an origin, born at p of CrearPos.
CrearNPCAt(s, kind, orig, p) ==
  LET n == NextOpenNPC(s)
      opened == [OpenNPC(s, kind, TRUE) EXCEPT !.npc[n].Orig = orig, !.npc[n].Pos = p]
  IN  IF n > MAXNPCS THEN s ELSE MakeNPCChar(opened, n, p)

\* CrearNPC of one without an origin: near the middle of the map.
CrearNPCMiddle(s, kind, m) ==
  LET n == NextOpenNPC(s)
      opened == OpenNPC(s, kind, TRUE)
      q == ClosestLegalPos(opened, At(m, Side \div 2, Side \div 2))
  IN  IF n > MAXNPCS THEN s
      ELSE IF q = NoPos THEN QuitarNPC(opened, n)
      ELSE MakeNPCChar([opened EXCEPT !.npc[n].Pos = q], n, q)

\* The worlds CrearNPC may lead to.
CrearNPC(s, kind, m, orig) ==
  IF orig = NoPos THEN {CrearNPCMiddle(s, kind, m)}
  ELSE {CrearNPCAt(s, kind, orig, [p EXCEPT !.map = m]) : p \in CrearPos(s, orig)}

\* ReSpawnNpc of the copy that MuereNpc and NPCAI took before they removed it.
ReSpawnNpc(s, copy) ==
  IF copy.Respawn THEN CrearNPC(s, copy.Numero, copy.Pos.map, copy.Orig) ELSE {s}

-------------------------------------------------------------------------------
(* A step of an NPC *)

\* The user on the tile, which only a dead or an invisible one can be, is put on the
\* tile the NPC leaves; its area information stays as it was.
Displace(s, u, p) ==
  LET off == [s EXCEPT !.tileUser = IF InMapBounds(s.user[u].Pos)
                                    THEN [@ EXCEPT ![WorldCell(s.user[u].Pos)] = 0] ELSE @,
                       !.user[u].Pos = At(s.user[u].Pos.map, p.x, p.y),
                       !.pushed = TRUE]
  IN  [off EXCEPT !.tileUser[WorldCell(off.user[u].Pos)] = u]

MoveNPCChar(s, n, heading) ==
  LET from == s.npc[n].Pos
      to == Step(from, heading)
      u == s.tileUser[WorldCell(to)]
      cleared == IF u = 0 THEN s ELSE Displace(s, u, from)
      moved == [cleared EXCEPT !.tileNpc = [@ EXCEPT ![WorldCell(from)] = 0, ![WorldCell(to)] = n],
                               !.npc[n].Pos = to]
  IN  IF ~LegalPosNPC(s, to) THEN s
      ELSE [moved EXCEPT !.npc[n].Area = CheckUpdateNeeded(@, to, heading)]

================================================================================
