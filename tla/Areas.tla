--------------------------------- MODULE Areas ---------------------------------
(***************************************************************************)
(* The map and ModAreas.cpp: the cells of MapData a tile is found at, the  *)
(* area information of a character and the groups of the users of a map.   *)
(*                                                                         *)
(* MapData is one vector and two formulas address it.  The code that moves *)
(* users (Modulo_UsUaRiOs.cpp) finds a tile at UserCell, everything else   *)
(* at WorldCell.  A mask of stripes is the set of its bits, and a group is *)
(* the number of entries each user has in it: their order decides nothing. *)
(* What the sweep of CheckUpdateNeededUser sends to the clients is left    *)
(* out; it changes no state of the server.                                 *)
(***************************************************************************)
EXTENDS Integers, FiniteSets, FiniteSetsExt

CONSTANTS
  Side,        \* the tiles of a side of a map, 100
  Stripe,      \* the tiles a stripe is wide, 9
  Maps,        \* the maps that have users or NPCs
  NumMaps,
  MaxUsers, MAXNPCS, MAXCHARS, MAXMASCOTAS

ASSUME AreasAssumption ==
  /\ Side \in Nat \ {0} /\ Stripe \in Nat \ {0} /\ NumMaps \in Nat
  /\ Maps \subseteq 1..NumMaps
  /\ MaxUsers \in Nat \ {0} /\ MAXNPCS \in Nat \ {0} /\ MAXCHARS \in Nat \ {0}
  /\ MAXMASCOTAS \in Nat \ {0}

User == 1..MaxUsers
Npc == 1..MAXNPCS

At(m, x, y) == [map |-> m, x |-> x, y |-> y]
Tile == [map : Maps, x : 1..Side, y : 1..Side]
NoPos == At(0, 0, 0)

InMapBounds(p) == p \in Tile

\* The two formulas, with the side of a map where the code has 100.
UserCell(p) == (p.map - 1) * Side * Side + (p.y - 1) * Side + (p.x - 1)
WorldCell(p) == (p.map * (Side + 1) + p.x) * (Side + 1) + p.y

Cells == {UserCell(p) : p \in Tile} \cup {WorldCell(p) : p \in Tile}

Headings == {"NORTH", "EAST", "SOUTH", "WEST"}

Step(p, heading) ==
  CASE heading = "NORTH" -> [p EXCEPT !.y = @ - 1]
    [] heading = "SOUTH" -> [p EXCEPT !.y = @ + 1]
    [] heading = "EAST"  -> [p EXCEPT !.x = @ + 1]
    [] heading = "WEST"  -> [p EXCEPT !.x = @ - 1]

InvertHeading(heading) ==
  CASE heading = "NORTH" -> "SOUTH" [] heading = "SOUTH" -> "NORTH"
    [] heading = "EAST"  -> "WEST"  [] heading = "WEST"  -> "EAST"

-------------------------------------------------------------------------------
(* Areas *)

Franja(c) == c \div Stripe

GetAreaID(p) == IF InMapBounds(p) THEN (Franja(p.x) + 1) * (Franja(p.y) + 1) ELSE 0

GetAreaRecive(f) == (f - 1 .. f + 1) \cap 0..11

\* The corner of the window of three stripes by three around p.
Corner(c) == (Franja(c) - 1) * Stripe

\* A step moves the window by one stripe, and USER_NUEVO computes it.
Window(area, p, head) ==
  CASE head = "NORTH" -> [area EXCEPT !.MinY = @ - Stripe]
    [] head = "SOUTH" -> [area EXCEPT !.MinY = @ + Stripe]
    [] head = "WEST"  -> [area EXCEPT !.MinX = @ - Stripe]
    [] head = "EAST"  -> [area EXCEPT !.MinX = @ + Stripe]
    [] head = "USER_NUEVO" -> [area EXCEPT !.MinX = Corner(p.x), !.MinY = Corner(p.y)]

\* CheckUpdateNeededUser and CheckUpdateNeededNpc: the same arithmetic.
CheckUpdateNeeded(area, p, head) ==
  IF area.AreaID = GetAreaID(p) THEN area
  ELSE [Window(area, p, head) EXCEPT
          !.AreaID = GetAreaID(p),
          !.ReciveX = GetAreaRecive(Franja(p.x)), !.PerteneceX = {Franja(p.x)},
          !.ReciveY = GetAreaRecive(Franja(p.y)), !.PerteneceY = {Franja(p.y)}]

NoArea == [AreaID |-> 0, MinX |-> 0, MinY |-> 0, ReciveX |-> {}, ReciveY |-> {},
           PerteneceX |-> {}, PerteneceY |-> {}]

\* AgregarUser and AgregarNpc: everything but the window is reset and computed.
Agregar(area, p) ==
  CheckUpdateNeeded([NoArea EXCEPT !.MinX = area.MinX, !.MinY = area.MinY], p, "USER_NUEVO")

\* What the area information of a character at p is meant to say.
AreaOf(p) ==
  [AreaID |-> GetAreaID(p), MinX |-> (Franja(p.x) - 1) * Stripe,
   MinY |-> (Franja(p.y) - 1) * Stripe,
   ReciveX |-> {f \in 0..11 : f - Franja(p.x) \in {-1, 0, 1}}, PerteneceX |-> {Franja(p.x)},
   ReciveY |-> {f \in 0..11 : f - Franja(p.y) \in {-1, 0, 1}}, PerteneceY |-> {Franja(p.y)}]

-------------------------------------------------------------------------------
(* The groups of the users of a map: group[m][u] entries of u *)

EsNuevo(group, u, m) == group[m][u] = 0

AgregarEntry(group, u, m) ==
  IF m \in Maps /\ EsNuevo(group, u, m) THEN [group EXCEPT ![m][u] = @ + 1] ELSE group

QuitarEntry(group, u, m) ==
  IF m \in Maps /\ group[m][u] > 0 THEN [group EXCEPT ![m][u] = @ - 1] ELSE group

================================================================================
