------------------------------ MODULE MCInventory ------------------------------
EXTENDS Inventory, TLC

CONSTANTS Ana, Beto

MCStands == [u \in {Ana, Beto} |-> IF u = Ana THEN 1 ELSE 2]

None == [o \in 1..8 |-> 0]

\* An object of a type with nothing special about it.
Plain(type) ==
  [OBJType |-> type, NoSeCae |-> FALSE, Newbie |-> FALSE, Real |-> FALSE, Caos |-> FALSE,
   ClaseProhibida |-> {}, Generos |-> {"Hombre", "Mujer"}, RazaEnana |-> FALSE,
   RazaDrow |-> FALSE, DosManos |-> FALSE, MochilaSlots |-> 0, Agarrable |-> FALSE,
   Crucial |-> FALSE, Valor |-> 1, Tool |-> FALSE, TipoPocion |-> 0, Mat |-> None,
   Upgrade |-> 0, OrePerIngot |-> 0, Ingot |-> 0, Melted |-> {}]

\* What the sword gives back: nothing, an ingot, or an ingot and ore, which stands for a
\* second metal.
Metal == [None EXCEPT ![5] = 1]

\* 1 sword, 2 and 3 backpacks, 4 ore, 5 ingot, 6 gold, 7 potion, 8 boat
MCObjData ==
  <<[Plain("otWeapon") EXCEPT !.Tool = TRUE, !.Upgrade = 2, !.Mat = [None EXCEPT ![5] = 1],
                              !.Melted = {None, Metal, [Metal EXCEPT ![4] = 1]}],
    [Plain("otMochilas") EXCEPT !.MochilaSlots = 1],
    [Plain("otMochilas") EXCEPT !.MochilaSlots = 1, !.Mat = [None EXCEPT ![5] = 1]],
    [Plain("otMinerales") EXCEPT !.OrePerIngot = 1, !.Ingot = 5],
    [Plain("otOtros") EXCEPT !.Newbie = TRUE],
    Plain("otGuita"),
    [Plain("otPociones") EXCEPT !.TipoPocion = 6, !.Crucial = TRUE],
    Plain("otBarcos")>>

\* One boat, or two of the others, beside the potions.
MCWeight == [o \in 0..8 |-> CASE o = 0 -> 0 [] o = 7 -> 1 [] o = 8 -> 4 [] OTHER -> 2]

MCMaxLoad == [S \in SUBSET {Ana, Beto} |-> IF S = {Ana} THEN 5 ELSE 3]

MCTrait ==
  [u \in {Ana, Beto} |->
     [UserPlayer |-> TRUE, Consejero |-> FALSE, clase |-> "Warrior", Genero |-> "Hombre",
      criminal |-> FALSE, ArmadaReal |-> FALSE, FuerzasCaos |-> FALSE, raza |-> "Humano",
      newbie |-> u = Beto, Comerciar |-> 0]]

MCPlantilla == <<[ObjIndex |-> 7, Amount |-> 1]>>
================================================================================
