------------------------------- MODULE Inventory -------------------------------
(***************************************************************************)
(* What users do with objects and gold: InvUsuario.cpp, modBanco.cpp,      *)
(* Comercio.cpp, Modulo_InventANDobj.cpp and the crafts and thefts of      *)
(* Trabajo.cpp.  One merchant, one map, and users who stay on their tiles. *)
(*                                                                         *)
(* Dice, skills, energy and hunger decide whether a handler goes on: they  *)
(* are left open, and a handler that stops before it changes an inventory  *)
(* is a step that does not happen.                                         *)
(***************************************************************************)
EXTENDS Items, Sequences

CONSTANTS
  Users, Stands,       \* the users, and the tile each stands on
  NpcSlots,            \* MAX_INVENTORY_SLOTS of the merchant
  Plantilla,           \* the stock of the merchant in the data files
  InvReSpawn,          \* whether an empty merchant stays empty
  MAXORO, ProtectedGold, MaxTirarOro,
  iORO,                \* the object that is gold
  Gathered,            \* what working the land yields
  NpcDrops,            \* what creatures leave
  Hammer,              \* the tool an upgrade needs
  MaxBatch,            \* bound: items built in one cycle
  Weight, MaxLoad,     \* bound: weight of the units of all objects, by the users who have acted
  MaxPile,             \* bound: units of a pile on the floor, which may pass the limit
  MaxHeld              \* bound: units of a slot, which pass it when taken from such a pile

\* What the data files and the declarations of the code say, and amounts wide enough for the
\* bounds.
ASSUME InventoryAssumption ==
  /\ Users \subseteq DOMAIN Trait /\ Stands \in [Users -> Tiles]
  /\ NpcSlots \in Nat /\ Len(Plantilla) <= NpcSlots
  /\ Plantilla \in Seq([ObjIndex : Objects, Amount : Nat \ {0}])
  /\ MAXORO \in Nat /\ ProtectedGold \in Nat /\ MaxTirarOro \in Nat
  /\ iORO \in Objects /\ Gathered \subseteq Objects /\ NpcDrops \subseteq Objects
  /\ MaxPile \in Nat /\ MaxHeld \in Nat
  /\ MAX_INVENTORY_OBJS + MaxPile < IntRange \div 2
  /\ MaxHeld + MaxPile < IntRange \div 2 + MAX_INVENTORY_OBJS
  /\ \A o \in Objects :
       /\ ObjData[o].Valor \in Nat /\ ObjData[o].OrePerIngot \in Nat
       /\ ObjData[o].Melted \subseteq [Objects -> Nat]
       /\ ObjData[o].Mat \in [Objects -> Nat] /\ ObjData[o].Upgrade \in {0} \union Objects
       /\ Type(o) = "otMinerales" => ObjData[o].Ingot \in Objects
  /\ \A u \in Users : Trait[u].Comerciar \in Nat

VARIABLES
  user,    \* the fields of UserList that objects use
  floor,   \* ObjInfo of the tiles
  npc      \* Invent of the merchant

vars == <<user, floor, npc>>

NpcRecord ==
  [Object : [1..NpcSlots -> [ObjIndex : {0} \union Objects, Amount : Nat]], NroItems : Nat]

Filled(stock) ==
  [Object |-> [s \in 1..NpcSlots |-> IF s <= Len(stock) THEN stock[s] ELSE Nothing],
   NroItems |-> Len(stock)]

\* A user with no object yet.
InitUser(u) ==
  [Object |-> [s \in Slots |-> NoSlot], Eqp |-> [k \in EqTypes |-> NotEqp],
   CurrentInventorySlots |-> MAX_NORMAL_INVENTORY_SLOTS,
   Banco |-> [s \in BankSlots |-> Nothing], GLD |-> 0, Muerto |-> FALSE, Navegando |-> FALSE,
   Pos |-> Stands[u]]

-------------------------------------------------------------------------------
(* Units of an object in the world *)

\* What a user has of the objects; gold in the purse is gold.
Carried(u, w) ==
  UnitsIn(user[u].Object, MAX_INVENTORY_SLOTS, w)
    + UnitsIn(user[u].Banco, MAX_BANCOINVENTORY_SLOTS, w) + user[u].GLD * w[iORO]

\* Units of the objects in the world, as a weight counts them.
Units(w) ==
  MapThenSumSet(LAMBDA u : Carried(u, w), Users)
    + UnitsIn(floor, NumTiles, w) + UnitsIn(npc.Object, NpcSlots, w)

-------------------------------------------------------------------------------
(* Steps of one user on inventory and floor *)

Hand(u) == [u |-> u, me |-> user[u], floor |-> floor]

\* What a handler leaves in the user's record and on the floor.
Leaves(h) ==
  /\ user' = [user EXCEPT ![h.u] = h.me]
  /\ floor' = h.floor
  /\ UNCHANGED npc

Alive(u) == ~user[u].Muerto

\* HandleDrop: onto the tile the user stands on.  The guards on life and boat are those
\* of the packet handlers.
Drop(u, s, num) ==
  /\ Alive(u) /\ ~user[u].Navegando /\ user[u].Object[s].ObjIndex # 0
  /\ Leaves(DropObj(Hand(u), s, num, user[u].Pos))

\* GetObj: gold goes to the purse, anything else into a slot, all of it or none.
Get(u) ==
  LET there == floor[user[u].Pos]
      o == there.ObjIndex
      cleared == EraseObj(floor, user[u].Pos, there.Amount)
  IN /\ Alive(u) /\ o # 0 /\ ~ObjData[o].Agarrable
     /\ IF Type(o) = "otGuita"
        THEN Leaves([u |-> u, me |-> [user[u] EXCEPT !.GLD = @ + there.Amount], floor |-> cleared])
        ELSE /\ MeterSlot(user[u], o, there.Amount) # 0
             /\ Leaves([u |-> u, me |-> MeterItemEnInventario(user[u], o, there.Amount),
                        floor |-> cleared])

Equip(u, s) ==
  /\ Alive(u) /\ user[u].Object[s].ObjIndex # 0
  /\ Leaves(EquiparInvItem(Hand(u), s))

Usable(u, s) ==
  LET it == user[u].Object[s]
  IN /\ s \in Within(user[u]) /\ it.Amount > 0 /\ it.ObjIndex # 0
     /\ ItemNewbie(it.ObjIndex) => Trait[u].newbie

\* UseInvItem of what is worn; tools and minerals only ask for the place to use them at.
UseEquipable(u, s) ==
  /\ Usable(u, s)
  /\ LET o == user[u].Object[s].ObjIndex
     IN /\ Type(o) \in EqTypes \ {"otBarcos"} /\ ~ObjData[o].Tool
        /\ Leaves(EquiparInvItem(Hand(u), s))

\* UseInvItem of food, drink and potions; the sixth potion kills without UserDie.
UseConsumable(u, s) ==
  /\ Usable(u, s) /\ Alive(u)
  /\ LET o == user[u].Object[s].ObjIndex
         h == Hand(u)
         poisoned == Type(o) = "otPociones" /\ ObjData[o].TipoPocion = 6
     IN /\ Type(o) \in {"otUseOnce", "otBebidas", "otPociones", "otPergaminos"}
        /\ Leaves(QuitarUserInvItem([h EXCEPT !.me.Muerto = poisoned], s, 1))

\* UseInvItem of a boat: DoNavega, which does not mark the slot as worn.  (A pile of gold in
\* a slot could be used too, and nothing puts one there.)
UseBoat(u, s) ==
  LET o == user[u].Object[s].ObjIndex
  IN /\ Usable(u, s) /\ Type(o) = "otBarcos"
     /\ Leaves([Hand(u) EXCEPT !.me.Navegando = ~@,
                               !.me.Eqp["otBarcos"] = [ObjIndex |-> o, Slot |-> s]])

\* TirarOro: piles of gold as large as a tile takes, one after another; what is over
\* MaxTirarOro is never dropped and is lost once a pile was.
Piles(h, cantidad) ==
  Walked([h |-> h, left |-> cantidad], cantidad,
    [i \in 1..cantidad |-> [g \in [h : Hands, left : Nat] |->
      LET n == IF g.left > MAX_INVENTORY_OBJS /\ g.h.me.GLD > MAX_INVENTORY_OBJS
               THEN MAX_INVENTORY_OBJS ELSE g.left
          t == Tilelibre(g.h.floor, g.h.me.Pos, iORO, n)
      IN IF g.left = 0 THEN g
         ELSE [h |-> IF t = 0 THEN g.h
                     ELSE [g.h EXCEPT !.floor = MakeObj(@, t, iORO, n), !.me.GLD = @ - n],
               left |-> g.left - n]]]).h

TirarOro(h, cantidad) ==
  LET dropped == Piles(h, Lesser(cantidad, MaxTirarOro))
  IN IF dropped.me.GLD = h.me.GLD \/ cantidad <= MaxTirarOro THEN dropped
     ELSE [dropped EXCEPT !.me.GLD = @ - (cantidad - MaxTirarOro)]

DropGold(u, n) ==
  /\ Alive(u) /\ ~user[u].Navegando /\ n <= user[u].GLD
  /\ Leaves(TirarOro(Hand(u), n))

TirarTodo(h) ==
  LET bare == TirarTodosLosItems(h)
  IN IF h.me.Pos \in ZONAPELEA THEN h
     ELSE IF bare.me.GLD > ProtectedGold THEN TirarOro(bare, bare.me.GLD - ProtectedGold)
     ELSE bare

\* UserDie: drops, and then takes off what is worn but the boat and the backpack.
UserDie(u) ==
  LET dead == [Hand(u) EXCEPT !.me.Muerto = TRUE]
      bare == IF user[u].Pos \in ZONAPELEA THEN dead
              ELSE IF Trait[u].newbie THEN TirarTodosLosItemsNoNewbies(dead)
              ELSE TirarTodo(dead)
      Off(h, k) == DesequiparTipo(h, k)
  IN /\ Alive(u)
     /\ Leaves(Off(Off(Off(Off(Off(Off(bare, "otArmadura"), "otWeapon"), "otCASCO"), "otAnillo"),
                   "otFlechas"), "otESCUDO"))

Revive(u) ==
  /\ user[u].Muerto
  /\ Leaves([Hand(u) EXCEPT !.me.Muerto = FALSE])

\* The newbie that grows loses what is for newbies.
QuitarNewbies(h) ==
  Walked(h, MAX_INVENTORY_SLOTS, [s \in Slots |-> [g \in Hands |->
    LET o == g.me.Object[s].ObjIndex
    IN IF s \in Within(g.me) /\ o # 0 /\ ItemNewbie(o)
       THEN QuitarUserInvItem(g, s, MAX_INVENTORY_OBJS) ELSE g]])

QuitarNewbieObj(u) ==
  /\ \E s \in Within(user[u]) : user[u].Object[s].ObjIndex \in {o \in Objects : ItemNewbie(o)}
  /\ Leaves(QuitarNewbies(Hand(u)))

-------------------------------------------------------------------------------
(* The bank *)

FirstFit(f, o, n) ==
  LET room == {s \in DOMAIN f : f[s].ObjIndex = o /\ f[s].Amount + n <= MAX_INVENTORY_OBJS}
      free == {s \in DOMAIN f : f[s].ObjIndex = 0}
  IN IF room # {} THEN Min(room) ELSE IF free # {} THEN Min(free) ELSE 0

\* UserDepositaItem and UserDejaObj: credited to the bank before it leaves the inventory.
Deposit(u, s, num) ==
  LET it == user[u].Object[s]
      n == Lesser(num, it.Amount)
      b == FirstFit(user[u].Banco, it.ObjIndex, n)
  IN /\ Alive(u) /\ s \in Within(user[u]) /\ it.Amount > 0 /\ num > 0
     /\ b # 0 /\ user[u].Banco[b].Amount + n <= MAX_INVENTORY_OBJS
     /\ Leaves(QuitarUserInvItem(
                 [Hand(u) EXCEPT !.me.Banco[b] = [ObjIndex |-> it.ObjIndex, Amount |-> @.Amount + n]],
                 s, n))

Clamped(num, it) == Lesser(num, it.Amount)

\* UserRetiraItem, UserReciveObj, QuitarBancoInvItem: no slot of the backpack is refused.
Withdraw(u, b, num) ==
  LET it == user[u].Banco[b]
      n == Clamped(num, it)
      room == HasRoom(user[u], it.ObjIndex, n)
      S == IF room # {} THEN room ELSE FreeSlots(user[u])
      s == Min(S)
  IN /\ Alive(u) /\ it.Amount > 0 /\ num > 0 /\ S # {}
     /\ user[u].Object[s].Amount + n <= MAX_INVENTORY_OBJS
     /\ Leaves([Hand(u) EXCEPT !.me.Object[s] = Holding(@, it.ObjIndex, @.Amount + n),
                               !.me.Banco[b] = IF it.Amount = n THEN Nothing
                                               ELSE [it EXCEPT !.Amount = it.Amount - n]])

-------------------------------------------------------------------------------
(* The merchant *)

CargarInvent(inv) ==
  [NroItems |-> Len(Plantilla),
   Object |-> [s \in 1..NpcSlots |->
     IF s <= Len(Plantilla) THEN Plantilla[s]
     ELSE IF s = Len(Plantilla) + 1 THEN inv.Object[s] ELSE Nothing]]

QuedanItems(inv, o) == inv.NroItems > 0 /\ \E s \in 1..NpcSlots : inv.Object[s].ObjIndex = o

EncontrarCant(o) ==
  LET S == {i \in 1..Len(Plantilla) : Plantilla[i].ObjIndex = o}
  IN IF S = {} THEN 0 ELSE Plantilla[Min(S)].Amount

Refilled(inv, s, o) ==
  [inv EXCEPT !.Object[s] = [ObjIndex |-> o, Amount |-> EncontrarCant(o)], !.NroItems = @ + 1]

\* The emptied slot is filled again when the object is crucial and was the last; a
\* merchant with nothing left loads its stock again.
QuitarNpcInvItem(inv, s, n) ==
  LET o == inv.Object[s].ObjIndex
      less == [inv EXCEPT !.Object[s].Amount = @ - n]
      gone == [inv EXCEPT !.Object[s] = Nothing, !.NroItems = @ - 1]
      back == IF ObjData[o].Crucial /\ ~QuedanItems(gone, o) /\ EncontrarCant(o) > 0
              THEN Refilled(gone, s, o) ELSE gone
  IN IF inv.Object[s].Amount > n THEN less
     ELSE IF back.NroItems = 0 /\ ~InvReSpawn THEN CargarInvent(back) ELSE back

\* The price in whole gold: rounded for the user who buys, cut for the one who sells.
BuyPrice(u, o, n) ==
  LET d == 100 + Trait[u].Comerciar
  IN (200 * ObjData[o].Valor * n + d) \div (2 * d)

SalePrice(o, n) == IF ItemNewbie(o) THEN 0 ELSE (ObjData[o].Valor * n) \div 3

\* Comercio, Compra
Buy(u, s, num) ==
  LET it == npc.Object[s]
      n == Lesser(num, it.Amount)
      o == it.ObjIndex
  IN /\ Alive(u) /\ num \in 1..MAX_INVENTORY_OBJS /\ it.Amount > 0 /\ o # 0
     /\ user[u].GLD >= BuyPrice(u, o, n)
     /\ MeterSlot(user[u], o, n) # 0
     /\ user' = [user EXCEPT ![u] = [MeterItemEnInventario(user[u], o, n)
                                       EXCEPT !.GLD = @ - BuyPrice(u, o, n)]]
     /\ npc' = QuitarNpcInvItem(npc, s, n)
     /\ UNCHANGED floor

\* SlotEnNPCInv and the credit that follows it; what no slot takes is gone.
Stocked(inv, o, n) ==
  LET s == FirstFit(inv.Object, o, n)
  IN IF s = 0 THEN inv
     ELSE [Object |-> [inv.Object EXCEPT ![s] =
                         [ObjIndex |-> o, Amount |-> Lesser(MAX_INVENTORY_OBJS, @.Amount + n)]],
           NroItems |-> IF inv.Object[s].ObjIndex = 0 THEN inv.NroItems + 1 ELSE inv.NroItems]

\* Comercio, Venta: any slot of the thirty is paid for, whether or not it is in reach.
Sell(u, s, num) ==
  LET it == user[u].Object[s]
      o == it.ObjIndex
      n == Lesser(num, it.Amount)
      h == QuitarUserInvItem(Hand(u), s, n)
  IN /\ Alive(u) /\ num >= 1 /\ o # 0 /\ o # iORO /\ n > 0
     /\ ~ObjData[o].Real /\ ~ObjData[o].Caos /\ ~Trait[u].Consejero
     /\ user' = [user EXCEPT ![u] = [h.me EXCEPT !.GLD = Lesser(MAXORO, @ + SalePrice(o, n))]]
     /\ floor' = h.floor
     /\ npc' = Stocked(npc, o, n)

-------------------------------------------------------------------------------
(* Work *)

\* DoTalar, DoMineria, DoPescar, DoPescarRed
Gather(u, o, n) == Alive(u) /\ Leaves(PutItemInInv(Hand(u), o, n))

Materials == [o \in Objects |-> {m \in Objects : ObjData[o].Mat[m] > 0}]
Built == {o \in Objects : Materials[o] # {}}
Upgraded == {o \in Objects : ObjData[o].Upgrade # 0}

\* HerreroTieneMateriales, CarpinteroTieneMateriales
TieneMateriales(me, o, n) == \A m \in Materials[o] : TieneObjetos(me, m, ObjData[o].Mat[m] * n)

\* HerreroQuitarMateriales, CarpinteroQuitarMateriales
QuitarMateriales(h, o, n) ==
  Walked(h, NumObjDatas, [m \in Objects |-> [g \in Hands |->
    IF m \in Materials[o] THEN QuitarObjetos(g, m, ObjData[o].Mat[m] * n) ELSE g]])

\* HerreroConstruirItem, CarpinteroConstruirItem: as many as there is material for.
Construct(u, o, wanted) ==
  LET n == Max({k \in 1..wanted : TieneMateriales(user[u], o, k)})
  IN /\ Alive(u) /\ TieneMateriales(user[u], o, 1)
     /\ Leaves(PutItemInInv(QuitarMateriales(Hand(u), o, n), o, n))

\* DoUpgrade, with TieneMaterialesUpgrade and QuitarMaterialesUpgrade
Upgrade(u, o) ==
  LET spent == QuitarMateriales(Hand(u), o, 1)
  IN /\ Alive(u)
     /\ TieneMateriales(user[u], o, 1) /\ TieneObjetos(user[u], o, 1)
     /\ user[u].Eqp["otWeapon"].ObjIndex = Hammer
     /\ Leaves(PutItemInInv(QuitarObjetos(spent, o, 1), ObjData[o].Upgrade, 1))

\* The furnace asks that the slot used last still hold what it held then, and so any slot
\* may be the one.
AtFurnace(u, s, type) ==
  /\ Alive(u) /\ s \in Within(user[u])
  /\ user[u].Object[s].ObjIndex # 0 /\ Type(user[u].Object[s].ObjIndex) = type

\* FundirMineral, DoLingotes: OrePerIngot units of the slot for one ingot.
FundirMineral(u, s) ==
  LET o == user[u].Object[s].ObjIndex
      left == user[u].Object[s].Amount - ObjData[o].OrePerIngot
      h == [Hand(u) EXCEPT !.me.Object[s] = Holding(@, IF left < 1 THEN 0 ELSE o, left)]
  IN /\ AtFurnace(u, s, "otMinerales") /\ left >= 0
     /\ Leaves(PutItemInInv(h, ObjData[o].Ingot, 1))

\* DoFundir: up to three kinds of ingots, one after the other.
Recovered(h, n) ==
  Walked(h, NumObjDatas, [m \in Objects |-> [g \in Hands |->
    IF n[m] > 0 THEN PutItemInInv(g, m, n[m]) ELSE g]])

\* FundirArmas, DoFundir: the weapon for part of the ingots it was made of; Melted holds
\* what each roll of the die gives back.
FundirArmas(u, s) ==
  LET o == user[u].Object[s].ObjIndex
      off == IF user[u].Object[s].Equipped THEN Desequipar(Hand(u), s) ELSE Hand(u)
      h == [off EXCEPT !.me.Object[s] = Holding(@, IF @.Amount <= 1 THEN 0 ELSE o, @.Amount - 1)]
  IN /\ AtFurnace(u, s, "otWeapon")
     /\ \E n \in ObjData[o].Melted : Leaves(Recovered(h, n))

\* ObjEsRobable
Robable(v, s) ==
  LET it == user[v].Object[s]
  IN /\ it.ObjIndex # 0 /\ ~it.Equipped
     /\ ~ObjData[it.ObjIndex].Real /\ ~ObjData[it.ObjIndex].Caos
     /\ Type(it.ObjIndex) \notin {"otLlaves", "otBarcos"}

\* (Mutant: the victim loses the tenth, which may be nothing.)
TenthLess(it, n) == [it EXCEPT !.Amount = @ - @ \div 10]

LessStolen(it, n) == IF it.Amount - n <= 0 THEN NoSlot ELSE [it EXCEPT !.Amount = @ - n]

\* A twentieth to a tenth of the slot, and one at least.
Stolen(it) == Max({1, it.Amount \div 20})..Max({1, it.Amount \div 10})

\* DoRobar, DoHurtar with RobarObjeto
Rob(u, v, s) ==
  LET it == user[v].Object[s]
  IN /\ u # v /\ Alive(u) /\ Alive(v)
     /\ s \in Within(user[v]) /\ Robable(v, s)
     /\ \E n \in Stolen(it) :
          LET h == PutItemInInv(Hand(u), it.ObjIndex, n)
          IN /\ user' = [user EXCEPT ![v].Object[s] = LessStolen(it, n), ![u] = h.me]
             /\ floor' = h.floor
     /\ UNCHANGED npc

\* DoRobar, gold
RobGold(u, v, n) ==
  /\ u # v /\ Alive(u) /\ Alive(v) /\ n \in 1..user[v].GLD
  /\ user' = [user EXCEPT ![v].GLD = @ - n, ![u].GLD = Lesser(MAXORO, @ + n)]
  /\ UNCHANGED <<floor, npc>>

\* Desarmar, DoDesequipar
Disarm(u, v) ==
  /\ u # v /\ Alive(u) /\ Alive(v)
  /\ \E k \in {"otWeapon", "otESCUDO", "otCASCO"} :
       user[v].Eqp[k].ObjIndex > 0 /\ Leaves(DesequiparTipo(Hand(v), k))

\* NPC_TIRAR_ITEMS: a creature dies on a tile and leaves n of o there, or near.
NpcTirarItems(t, o, n) ==
  /\ floor' = TirarItemAlPiso(floor, t, o, n)
  /\ UNCHANGED <<user, npc>>

-------------------------------------------------------------------------------

Amounts == 1..MAX_INVENTORY_OBJS

\* Steps that move objects, and steps that bring new ones.
Moves(u) ==
  \/ \E s \in Slots, n \in Amounts : Drop(u, s, n) \/ Deposit(u, s, n) \/ Sell(u, s, n)
  \/ \E s \in Slots : Equip(u, s) \/ UseEquipable(u, s) \/ UseConsumable(u, s) \/ UseBoat(u, s)
  \/ \E b \in BankSlots, n \in Amounts : Withdraw(u, b, n)
  \/ \E n \in 1..MAXORO : DropGold(u, n)
  \/ Get(u) \/ UserDie(u) \/ Revive(u) \/ QuitarNewbieObj(u)
  \/ \E v \in Users, s \in Slots : Rob(u, v, s)
  \/ \E v \in Users, n \in 1..MAXORO : RobGold(u, v, n)
  \/ \E v \in Users : Disarm(u, v)

Brings(u) ==
  \/ \E o \in Gathered, n \in Amounts : Gather(u, o, n)
  \/ \E o \in Built, n \in 1..MaxBatch : Construct(u, o, n)
  \/ \E o \in Upgraded : Upgrade(u, o)
  \/ \E s \in Slots : FundirMineral(u, s) \/ FundirArmas(u, s)
  \/ \E s \in 1..NpcSlots, n \in Amounts : Buy(u, s, n)

\* The bound on the objects in the world.
WithinBound ==
  /\ Units(Weight) <= MaxLoad[{u \in Users : user[u] # InitUser(u)}]
  /\ \A t \in Tiles : floor[t].Amount <= MaxPile
  /\ \A u \in Users, s \in Slots : user[u].Object[s].Amount <= MaxHeld

\* A move that makes units may pass the bound, and ends there.
Next ==
  /\ WithinBound
  /\ \/ /\ \E u \in Users : Moves(u)
        /\ WithinBound' \/ Units(Each)' > Units(Each)
     \/ /\ \/ \E u \in Users : Brings(u)
           \/ \E t \in Tiles, o \in NpcDrops, n \in Amounts : NpcTirarItems(t, o, n)
        /\ WithinBound'

Init ==
  /\ user = [u \in Users |-> InitUser(u)]
  /\ floor = [t \in Tiles |-> Nothing]
  /\ npc = Filled(Plantilla)

Spec == Init /\ [][Next]_vars
-------------------------------------------------------------------------------
(* Properties *)

\* The records of users, floor and merchant keep their shape, and no purse, bank or stock
\* goes below zero.
TypeOK ==
  /\ user \in [Users -> UserRecord]
  /\ floor \in Floor
  /\ npc \in NpcRecord

\* What the equipment fields of a user name is what the slot they name holds, and the slot is
\* marked, through sales, deposits, deaths, crafts and thefts.  Boats and backpacks are apart:
\* DoNavega marks no slot, and taking off a backpack may empty the slot that is being put on.
EquippedIsHeld ==
  \A u \in Users, k \in EqTypes \ {"otBarcos", "otMochilas"} :
    LET e == user[u].Eqp[k]
    IN e.Slot # 0 => /\ user[u].Object[e.Slot].ObjIndex = e.ObjIndex
                     /\ user[u].Object[e.Slot].Equipped

\* The slots in reach are those of the backpack the equipment fields name.
SlotsMatchBackpack ==
  \A u \in Users :
    LET bag == user[u].Eqp["otMochilas"].ObjIndex
    IN user[u].CurrentInventorySlots =
         MAX_NORMAL_INVENTORY_SLOTS + IF bag = 0 THEN 0 ELSE ObjData[bag].MochilaSlots

\* The merchant's counter, which decides when it loads its stock again, is the number of its
\* slots in use, through purchases, sales and refills.
NpcCount == npc.NroItems = Cardinality({s \in 1..NpcSlots : npc.Object[s].ObjIndex # 0})

\* What is counted is what there is: amounts, slots in reach, the merchant's stock.
BagsSound == TypeOK /\ SlotsMatchBackpack /\ NpcCount

Source(o) ==
  \/ \E u \in Users :
       \/ o \in Gathered /\ \E n \in Amounts : Gather(u, o, n)
       \/ o \in Built /\ \E n \in 1..MaxBatch : Construct(u, o, n)
       \/ \E p \in Upgraded : (ObjData[p].Upgrade = o /\ Upgrade(u, p))
       \/ \E s \in Slots : FundirMineral(u, s) \/ FundirArmas(u, s)
       \/ \E s \in 1..NpcSlots, n \in Amounts : Buy(u, s, n)
       \/ o = iORO /\ \E s \in Slots, n \in Amounts : Sell(u, s, n)
  \/ o \in NpcDrops /\ \E t \in Tiles, n \in Amounts : NpcTirarItems(t, o, n)

OutOfReach(u) == {s \in Slots \ Within(user[u]) : user[u].Object[s].ObjIndex # 0}

\* A backpack among the slots of a backpack, marked as worn.
BagInBag(u) ==
  {s \in Slots : /\ s > MAX_NORMAL_INVENTORY_SLOTS /\ user[u].Object[s].Equipped
                 /\ user[u].Object[s].ObjIndex # 0
                 /\ Type(user[u].Object[s].ObjIndex) = "otMochilas"}

\* Whatever there is more of was gathered, built, melted, left by a creature, restocked or paid
\* for goods: no drop, theft, deposit, death or change of clothes makes a unit.  The code makes
\* some in three states: on a pile that passes the limit (entry 29 of the ledger), from a slot
\* that the backpack left out of reach, and from a backpack worn inside another.
NothingFromNothing ==
  [][\A o \in Objects :
       Units(Only[o])' > Units(Only[o]) =>
         \/ \E t \in Tiles : (floor'[t].ObjIndex = o /\ floor'[t].Amount > MAX_INVENTORY_OBJS)
         \/ \E u \in Users : OutOfReach(u) \union BagInBag(u) # {}
         \/ Source(o)]_vars

\* Taking off the backpack leaves nothing in the slots it added: what they held falls to the
\* floor.
NothingOutOfReach == \A u \in Users : OutOfReach(u) = {}
================================================================================
