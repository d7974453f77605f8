--------------------------------- MODULE Items ---------------------------------
(***************************************************************************)
(* The operators on inventories and floor that every handler of objects is *)
(* made of: InvUsuario.cpp, Modulo_InventANDobj.cpp (TirarItemAlPiso) and  *)
(* Tilelibre of Modulo_UsUaRiOs.cpp.                                       *)
(*                                                                         *)
(* A hand is what one of these operators works on: a record with the user  *)
(* (u), that user's record of UserList (me) and the floor.  The tiles are  *)
(* those of the map the user is on, in a row: the distance of two tiles is *)
(* the difference of their numbers.  The hooks of the code (Tilelibre,     *)
(* MakeObj, Desequipar, QuitarUserInvItem) are the functions they name.    *)
(* Appearance, sounds and messages are left out, and so are the NroItems   *)
(* of users and banks, which are shown and saved and decide nothing.       *)
(***************************************************************************)
EXTENDS Integers, FiniteSets, FiniteSetsExt

CONSTANTS
  MAX_NORMAL_INVENTORY_SLOTS, MAX_INVENTORY_SLOTS,
  MAX_INVENTORY_OBJS,   \* the units a slot, or a tile, should hold at most
  IntRange,             \* 2^w for amounts of w bits, which wrap
  MAX_BANCOINVENTORY_SLOTS,
  NumTiles, ZONAPELEA,  \* the tiles, and those of a fighting zone
  NumObjDatas, ObjData, \* what the data files say of each object
  Trait                 \* and of each user

ASSUME ItemsAssumption ==
  /\ MAX_NORMAL_INVENTORY_SLOTS \in Nat \ {0}
  /\ MAX_INVENTORY_SLOTS \in Nat /\ MAX_INVENTORY_SLOTS >= MAX_NORMAL_INVENTORY_SLOTS
  /\ MAX_INVENTORY_OBJS \in Nat \ {0}
  /\ IntRange \in Nat /\ IntRange % 2 = 0 /\ IntRange > 6 * MAX_INVENTORY_OBJS
  /\ MAX_BANCOINVENTORY_SLOTS \in Nat
  /\ NumTiles \in Nat \ {0} /\ ZONAPELEA \subseteq 1..NumTiles
  /\ NumObjDatas \in Nat /\ DOMAIN ObjData = 1..NumObjDatas
  /\ \A o \in DOMAIN ObjData :
       ObjData[o].MochilaSlots \in 0..MAX_INVENTORY_SLOTS - MAX_NORMAL_INVENTORY_SLOTS

Objects == 1..NumObjDatas
Slots == 1..MAX_INVENTORY_SLOTS
Tiles == 1..NumTiles
BankSlots == 1..MAX_BANCOINVENTORY_SLOTS

EqTypes == {"otWeapon", "otAnillo", "otFlechas", "otArmadura", "otCASCO", "otESCUDO",
            "otBarcos", "otMochilas"}

Type(o) == ObjData[o].OBJType

UserRecord ==
  [Object : [Slots -> [ObjIndex : {0} \union Objects, Amount : Int, Equipped : BOOLEAN]],
   Eqp : [EqTypes -> [ObjIndex : {0} \union Objects, Slot : {0} \union Slots]],
   CurrentInventorySlots : MAX_NORMAL_INVENTORY_SLOTS..MAX_INVENTORY_SLOTS,
   Banco : [BankSlots -> [ObjIndex : {0} \union Objects, Amount : Nat]],
   GLD : Nat, Muerto : BOOLEAN, Navegando : BOOLEAN, Pos : Tiles]

Floor == [Tiles -> [ObjIndex : {0} \union Objects, Amount : Int]]

Hands == [u : DOMAIN Trait, me : UserRecord, floor : Floor]

Nothing == [ObjIndex |-> 0, Amount |-> 0]
NoSlot == [ObjIndex |-> 0, Amount |-> 0, Equipped |-> FALSE]
NotEqp == [ObjIndex |-> 0, Slot |-> 0]

\* A signed integer of the width of Amount.
Wrap(x) == ((x + IntRange \div 2) % IntRange) - IntRange \div 2

Lesser(a, b) == IF a < b THEN a ELSE b

\* What n turns of a loop make of d: turn i is the function step[i].
Walked(d, n, step) ==
  LET w[i \in 0..n] == IF i = 0 THEN d ELSE step[i][w[i - 1]]
  IN  w[n]

-------------------------------------------------------------------------------
(* The floor *)

MakeObj(floor, t, o, n) ==
  [floor EXCEPT ![t] = [ObjIndex |-> o,
                        Amount |-> IF @.ObjIndex = o THEN Wrap(@.Amount + n) ELSE n]]

EraseObj(floor, t, n) ==
  [floor EXCEPT ![t] = IF Wrap(@.Amount - n) <= 0 THEN Nothing
                       ELSE [ObjIndex |-> @.ObjIndex, Amount |-> Wrap(@.Amount - n)]]

\* The nearest tile that takes n of o, in the order of the scan; 0 when none does.
Tilelibre(floor, pos, o, n) ==
  LET free == {t \in Tiles : /\ floor[t].ObjIndex \in {0, o}
                             /\ floor[t].Amount + n <= MAX_INVENTORY_OBJS}
      Before(a, b) == LET da == IF a < pos THEN pos - a ELSE a - pos
                          db == IF b < pos THEN pos - b ELSE b - pos
                      IN da < db \/ (da = db /\ a <= b)
  IN IF free = {} THEN 0 ELSE CHOOSE t \in free : \A s \in free : Before(t, s)

\* What no tile takes is lost.
TirarItemAlPiso(floor, pos, o, n) ==
  LET t == Tilelibre(floor, pos, o, n)
  IN IF t = 0 THEN floor ELSE MakeObj(floor, t, o, n)

-------------------------------------------------------------------------------
(* What an object is, and who may use it *)

ItemSeCae(o) ==
  /\ ~ObjData[o].NoSeCae /\ ~ObjData[o].Real /\ ~ObjData[o].Caos
  /\ Type(o) \notin {"otLlaves", "otBarcos"}

ItemNewbie(o) == ObjData[o].Newbie

ClasePuedeUsarItem(u, o) ==
  Trait[u].UserPlayer => Trait[u].clase \notin ObjData[o].ClaseProhibida

SexoPuedeUsarItem(u, o) == Trait[u].Genero \in ObjData[o].Generos

FaccionPuedeUsarItem(u, o) ==
  IF ObjData[o].Real THEN ~Trait[u].criminal /\ Trait[u].ArmadaReal
  ELSE ObjData[o].Caos => Trait[u].criminal /\ Trait[u].FuerzasCaos

CheckRazaUsaRopa(u, o) ==
  /\ ObjData[o].RazaEnana = (Trait[u].raza \notin {"Humano", "Elfo", "Drow"})
  /\ ObjData[o].RazaDrow => Trait[u].raza = "Drow"

\* The checks EquiparInvItem makes, which differ by type.
PuedeUsarItem(u, o) ==
  /\ ItemNewbie(o) => Trait[u].newbie
  /\ Type(o) \in {"otWeapon", "otAnillo", "otFlechas", "otESCUDO", "otArmadura", "otCASCO"}
       => ClasePuedeUsarItem(u, o)
  /\ Type(o) \in {"otWeapon", "otAnillo", "otFlechas", "otESCUDO", "otArmadura"}
       => FaccionPuedeUsarItem(u, o)
  /\ Type(o) = "otArmadura" => SexoPuedeUsarItem(u, o) /\ CheckRazaUsaRopa(u, o)

-------------------------------------------------------------------------------
(* Into the inventory *)

Within(me) == 1..me.CurrentInventorySlots

HasRoom(me, o, n) ==
  {s \in Within(me) : me.Object[s].ObjIndex = o /\ me.Object[s].Amount + n <= MAX_INVENTORY_OBJS}

FreeSlots(me) == {s \in Within(me) : me.Object[s].ObjIndex = 0}

\* The slot the object goes to; 0 when none takes it.  The slots of a backpack
\* take nothing that does not fall.
MeterSlot(me, o, n) ==
  LET S == IF HasRoom(me, o, n) # {} THEN HasRoom(me, o, n) ELSE FreeSlots(me)
  IN IF S = {} \/ (Min(S) > MAX_NORMAL_INVENTORY_SLOTS /\ ~ItemSeCae(o)) THEN 0 ELSE Min(S)

Holding(it, o, n) == [it EXCEPT !.ObjIndex = o, !.Amount = n]

MeterItemEnInventario(me, o, n) ==
  LET s == MeterSlot(me, o, n)
  IN IF s = 0 THEN me
     ELSE [me EXCEPT !.Object[s] = Holding(@, o, Lesser(MAX_INVENTORY_OBJS, @.Amount + n))]

\* Into the inventory, or else onto the floor, or else lost.
PutItemInInv(h, o, n) ==
  IF MeterSlot(h.me, o, n) # 0
  THEN [h EXCEPT !.me = MeterItemEnInventario(h.me, o, n)]
  ELSE [h EXCEPT !.floor = TirarItemAlPiso(h.floor, h.me.Pos, o, n)]

-------------------------------------------------------------------------------
(* Out of the inventory.  Taking off a backpack drops what its slots hold,  *)
(* dropping takes from the slot, and taking all of what is worn takes it    *)
(* off: the three call one another.                                         *)

\* (Mutant: the last unit leaves the slot and stays worn.)
WornOutLate(it, n) == it.Equipped /\ it.Amount < n

\* What is worn comes off when the slot loses all it holds.
WornOut(it, n) == it.Equipped /\ it.Amount <= n

\* (Mutant: the slots of the backpack stay in reach.)
SlotsKept(me) == me.CurrentInventorySlots

SlotsWithoutBag(me) == MAX_NORMAL_INVENTORY_SLOTS

\* What n units less leave of a slot.
Lessened(it, n) ==
  IF Wrap(it.Amount - n) <= 0 THEN NoSlot ELSE [it EXCEPT !.Amount = Wrap(@ - n)]

\* QuitarUserInvItem, when `off` is what Desequipar does.
TakeFrom(off, h, s, cantidad) ==
  LET bare == IF WornOut(h.me.Object[s], cantidad) THEN off[<<h, s>>] ELSE h
  IN IF s \notin Within(h.me) THEN h ELSE [bare EXCEPT !.me.Object[s] = Lessened(@, cantidad)]

\* DropObj.
DropFrom(off, h, s, num, t) ==
  LET it == h.me.Object[s]
      o == it.ObjIndex
      amount == Lesser(num, it.Amount)
      there == h.floor[t]
      taken == IF amount + there.Amount > MAX_INVENTORY_OBJS
               THEN MAX_INVENTORY_OBJS - there.Amount ELSE amount
  IN IF \/ num <= 0 \/ o = 0
        \/ ObjData[o].NoSeCae
        \/ ItemNewbie(o) /\ Trait[h.u].UserPlayer
        \/ there.ObjIndex \notin {0, o}
     THEN h
     ELSE TakeFrom(off, [h EXCEPT !.floor = MakeObj(@, t, o, amount)], s, taken)

\* The loop over the slots from `first` on that drops what Falls: where a tile takes all of it.
DropEach(off, h, first, Falls) ==
  Walked(h, MAX_INVENTORY_SLOTS, [s \in Slots |-> [g \in Hands |->
    LET it == g.me.Object[s]
        t == Tilelibre(g.floor, g.me.Pos, it.ObjIndex, it.Amount)
    IN IF s >= first /\ s \in Within(g.me) /\ it.ObjIndex \in Falls /\ t # 0
       THEN DropFrom(off, g, s, MAX_INVENTORY_OBJS, t) ELSE g]])

Falling == {o \in Objects : ItemSeCae(o)}

TirarTodosLosItemsEnMochila(off, h) ==
  IF h.me.Pos \in ZONAPELEA THEN h
  ELSE DropEach(off, h, MAX_NORMAL_INVENTORY_SLOTS + 1, Falling)

HeldIn(h, s) == IF s \in Slots THEN h.me.Object[s].ObjIndex ELSE 0

IsBag(o) == o # 0 /\ Type(o) = "otMochilas"

\* The slot and the equipment field, unmarked.
Unmarked(h, s) ==
  LET o == HeldIn(h, s)
      bare == [h EXCEPT !.me.Object[s].Equipped = FALSE]
  IN IF o = 0 THEN h
     ELSE IF Type(o) \notin EqTypes THEN bare
     ELSE [bare EXCEPT !.me.Eqp[Type(o)] = NotEqp]

\* Desequipar, as far as calls nest.  Every call unmarks a slot and none marks one: the
\* calls nest no deeper than there are slots.
Depths == 0..MAX_INVENTORY_SLOTS
Calls == Hands \X ({0} \union Slots)

DesequiparTo ==
  LET nested[k \in Depths] == [c \in Calls |->
        LET h == c[1]
            off == Unmarked(h, c[2])
        IN IF ~IsBag(HeldIn(h, c[2])) THEN off
           ELSE [IF k = 0 THEN off ELSE TirarTodosLosItemsEnMochila(nested[k - 1], off)
                   EXCEPT !.me.CurrentInventorySlots = SlotsWithoutBag(h.me)]]
  IN nested[MAX_INVENTORY_SLOTS]

Desequipar(h, s) == DesequiparTo[<<h, s>>]
QuitarUserInvItem(h, s, cantidad) == TakeFrom(DesequiparTo, h, s, cantidad)
DropObj(h, s, num, t) == DropFrom(DesequiparTo, h, s, num, t)

TirarTodosLosItems(h) == DropEach(DesequiparTo, h, 1, Falling)

TirarTodosLosItemsNoNewbies(h) ==
  IF h.me.Pos \in ZONAPELEA THEN h
  ELSE DropEach(DesequiparTo, h, 1, {o \in Falling : ~ItemNewbie(o)})

\* Takes off what is worn of a type, if anything is.
DesequiparTipo(h, k) ==
  IF h.me.Eqp[k].ObjIndex > 0 THEN Desequipar(h, h.me.Eqp[k].Slot) ELSE h

\* The object is the one the slot held when the handler began.
Wear(h, s, o) ==
  [h EXCEPT !.me.Object[s].Equipped = TRUE,
            !.me.Eqp[Type(o)] = [ObjIndex |-> o, Slot |-> s],
            !.me.CurrentInventorySlots =
              IF Type(o) = "otMochilas"
              THEN MAX_NORMAL_INVENTORY_SLOTS + ObjData[o].MochilaSlots ELSE @]

TwoHanded(o) == o # 0 /\ ObjData[o].DosManos

\* What no state of the user lets be put on, or taken off.
EquiparBlocked(h, o) ==
  \/ h.me.Navegando /\ Type(o) \in {"otArmadura", "otCASCO", "otESCUDO"}
  \/ Type(o) = "otESCUDO" /\ TwoHanded(h.me.Eqp["otWeapon"].ObjIndex)
  \/ Type(o) = "otMochilas" /\ h.me.Muerto

EquiparInvItem(h, s) ==
  LET o == h.me.Object[s].ObjIndex
      freed == IF TwoHanded(o) /\ Type(o) = "otWeapon" THEN DesequiparTipo(h, "otESCUDO") ELSE h
  IN IF \/ s \notin Within(h.me) \/ o = 0
        \/ Type(o) \notin EqTypes
        \/ ~PuedeUsarItem(h.u, o) \/ EquiparBlocked(h, o)
     THEN h
     ELSE IF h.me.Object[s].Equipped THEN Desequipar(h, s)
     ELSE Wear(DesequiparTipo(freed, Type(o)), s, o)

-------------------------------------------------------------------------------
(* Materials *)

\* What the first n places of an inventory, a bank or the floor weigh.
UnitsIn(f, n, weight) ==
  LET sum[i \in 0..n] == IF i = 0 THEN 0 ELSE sum[i - 1] + f[i].Amount * weight[f[i].ObjIndex]
  IN  sum[n]

Only == [o \in Objects |-> [p \in {0} \union Objects |-> IF p = o THEN 1 ELSE 0]]
Each == [p \in {0} \union Objects |-> IF p = 0 THEN 0 ELSE 1]

TotalOf(me, o) == UnitsIn(me.Object, me.CurrentInventorySlots, Only[o])

TieneObjetos(me, o, cant) == cant <= TotalOf(me, o)

\* Takes cant of o from the slots in their order, as far as they hold it.
QuitarObjetos(h, o, cant) ==
  Walked([h |-> h, cant |-> cant], MAX_INVENTORY_SLOTS,
    [s \in Slots |-> [g \in [h : Hands, cant : Int] |->
      LET it == g.h.me.Object[s]
          off == IF WornOut(it, g.cant) THEN Desequipar(g.h, s) ELSE g.h
          left == off.me.Object[s].Amount - g.cant
      IN IF g.cant = 0 \/ s \notin Within(g.h.me) \/ it.ObjIndex # o THEN g
         ELSE IF left > 0
         THEN [h |-> [off EXCEPT !.me.Object[s].Amount = left], cant |-> 0]
         ELSE [h |-> [off EXCEPT !.me.Object[s] = Holding(@, 0, 0)], cant |-> -left]]]).h
================================================================================
