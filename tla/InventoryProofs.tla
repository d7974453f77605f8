---------------------------- MODULE InventoryProofs ----------------------------
(* The proofs about objects. From the bottom: what a slot, a pile, an equipment
   field and a stock satisfy; what each operator of Items does to a hand that
   satisfies it; that the calls of Desequipar, DropObj and QuitarUserInvItem, which
   nest, are a function, and what it does; and then the handlers, one by one. The
   inductive invariant is IInv. *)
EXTENDS Inventory, FiniteSetTheorems, WellFoundedInduction, TLAPS

Half == IntRange \div 2

\* A set of naturals that is not empty has a least element.
LEMMA LeastOf ==
  ASSUME NEW T \in SUBSET Nat, T # {}
  PROVE  \E m \in T : \A k \in T : m <= k
<1> DEFINE R == OpToRel(<, Nat)
<1>1. R = {ss \in Nat \X Nat : ss[1] < ss[2]}
  BY Zenon DEF OpToRel
<1>2. IsWellFoundedOn(R, Nat)
  BY NatLessThanWellFounded
<1> HIDE DEF R
<1>3. PICK m \in T : \A k \in T : ~ (<<k, m>> \in R)
  BY <1>2, WFMin
<1>4. ASSUME NEW k \in T PROVE m <= k
  <2>1. <<k, m>> \in Nat \X Nat /\ <<k, m>>[1] = k /\ <<k, m>>[2] = m
    OBVIOUS
  <2>2. ~(k < m)
    BY <1>1, <1>3, <2>1
  <2> QED BY <2>2
<1> QED BY <1>4

\* The set of indices that have a property, if the first has it and each hands it on.
LEMMA AlongIndices ==
  ASSUME NEW n \in Nat, NEW S, 0 \in S, \A i \in 1..n : i - 1 \in S => i \in S
  PROVE  \A i \in 0..n : i \in S
  <1> DEFINE bad == {i \in Nat : i \in 0..n /\ i \notin S}
  <1> SUFFICES ASSUME bad # {} PROVE FALSE
    OBVIOUS
  <1>1. PICK m \in bad : \A k \in bad : m <= k
    <2> HIDE DEF bad
    <2>1. bad \subseteq Nat
      BY DEF bad
    <2> QED BY <2>1, LeastOf
  <1>2. m \in 1..n
    BY <1>1
  <1>3. m - 1 \in S
    <2>1. m - 1 \notin bad
      BY <1>1, <1>2
    <2> QED BY <1>2, <2>1
  <1> QED BY <1>1, <1>2, <1>3

\* A function that is computed index by index, from a step in D, exists.
LEMMA WalkExists ==
  ASSUME NEW D, NEW d0 \in D, NEW n \in Nat, NEW step \in [1..n -> [D -> D]]
  PROVE  \E h \in [0..n -> D] : h[0] = d0 /\ \A i \in 1..n : h[i] = step[i][h[i - 1]]
  <1> DEFINE Walk(h, k) == /\ h \in [0..k -> D] /\ h[0] = d0
                           /\ \A i \in 1..k : h[i] = step[i][h[i - 1]]
             S == {k \in 0..n : \E h : Walk(h, k)}
  <1>1. 0 \in S
    <2> DEFINE h == [i \in 0..0 |-> d0]
    <2>1. Walk(h, 0)
      OBVIOUS
    <2> HIDE DEF Walk, h
    <2> QED BY <2>1
  <1>2. ASSUME NEW k \in 1..n, k - 1 \in S PROVE k \in S
    <2>1. PICK h : Walk(h, k - 1)
      BY <1>2
    <2>2. h \in [0..(k - 1) -> D] /\ h[0] = d0 /\ k - 1 \in 0..(k - 1)
      BY <2>1
    <2> DEFINE g == [i \in 0..k |-> IF i = k THEN step[k][h[k - 1]] ELSE h[i]]
    <2>3. step[k][h[k - 1]] \in D
      BY <2>2
    <2>4. \A i \in 0..(k - 1) : g[i] = h[i]
      OBVIOUS
    <2>5. g \in [0..k -> D] /\ g[0] = d0
      <3>1. \A i \in 0..k : i # k => i \in 0..(k - 1)
        OBVIOUS
      <3>2. 0 \in 0..(k - 1)
        OBVIOUS
      <3>3. ASSUME NEW i \in 0..k PROVE (IF i = k THEN step[k][h[k - 1]] ELSE h[i]) \in D
        BY <2>2, <2>3, <3>1
      <3>4. g \in [0..k -> D]
        BY <3>3
      <3> QED BY <2>2, <2>4, <3>2, <3>4
    <2>6. ASSUME NEW i \in 1..k PROVE g[i] = step[i][g[i - 1]]
      <3>0. i - 1 \in 0..(k - 1) /\ g[i - 1] = h[i - 1]
        <4>1. i - 1 \in 0..(k - 1)
          OBVIOUS
        <4> QED BY <2>4, <4>1
      <3>1. CASE i = k
        <4>1. g[i] = step[k][h[k - 1]]
          BY <3>1
        <4> QED BY <3>0, <3>1, <4>1
      <3>2. CASE i # k
        <4>1. i \in 1..(k - 1) /\ i \in 0..(k - 1)
          BY <3>2
        <4>2. g[i] = h[i] /\ h[i] = step[i][h[i - 1]]
          BY <2>1, <2>4, <4>1
        <4> QED BY <3>0, <4>2
      <3> QED BY <3>1, <3>2
    <2>7. Walk(g, k)
      <3> HIDE DEF g
      <3> QED BY <2>5, <2>6
    <2> HIDE DEF Walk, g
    <2> QED BY <2>7
  <1>3. n \in S
    <2> HIDE DEF S
    <2>1. \A k \in 0..n : k \in S
      BY <1>1, <1>2, AlongIndices
    <2> QED BY <2>1
  <1> HIDE DEF Walk
  <1>4. PICK h : Walk(h, n)
    BY <1>3
  <1> QED BY <1>4 DEF Walk

\* What every turn of a loop keeps is so when the loop ends.
LEMMA WalkedKeeps ==
  ASSUME NEW S, NEW d \in S, NEW n \in Nat, NEW step,
         \A i \in 1..n : \A x \in S : step[i][x] \in S
  PROVE  Walked(d, n, step) \in S
<1> DEFINE turn == [i \in 1..n |-> [x \in S |-> step[i][x]]]
           Fits(f) == f = [i \in 0..n |-> IF i = 0 THEN d ELSE step[i][f[i - 1]]]
           w == CHOOSE f : Fits(f)
<1>1. turn \in [1..n -> [S -> S]]
  OBVIOUS
<1>2. PICK h \in [0..n -> S] : h[0] = d /\ \A i \in 1..n : h[i] = turn[i][h[i - 1]]
  <2> HIDE DEF turn
  <2> QED BY ONLY n \in Nat, <1>1, d \in S, WalkExists
<1>3. ASSUME NEW i \in 0..n PROVE h[i] = IF i = 0 THEN d ELSE step[i][h[i - 1]]
  <2>1. CASE i = 0
    BY <1>2, <2>1
  <2>2. CASE i # 0
    <3>1. i \in 1..n /\ i - 1 \in 0..n
      BY <2>2
    <3>2. h[i - 1] \in S
      BY <1>2, <3>1
    <3>3. turn[i][h[i - 1]] = step[i][h[i - 1]]
      BY <3>1, <3>2
    <3> QED BY <1>2, <2>2, <3>1, <3>3
  <2> QED BY <2>1, <2>2
<1>4. Fits(h)
  BY <1>2, <1>3
<1>5. Fits(w)
  <2> HIDE DEF Fits
  <2> QED BY <1>4
<1>6. \A i \in 0..n : w[i] = IF i = 0 THEN d ELSE step[i][w[i - 1]]
  <2> HIDE DEF w
  <2> QED BY <1>5
<1>7. Walked(d, n, step) = w[n]
  BY DEF Walked
<1> HIDE DEF w, Fits, turn
<1> DEFINE T == {i \in 0..n : w[i] \in S}
<1>8. 0 \in T
  BY <1>6
<1>9. ASSUME NEW i \in 1..n, i - 1 \in T PROVE i \in T
  <2>1. w[i] = step[i][w[i - 1]]
    BY <1>6
  <2> QED BY <1>9, <2>1
<1>10. \A i \in 0..n : i \in T
  <2> HIDE DEF T
  <2> QED BY <1>8, <1>9, AlongIndices
<1> QED BY <1>7, <1>10

\* The cast to the width of an amount.
LEMMA HalfRange ==
  /\ IntRange \in Nat \ {0} /\ Half \in Nat \ {0} /\ IntRange = 2 * Half
  /\ MAX_INVENTORY_OBJS \in Nat \ {0} /\ 3 * MAX_INVENTORY_OBJS < Half
<1>1. IntRange \in Nat /\ IntRange % 2 = 0 /\ IntRange > 6 * MAX_INVENTORY_OBJS /\ MAX_INVENTORY_OBJS \in Nat \ {0}
  BY ItemsAssumption
<1>2. IntRange = 2 * (IntRange \div 2)
  BY <1>1
<1> QED BY <1>1, <1>2 DEF Half

LEMMA Remainder ==
  ASSUME NEW k \in Nat \ {0}, NEW x \in 0..(k - 1)
  PROVE  x % k = x
OBVIOUS

LEMMA RemainderRange ==
  ASSUME NEW k \in Nat \ {0}, NEW x \in Int
  PROVE  x % k \in 0..(k - 1)
OBVIOUS

LEMMA WrapRange ==
  ASSUME NEW x \in Int
  PROVE  /\ Wrap(x) \in Int /\ Wrap(x) < Half
         /\ x \in 0..(Half - 1) => Wrap(x) = x
<1>1. IntRange \in Nat \ {0} /\ Half \in Nat \ {0} /\ IntRange = 2 * Half
  BY HalfRange
<1>2. x + Half \in Int
  BY <1>1
<1>3. (x + Half) % IntRange \in 0..(IntRange - 1)
  BY <1>1, <1>2, RemainderRange
<1>4. Wrap(x) = ((x + Half) % IntRange) - Half
  BY DEF Wrap, Half
<1>5. ASSUME x \in 0..(Half - 1) PROVE (x + Half) % IntRange = x + Half
  <2>1. x + Half \in 0..(IntRange - 1)
    BY <1>1, <1>5
  <2> QED BY <1>1, <2>1, Remainder
<1> QED BY <1>1, <1>2, <1>3, <1>4, <1>5

\* The least and the greatest of a set.
LEMMA MinOf ==
  ASSUME NEW S \in SUBSET Nat, S # {}
  PROVE  Min(S) \in S
<1>1. \E m \in S : \A k \in S : m <= k
  BY LeastOf
<1> QED BY <1>1 DEF Min

LEMMA MaxOf ==
  ASSUME NEW n \in Nat, NEW S \in SUBSET 0..n, S # {}
  PROVE  Max(S) \in S
<1> DEFINE T == {i \in 0..n : n - i \in S}
<1>1. T \in SUBSET Nat /\ T # {}
  <2>1. PICK k \in S : TRUE
    OBVIOUS
  <2>2. k \in 0..n /\ n - k \in 0..n /\ n - (n - k) = k
    BY <2>1
  <2>3. n - k \in T
    BY <2>1, <2>2
  <2>4. \A i \in T : i \in Nat
    OBVIOUS
  <2> HIDE DEF T
  <2> QED BY <2>3, <2>4
<1>2. PICK m \in T : \A k \in T : m <= k
  <2> HIDE DEF T
  <2> QED BY <1>1, LeastOf
<1>3. n - m \in S /\ m \in 0..n
  BY <1>2
<1>4. ASSUME NEW k \in S PROVE n - m >= k
  <2>1. k \in 0..n /\ n - k \in 0..n /\ n - (n - k) = k
    OBVIOUS
  <2>2. n - k \in T
    BY <2>1
  <2>3. m <= n - k
    BY <1>2, <2>2
  <2> QED BY <1>3, <2>1, <2>3
<1>5. \E x \in S : \A y \in S : x >= y
  BY <1>3, <1>4
<1> QED BY <1>5 DEF Max

-------------------------------------------------------------------------------
(* The invariant of a hand *)

SlotRecord == [ObjIndex : {0} \union Objects, Amount : Int, Equipped : BOOLEAN]
EqpRecord == [ObjIndex : {0} \union Objects, Slot : {0} \union Slots]
PileRecord == [ObjIndex : {0} \union Objects, Amount : Int]

\* The types whose equipment field names a slot that is marked.
Marking == EqTypes \ {"otBarcos", "otMochilas"}

\* What a slot holds, it holds at least a unit of.
Whole(it) == it.Amount >= 0 /\ (it.ObjIndex # 0 => it.Amount >= 1)

SlotSound(it) == Whole(it) /\ it.Amount < Half

SlotsSound(f) == \A s \in Slots : SlotSound(f[s])

FloorSound(f) == \A t \in Tiles : Whole(f[t])

\* A field names a slot that holds what the field says, of the field's type, and is marked; and
\* none of the slots in F.
MarksSound(me, F) ==
  \A k \in Marking :
    me.Eqp[k].Slot # 0 =>
      /\ me.Eqp[k].ObjIndex # 0 /\ Type(me.Eqp[k].ObjIndex) = k
      /\ me.Object[me.Eqp[k].Slot].ObjIndex = me.Eqp[k].ObjIndex
      /\ me.Object[me.Eqp[k].Slot].Equipped
      /\ me.Eqp[k].Slot \notin F

\* The backpack is the one it was, with its c slots, or off.
BagSound(me, c, b) ==
  \/ me.CurrentInventorySlots = c /\ me.Eqp["otMochilas"] = b
  \/ me.CurrentInventorySlots = MAX_NORMAL_INVENTORY_SLOTS /\ me.Eqp["otMochilas"] = NotEqp

\* The hands of a user that a handler may be left with: F are slots that no field names any more.
Kept(u, F, c, b) ==
  {h \in Hands : /\ h.u = u /\ FloorSound(h.floor) /\ SlotsSound(h.me.Object)
                 /\ MarksSound(h.me, F) /\ BagSound(h.me, c, b)}

-------------------------------------------------------------------------------
(* Hands, field by field *)

LEMMA HandFields ==
  ASSUME NEW h \in Hands
  PROVE  /\ h.u \in DOMAIN Trait /\ h.me \in UserRecord /\ h.floor \in Floor
         /\ h.me.Object \in [Slots -> SlotRecord] /\ h.me.Eqp \in [EqTypes -> EqpRecord]
         /\ h.me.CurrentInventorySlots \in MAX_NORMAL_INVENTORY_SLOTS..MAX_INVENTORY_SLOTS
         /\ h.me.Pos \in Tiles /\ h.me.GLD \in Nat
  BY DEF Hands, UserRecord, SlotRecord, EqpRecord

LEMMA SlotFields ==
  ASSUME NEW h \in Hands, NEW s \in Slots
  PROVE  /\ h.me.Object[s] \in SlotRecord /\ h.me.Object[s].ObjIndex \in {0} \union Objects
         /\ h.me.Object[s].Amount \in Int /\ h.me.Object[s].Equipped \in BOOLEAN
<1>1. h.me.Object \in [Slots -> SlotRecord]
  BY HandFields
<1>2. h.me.Object[s] \in SlotRecord
  BY <1>1
<1> QED BY <1>2 DEF SlotRecord

LEMMA EqpFields ==
  ASSUME NEW h \in Hands, NEW k \in EqTypes
  PROVE  h.me.Eqp[k] \in EqpRecord /\ h.me.Eqp[k].ObjIndex \in {0} \union Objects /\ h.me.Eqp[k].Slot \in {0} \union Slots
<1>1. h.me.Eqp \in [EqTypes -> EqpRecord]
  BY HandFields
<1>2. h.me.Eqp[k] \in EqpRecord
  BY <1>1
<1> QED BY <1>2 DEF EqpRecord

LEMMA PileFields ==
  ASSUME NEW f \in Floor, NEW t \in Tiles
  PROVE  f[t] \in PileRecord /\ f[t].ObjIndex \in {0} \union Objects /\ f[t].Amount \in Int
<1>1. f[t] \in PileRecord
  BY DEF Floor, PileRecord
<1> QED BY <1>1 DEF PileRecord

\* A hand with another record of its user.
LEMMA WithMe ==
  ASSUME NEW h \in Hands, NEW m \in UserRecord
  PROVE  LET g == [h EXCEPT !.me = m]
         IN g \in Hands /\ g.u = h.u /\ g.me = m /\ g.floor = h.floor
  BY DEF Hands

LEMMA WithFloor ==
  ASSUME NEW h \in Hands, NEW f \in Floor
  PROVE  LET g == [h EXCEPT !.floor = f]
         IN g \in Hands /\ g.u = h.u /\ g.me = h.me /\ g.floor = f
  BY DEF Hands

LEMMA WithSlot ==
  ASSUME NEW h \in Hands, NEW s \in Slots, NEW it \in SlotRecord
  PROVE  LET g == [h EXCEPT !.me.Object[s] = it]
         IN /\ g \in Hands /\ g.u = h.u /\ g.floor = h.floor
            /\ g.me.Object = [h.me.Object EXCEPT ![s] = it]
            /\ g.me.Eqp = h.me.Eqp /\ g.me.CurrentInventorySlots = h.me.CurrentInventorySlots
            /\ g.me.GLD = h.me.GLD /\ g.me.Pos = h.me.Pos
<1> DEFINE g == [h EXCEPT !.me.Object[s] = it]
           m == [h.me EXCEPT !.Object = [h.me.Object EXCEPT ![s] = it]]
<1>1. h.me \in UserRecord /\ h.me.Object \in [Slots -> SlotRecord]
  BY HandFields
<1>2. [h.me.Object EXCEPT ![s] = it] \in [Slots -> SlotRecord]
  BY <1>1
<1>3. m \in UserRecord
  BY <1>1, <1>2 DEF UserRecord, SlotRecord
<1>4. g = [h EXCEPT !.me = m]
  BY <1>1 DEF Hands, UserRecord
<1>5. /\ m.Object = [h.me.Object EXCEPT ![s] = it] /\ m.Eqp = h.me.Eqp
      /\ m.CurrentInventorySlots = h.me.CurrentInventorySlots /\ m.GLD = h.me.GLD /\ m.Pos = h.me.Pos
  BY <1>1 DEF UserRecord
<1> HIDE DEF m, g
<1>6. g \in Hands /\ g.u = h.u /\ g.me = m /\ g.floor = h.floor
  BY <1>3, <1>4, WithMe
<1> QED BY <1>5, <1>6 DEF g

LEMMA WithEqp ==
  ASSUME NEW h \in Hands, NEW k \in EqTypes, NEW e \in EqpRecord
  PROVE  LET g == [h EXCEPT !.me.Eqp[k] = e]
         IN /\ g \in Hands /\ g.u = h.u /\ g.floor = h.floor
            /\ g.me.Eqp = [h.me.Eqp EXCEPT ![k] = e]
            /\ g.me.Object = h.me.Object /\ g.me.CurrentInventorySlots = h.me.CurrentInventorySlots
            /\ g.me.GLD = h.me.GLD /\ g.me.Pos = h.me.Pos
<1> DEFINE g == [h EXCEPT !.me.Eqp[k] = e]
           m == [h.me EXCEPT !.Eqp = [h.me.Eqp EXCEPT ![k] = e]]
<1>1. h.me \in UserRecord /\ h.me.Eqp \in [EqTypes -> EqpRecord]
  BY HandFields
<1>2. [h.me.Eqp EXCEPT ![k] = e] \in [EqTypes -> EqpRecord]
  BY <1>1
<1>3. m \in UserRecord
  BY <1>1, <1>2 DEF UserRecord, EqpRecord
<1>4. g = [h EXCEPT !.me = m]
  BY <1>1 DEF Hands, UserRecord
<1>5. /\ m.Eqp = [h.me.Eqp EXCEPT ![k] = e] /\ m.Object = h.me.Object
      /\ m.CurrentInventorySlots = h.me.CurrentInventorySlots /\ m.GLD = h.me.GLD /\ m.Pos = h.me.Pos
  BY <1>1 DEF UserRecord
<1> HIDE DEF m, g
<1>6. g \in Hands /\ g.u = h.u /\ g.me = m /\ g.floor = h.floor
  BY <1>3, <1>4, WithMe
<1> QED BY <1>5, <1>6 DEF g

LEMMA WithReach ==
  ASSUME NEW h \in Hands, NEW c \in MAX_NORMAL_INVENTORY_SLOTS..MAX_INVENTORY_SLOTS
  PROVE  LET g == [h EXCEPT !.me.CurrentInventorySlots = c]
         IN /\ g \in Hands /\ g.u = h.u /\ g.floor = h.floor
            /\ g.me.CurrentInventorySlots = c
            /\ g.me.Object = h.me.Object /\ g.me.Eqp = h.me.Eqp
<1> DEFINE g == [h EXCEPT !.me.CurrentInventorySlots = c]
           m == [h.me EXCEPT !.CurrentInventorySlots = c]
<1>1. h.me \in UserRecord
  BY HandFields
<1>3. m \in UserRecord
  BY <1>1 DEF UserRecord
<1>4. g = [h EXCEPT !.me = m]
  BY <1>1 DEF Hands, UserRecord
<1>5. m.CurrentInventorySlots = c /\ m.Object = h.me.Object /\ m.Eqp = h.me.Eqp
  BY <1>1 DEF UserRecord
<1> HIDE DEF m, g
<1>6. g \in Hands /\ g.u = h.u /\ g.me = m /\ g.floor = h.floor
  BY <1>3, <1>4, WithMe
<1> QED BY <1>5, <1>6 DEF g

\* Records of a slot.
LEMMA NoSlotFields ==
  NoSlot \in SlotRecord /\ NoSlot.ObjIndex = 0 /\ NoSlot.Amount = 0 /\ NoSlot.Equipped = FALSE
  BY DEF SlotRecord, NoSlot

LEMMA OtherAmount ==
  ASSUME NEW it \in SlotRecord, NEW n \in Int
  PROVE  LET new == [it EXCEPT !.Amount = n]
         IN new \in SlotRecord /\ new.Amount = n /\ new.ObjIndex = it.ObjIndex /\ new.Equipped = it.Equipped
  BY DEF SlotRecord

LEMMA OtherObject ==
  ASSUME NEW it \in SlotRecord, NEW n \in Int, NEW o \in {0} \union Objects
  PROVE  LET new == [it EXCEPT !.ObjIndex = o, !.Amount = n]
         IN new \in SlotRecord /\ new.Amount = n /\ new.ObjIndex = o /\ new.Equipped = it.Equipped
  BY DEF SlotRecord

LEMMA OtherMark ==
  ASSUME NEW it \in SlotRecord, NEW v \in BOOLEAN
  PROVE  LET new == [it EXCEPT !.Equipped = v]
         IN new \in SlotRecord /\ new.Amount = it.Amount /\ new.ObjIndex = it.ObjIndex /\ new.Equipped = v
  BY DEF SlotRecord

-------------------------------------------------------------------------------
(* The floor *)

LEMMA MakeObjType ==
  ASSUME NEW f \in Floor, NEW t \in Tiles, NEW o \in Objects, NEW n \in Int
  PROVE  /\ MakeObj(f, t, o, n) \in Floor
         /\ (FloorSound(f) /\ n >= 1 /\ f[t].Amount + n < Half) => FloorSound(MakeObj(f, t, o, n))
<1> DEFINE a == Wrap(f[t].Amount + n)
           pile == [ObjIndex |-> o, Amount |-> IF f[t].ObjIndex = o THEN a ELSE n]
<1>1. f[t] \in PileRecord /\ f[t].ObjIndex \in {0} \union Objects /\ f[t].Amount \in Int
  BY PileFields
<1>2. a \in Int /\ (f[t].Amount + n \in 0..(Half - 1) => a = f[t].Amount + n)
  BY <1>1, WrapRange
<1>3. f \in [Tiles -> PileRecord]
  BY DEF Floor, PileRecord
<1>4. MakeObj(f, t, o, n) = [f EXCEPT ![t] = pile]
  BY <1>3 DEF MakeObj
<1>5. pile \in PileRecord /\ pile.ObjIndex = o /\ pile.Amount \in {a, n} /\ (f[t].ObjIndex # o => pile.Amount = n)
  <2> HIDE DEF a
  <2> QED BY <1>1, <1>2 DEF PileRecord
<1> HIDE DEF pile, a
<1>6. MakeObj(f, t, o, n) \in Floor
  <2>1. [f EXCEPT ![t] = pile] \in [Tiles -> PileRecord]
    BY <1>3, <1>5
  <2> QED BY <1>4, <2>1 DEF Floor, PileRecord
<1>7. ASSUME FloorSound(f), n >= 1, f[t].Amount + n < Half PROVE FloorSound(MakeObj(f, t, o, n))
  <2>1. Whole(f[t])
    BY <1>7 DEF FloorSound
  <2>2. a = f[t].Amount + n
    BY <1>1, <1>2, <1>7, <2>1, HalfRange DEF Whole
  <2>3. Whole(pile)
    BY <1>1, <1>5, <1>7, <2>1, <2>2 DEF Whole
  <2>4. ASSUME NEW r \in Tiles PROVE Whole([f EXCEPT ![t] = pile][r])
    BY <1>3, <1>7, <2>3 DEF FloorSound
  <2> QED BY <1>4, <2>4 DEF FloorSound
<1> QED BY <1>6, <1>7

\* Erasing the whole pile.
LEMMA EraseAll ==
  ASSUME NEW f \in Floor, NEW t \in Tiles, FloorSound(f)
  PROVE  LET g == EraseObj(f, t, f[t].Amount)
         IN g \in Floor /\ FloorSound(g)
<1>1. f \in [Tiles -> PileRecord]
  BY DEF Floor, PileRecord
<1>2. f[t].Amount \in Int
  BY PileFields
<1>3. Wrap(f[t].Amount - f[t].Amount) = 0
  <2>1. f[t].Amount - f[t].Amount = 0 /\ 0 \in 0..(Half - 1)
    BY <1>2, HalfRange
  <2> QED BY <2>1, WrapRange
<1>4. EraseObj(f, t, f[t].Amount) = [f EXCEPT ![t] = Nothing]
  <2> DEFINE a == Wrap(f[t].Amount - f[t].Amount)
             rest == IF a <= 0 THEN Nothing ELSE [ObjIndex |-> f[t].ObjIndex, Amount |-> a]
  <2>1. EraseObj(f, t, f[t].Amount) = [f EXCEPT ![t] = rest]
    BY DEF EraseObj
  <2>2. rest = Nothing
    <3>1. a = 0
      BY <1>3
    <3> HIDE DEF a
    <3> QED BY <3>1
  <2> HIDE DEF rest
  <2> QED BY <2>1, <2>2
<1>5. Nothing \in PileRecord /\ Whole(Nothing)
  BY DEF Nothing, PileRecord, Whole
<1>6. [f EXCEPT ![t] = Nothing] \in [Tiles -> PileRecord]
  BY <1>1, <1>5
<1>7. \A r \in Tiles : Whole([f EXCEPT ![t] = Nothing][r])
  BY <1>1, <1>5 DEF FloorSound
<1> QED BY <1>4, <1>6, <1>7 DEF Floor, PileRecord, FloorSound

\* The scan ends at a tile that takes the units, or at none.
LEMMA TilelibreTakes ==
  ASSUME NEW f \in Floor, NEW pos \in Tiles, NEW o, NEW n \in Int
  PROVE  LET t == Tilelibre(f, pos, o, n)
         IN t \in {0} \union Tiles /\ (t # 0 => f[t].Amount + n <= MAX_INVENTORY_OBJS)
<1> DEFINE free == {t \in Tiles : f[t].ObjIndex \in {0, o} /\ f[t].Amount + n <= MAX_INVENTORY_OBJS}
           Away(t) == IF t < pos THEN pos - t ELSE t - pos
           Before(a, b) == Away(a) < Away(b) \/ (Away(a) = Away(b) /\ a <= b)
<1>0. Tiles \subseteq Nat \ {0}
  BY ItemsAssumption DEF Tiles
<1>1. Tilelibre(f, pos, o, n) = IF free = {} THEN 0 ELSE CHOOSE t \in free : \A s \in free : Before(t, s)
  BY DEF Tilelibre
<1>2. ASSUME free # {} PROVE \E t \in free : \A s \in free : Before(t, s)
  <2> DEFINE far == {d \in Nat : \E t \in free : Away(t) = d}
  <2>1. \A t \in free : t \in Nat /\ Away(t) \in Nat /\ Away(t) \in far
    BY <1>0
  <2> HIDE DEF free, Away
  <2>2. far \in SUBSET Nat /\ far # {}
    BY <1>2, <2>1
  <2>3. PICK d \in far : \A e \in far : d <= e
    <3> HIDE DEF far
    <3> QED BY <2>2, LeastOf
  <2> DEFINE near == {t \in free : Away(t) = d}
  <2>4. near \in SUBSET Nat /\ near # {}
    BY <2>1, <2>3
  <2>5. PICK t \in near : \A s \in near : t <= s
    <3> HIDE DEF near
    <3> QED BY <2>4, LeastOf
  <2>6. ASSUME NEW s \in free PROVE Before(t, s)
    <3>1. Away(s) \in Nat /\ Away(t) = d /\ d <= Away(s) /\ d \in Nat
      BY <2>1, <2>2, <2>3, <2>5
    <3>2. CASE Away(s) = d
      BY <2>5, <3>1, <3>2
    <3>3. CASE Away(s) # d
      BY <3>1, <3>3
    <3> QED BY <3>2, <3>3
  <2> QED BY <2>5, <2>6
<1>3. Tilelibre(f, pos, o, n) # 0 => Tilelibre(f, pos, o, n) \in free
  <2> HIDE DEF free, Before
  <2> QED BY <1>1, <1>2
<1>4. Tilelibre(f, pos, o, n) # 0 => Tilelibre(f, pos, o, n) \in Tiles /\ f[Tilelibre(f, pos, o, n)].Amount + n <= MAX_INVENTORY_OBJS
  BY <1>3
<1> QED BY <1>4

LEMMA TirarItemType ==
  ASSUME NEW f \in Floor, NEW pos \in Tiles, NEW o \in Objects, NEW n \in Nat \ {0}, FloorSound(f)
  PROVE  TirarItemAlPiso(f, pos, o, n) \in Floor /\ FloorSound(TirarItemAlPiso(f, pos, o, n))
<1> DEFINE t == Tilelibre(f, pos, o, n)
<1>1. t \in {0} \union Tiles /\ (t # 0 => f[t].Amount + n <= MAX_INVENTORY_OBJS)
  BY TilelibreTakes
<1>2. TirarItemAlPiso(f, pos, o, n) = IF t = 0 THEN f ELSE MakeObj(f, t, o, n)
  BY DEF TirarItemAlPiso
<1> HIDE DEF t
<1>3. CASE t = 0
  BY <1>2, <1>3
<1>4. CASE t # 0
  <2>1. t \in Tiles /\ n \in Int /\ n >= 1
    BY <1>1, <1>4
  <2>2. f[t].Amount \in Int
    BY <2>1, PileFields
  <2>3. f[t].Amount + n < Half
    BY <1>1, <1>4, <2>2, HalfRange
  <2> QED BY <1>2, <1>4, <2>1, <2>3, MakeObjType
<1> QED BY <1>3, <1>4

-------------------------------------------------------------------------------
(* Steps that keep a hand *)

\* No equipment field names the slot.
Free(me, s) == \A k \in Marking : me.Eqp[k].Slot # s

LEMMA KeptFields ==
  ASSUME NEW u, NEW F, NEW c, NEW b, NEW h \in Kept(u, F, c, b)
  PROVE  /\ h \in Hands /\ h.u = u /\ FloorSound(h.floor) /\ SlotsSound(h.me.Object)
         /\ MarksSound(h.me, F) /\ BagSound(h.me, c, b)
  BY DEF Kept

LEMMA KeptFloor ==
  ASSUME NEW u, NEW F, NEW c, NEW b, NEW h \in Kept(u, F, c, b), NEW f \in Floor, FloorSound(f)
  PROVE  [h EXCEPT !.floor = f] \in Kept(u, F, c, b)
<1> DEFINE g == [h EXCEPT !.floor = f]
<1>1. h \in Hands
  BY KeptFields
<1>2. g \in Hands /\ g.u = h.u /\ g.me = h.me /\ g.floor = f
  BY <1>1, WithFloor
<1> HIDE DEF g
<1>3. g \in Kept(u, F, c, b)
  BY <1>2, KeptFields DEF Kept
<1> QED BY <1>3 DEF g

\* A slot that is not marked, or holds what no field can name, is named by none.
LEMMA FreeSlot ==
  ASSUME NEW u, NEW F, NEW c, NEW b, NEW h \in Kept(u, F, c, b), NEW s \in Slots,
         \/ h.me.Object[s].ObjIndex = 0
         \/ ~h.me.Object[s].Equipped
         \/ Type(h.me.Object[s].ObjIndex) \notin Marking
         \/ s \in F
  PROVE  Free(h.me, s)
<1>1. MarksSound(h.me, F)
  BY KeptFields
<1>2. s # 0
  BY ItemsAssumption DEF Slots
<1> QED BY <1>1, <1>2 DEF MarksSound, Free

\* A slot that no field names may change, and one that is named keeps its object and its mark.
LEMMA KeptSlot ==
  ASSUME NEW u, NEW F, NEW c, NEW b, NEW h \in Kept(u, F, c, b),
         NEW s \in Slots, NEW it \in SlotRecord, SlotSound(it),
         \/ Free(h.me, s)
         \/ it.ObjIndex = h.me.Object[s].ObjIndex /\ (it.Equipped = h.me.Object[s].Equipped \/ it.Equipped = TRUE)
  PROVE  [h EXCEPT !.me.Object[s] = it] \in Kept(u, F, c, b)
<1> DEFINE g == [h EXCEPT !.me.Object[s] = it]
<1>1. /\ h \in Hands /\ h.u = u /\ FloorSound(h.floor) /\ SlotsSound(h.me.Object)
      /\ MarksSound(h.me, F) /\ BagSound(h.me, c, b)
  BY KeptFields
<1>2. /\ g \in Hands /\ g.u = h.u /\ g.floor = h.floor
      /\ g.me.Object = [h.me.Object EXCEPT ![s] = it]
      /\ g.me.Eqp = h.me.Eqp /\ g.me.CurrentInventorySlots = h.me.CurrentInventorySlots
  BY <1>1, WithSlot
<1> HIDE DEF g
<1>3. h.me.Object \in [Slots -> SlotRecord]
  BY <1>1, HandFields
<1>4. SlotsSound(g.me.Object)
  BY <1>1, <1>2, <1>3 DEF SlotsSound
<1>5. MarksSound(g.me, F)
  <2> SUFFICES ASSUME NEW k \in Marking, g.me.Eqp[k].Slot # 0
               PROVE  /\ g.me.Eqp[k].ObjIndex # 0 /\ Type(g.me.Eqp[k].ObjIndex) = k
                      /\ g.me.Object[g.me.Eqp[k].Slot].ObjIndex = g.me.Eqp[k].ObjIndex
                      /\ g.me.Object[g.me.Eqp[k].Slot].Equipped
                      /\ g.me.Eqp[k].Slot \notin F
    BY DEF MarksSound
  <2>1. /\ h.me.Eqp[k].ObjIndex # 0 /\ Type(h.me.Eqp[k].ObjIndex) = k
        /\ h.me.Object[h.me.Eqp[k].Slot].ObjIndex = h.me.Eqp[k].ObjIndex
        /\ h.me.Object[h.me.Eqp[k].Slot].Equipped
        /\ h.me.Eqp[k].Slot \notin F
    BY <1>1, <1>2 DEF MarksSound
  <2>2. h.me.Eqp[k].Slot \in Slots
    <3>1. k \in EqTypes
      BY DEF Marking
    <3>2. h.me.Eqp[k].Slot \in {0} \union Slots
      BY <1>1, <3>1, EqpFields
    <3> QED BY <1>2, <3>2
  <2>3. CASE h.me.Eqp[k].Slot = s
    <3>1. ~Free(h.me, s)
      BY <2>3 DEF Free
    <3>2. g.me.Object[s] = it
      BY <1>2, <1>3
    <3> QED BY <1>2, <2>1, <2>3, <3>1, <3>2
  <2>4. CASE h.me.Eqp[k].Slot # s
    <3>1. g.me.Object[h.me.Eqp[k].Slot] = h.me.Object[h.me.Eqp[k].Slot]
      BY <1>2, <1>3, <2>2, <2>4
    <3> QED BY <1>2, <2>1, <3>1
  <2> QED BY <2>3, <2>4
<1>6. BagSound(g.me, c, b)
  BY <1>1, <1>2 DEF BagSound
<1>7. g \in Kept(u, F, c, b)
  BY <1>1, <1>2, <1>4, <1>5, <1>6 DEF Kept
<1> QED BY <1>7 DEF g

-------------------------------------------------------------------------------
(* Taking off, taking from a slot, dropping *)

LEMMA KeptMore ==
  ASSUME NEW u, NEW F, NEW c, NEW b, NEW s, NEW h \in Kept(u, F \union {s}, c, b)
  PROVE  h \in Kept(u, F, c, b)
<1>1. MarksSound(h.me, F)
  BY KeptFields DEF MarksSound
<1> QED BY <1>1 DEF Kept

\* Unmarking changes no object and no amount, and leaves no field that names the slot.
LEMMA UnmarkedType ==
  ASSUME NEW h \in Hands, NEW s \in {0} \union Slots
  PROVE  LET g == Unmarked(h, s)
         IN /\ g \in Hands /\ g.u = h.u /\ g.floor = h.floor
            /\ g.me.CurrentInventorySlots = h.me.CurrentInventorySlots
            /\ \A r \in Slots : /\ g.me.Object[r].ObjIndex = h.me.Object[r].ObjIndex
                                /\ g.me.Object[r].Amount = h.me.Object[r].Amount
                                /\ r # s => g.me.Object[r] = h.me.Object[r]
            /\ \A k \in EqTypes : g.me.Eqp[k] = IF HeldIn(h, s) # 0 /\ Type(HeldIn(h, s)) = k
                                                THEN NotEqp ELSE h.me.Eqp[k]
<1> DEFINE o == HeldIn(h, s)
           bare == [h EXCEPT !.me.Object[s].Equipped = FALSE]
           it == [h.me.Object[s] EXCEPT !.Equipped = FALSE]
           off == [bare EXCEPT !.me.Eqp[Type(o)] = NotEqp]
           g == Unmarked(h, s)
<1>1. g = IF o = 0 THEN h ELSE IF Type(o) \notin EqTypes THEN bare ELSE off
  BY DEF Unmarked
<1>2. CASE o = 0
  BY <1>1, <1>2
<1>3. CASE o # 0
  <2>1. s \in Slots
    BY <1>3 DEF HeldIn
  <2>2. h.me.Object \in [Slots -> SlotRecord] /\ h.me.Object[s] \in SlotRecord
    BY <2>1, HandFields
  <2>3. it \in SlotRecord /\ it.Amount = h.me.Object[s].Amount /\ it.ObjIndex = h.me.Object[s].ObjIndex
    BY <2>2, OtherMark
  <2>4. bare = [h EXCEPT !.me.Object[s] = it]
    OBVIOUS
  <2> HIDE DEF it
  <2>5. /\ bare \in Hands /\ bare.u = h.u /\ bare.floor = h.floor
        /\ bare.me.Object = [h.me.Object EXCEPT ![s] = it]
        /\ bare.me.Eqp = h.me.Eqp /\ bare.me.CurrentInventorySlots = h.me.CurrentInventorySlots
    <3> HIDE DEF bare
    <3> QED BY <2>1, <2>3, <2>4, WithSlot
  <2>6. \A r \in Slots : /\ bare.me.Object[r].ObjIndex = h.me.Object[r].ObjIndex
                         /\ bare.me.Object[r].Amount = h.me.Object[r].Amount
                         /\ r # s => bare.me.Object[r] = h.me.Object[r]
    <3> HIDE DEF bare
    <3> QED BY <2>2, <2>3, <2>5
  <2> HIDE DEF bare
  <2>7. CASE Type(o) \notin EqTypes
    <3>1. g = bare
      BY <1>1, <1>3, <2>7
    <3> HIDE DEF g
    <3>2. \A k \in EqTypes : ~(HeldIn(h, s) # 0 /\ Type(HeldIn(h, s)) = k)
      BY <2>7
    <3> QED BY <2>5, <2>6, <3>1, <3>2 DEF g
  <2>8. CASE Type(o) \in EqTypes
    <3>1. g = off
      BY <1>1, <1>3, <2>8
    <3>2. NotEqp \in EqpRecord
      BY DEF NotEqp, EqpRecord
    <3>3. /\ off \in Hands /\ off.u = bare.u /\ off.floor = bare.floor
          /\ off.me.Eqp = [bare.me.Eqp EXCEPT ![Type(o)] = NotEqp]
          /\ off.me.Object = bare.me.Object /\ off.me.CurrentInventorySlots = bare.me.CurrentInventorySlots
      BY <2>5, <2>8, <3>2, WithEqp
    <3> HIDE DEF off, g
    <3>4. h.me.Eqp \in [EqTypes -> EqpRecord]
      BY HandFields
    <3>5. ASSUME NEW k \in EqTypes
          PROVE  off.me.Eqp[k] = IF HeldIn(h, s) # 0 /\ Type(HeldIn(h, s)) = k THEN NotEqp ELSE h.me.Eqp[k]
      BY <1>3, <2>5, <2>8, <3>3, <3>4
    <3> QED BY <2>5, <2>6, <3>1, <3>3, <3>5 DEF g
  <2> QED BY <2>7, <2>8
<1> QED BY <1>2, <1>3

LEMMA UnmarkedKeeps ==
  ASSUME NEW u, NEW F, NEW c, NEW b, NEW h \in Kept(u, F, c, b), NEW s \in {0} \union Slots
  PROVE  /\ ~IsBag(HeldIn(h, s)) => Unmarked(h, s) \in Kept(u, F \union {s}, c, b)
         /\ IsBag(HeldIn(h, s)) => Unmarked(h, s) \in Kept(u, F \union {s}, h.me.CurrentInventorySlots, NotEqp)
<1> DEFINE g == Unmarked(h, s)
           o == HeldIn(h, s)
<1>1. /\ h \in Hands /\ h.u = u /\ FloorSound(h.floor) /\ SlotsSound(h.me.Object)
      /\ MarksSound(h.me, F) /\ BagSound(h.me, c, b)
  BY KeptFields
<1>2. /\ g \in Hands /\ g.u = h.u /\ g.floor = h.floor
      /\ g.me.CurrentInventorySlots = h.me.CurrentInventorySlots
      /\ \A r \in Slots : /\ g.me.Object[r].ObjIndex = h.me.Object[r].ObjIndex
                          /\ g.me.Object[r].Amount = h.me.Object[r].Amount
                          /\ r # s => g.me.Object[r] = h.me.Object[r]
      /\ \A k \in EqTypes : g.me.Eqp[k] = IF o # 0 /\ Type(o) = k THEN NotEqp ELSE h.me.Eqp[k]
  BY <1>1, UnmarkedType
<1> HIDE DEF g
<1>3. SlotsSound(g.me.Object)
  BY <1>1, <1>2 DEF SlotsSound, SlotSound, Whole
<1>4. MarksSound(g.me, F \union {s})
  <2> SUFFICES ASSUME NEW k \in Marking, g.me.Eqp[k].Slot # 0
               PROVE  /\ g.me.Eqp[k].ObjIndex # 0 /\ Type(g.me.Eqp[k].ObjIndex) = k
                      /\ g.me.Object[g.me.Eqp[k].Slot].ObjIndex = g.me.Eqp[k].ObjIndex
                      /\ g.me.Object[g.me.Eqp[k].Slot].Equipped
                      /\ g.me.Eqp[k].Slot \notin F \union {s}
    BY DEF MarksSound
  <2>1. k \in EqTypes
    BY DEF Marking
  <2>2. g.me.Eqp[k] = h.me.Eqp[k] /\ ~(o # 0 /\ Type(o) = k)
    BY <1>2, <2>1 DEF NotEqp
  <2>3. /\ h.me.Eqp[k].ObjIndex # 0 /\ Type(h.me.Eqp[k].ObjIndex) = k
        /\ h.me.Object[h.me.Eqp[k].Slot].ObjIndex = h.me.Eqp[k].ObjIndex
        /\ h.me.Object[h.me.Eqp[k].Slot].Equipped
        /\ h.me.Eqp[k].Slot \notin F
    BY <1>1, <2>2 DEF MarksSound
  <2>4. h.me.Eqp[k].Slot \in Slots
    <3>1. h.me.Eqp[k].Slot \in {0} \union Slots
      BY <1>1, <2>1, EqpFields
    <3> QED BY <2>2, <3>1
  <2>5. h.me.Eqp[k].Slot # s
    <3>1. s \in Slots => o = h.me.Object[s].ObjIndex
      BY DEF HeldIn
    <3> QED BY <2>2, <2>3, <2>4, <3>1
  <2>6. g.me.Object[h.me.Eqp[k].Slot] = h.me.Object[h.me.Eqp[k].Slot]
    BY <1>2, <2>4, <2>5
  <2> QED BY <2>2, <2>3, <2>5, <2>6
<1>5. "otMochilas" \in EqTypes
  BY DEF EqTypes
<1>6. ASSUME ~IsBag(o) PROVE g \in Kept(u, F \union {s}, c, b)
  <2>1. g.me.Eqp["otMochilas"] = h.me.Eqp["otMochilas"]
    BY <1>2, <1>5, <1>6 DEF IsBag
  <2>2. BagSound(g.me, c, b)
    BY <1>1, <1>2, <2>1 DEF BagSound
  <2> QED BY <1>1, <1>2, <1>3, <1>4, <2>2 DEF Kept
<1>7. ASSUME IsBag(o) PROVE g \in Kept(u, F \union {s}, h.me.CurrentInventorySlots, NotEqp)
  <2>1. g.me.Eqp["otMochilas"] = NotEqp
    BY <1>2, <1>5, <1>7 DEF IsBag
  <2>2. BagSound(g.me, h.me.CurrentInventorySlots, NotEqp)
    BY <1>2, <2>1 DEF BagSound
  <2> QED BY <1>1, <1>2, <1>3, <1>4, <2>2 DEF Kept
<1> QED BY <1>6, <1>7 DEF g

LEMMA LessenedType ==
  ASSUME NEW it \in SlotRecord, NEW n \in Int
  PROVE  /\ Lessened(it, n) \in SlotRecord /\ SlotSound(Lessened(it, n))
         /\ it.Amount - n \in 1..(Half - 1) =>
              Lessened(it, n).ObjIndex = it.ObjIndex /\ Lessened(it, n).Equipped = it.Equipped
<1> DEFINE a == Wrap(it.Amount - n)
           less == [it EXCEPT !.Amount = a]
<1>0. it.Amount \in Int
  BY DEF SlotRecord
<1>1. a \in Int /\ a < Half /\ (it.Amount - n \in 0..(Half - 1) => a = it.Amount - n)
  BY <1>0, WrapRange
<1>2. Lessened(it, n) = IF a <= 0 THEN NoSlot ELSE less
  BY DEF Lessened
<1> HIDE DEF a
<1>3. less \in SlotRecord /\ less.Amount = a /\ less.ObjIndex = it.ObjIndex /\ less.Equipped = it.Equipped
  BY <1>1, OtherAmount
<1> HIDE DEF less
<1>4. CASE a <= 0
  <2>1. Lessened(it, n) = NoSlot
    BY <1>2, <1>4
  <2>2. ~(it.Amount - n \in 1..(Half - 1))
    BY <1>0, <1>1, <1>4, HalfRange
  <2>3. SlotSound(NoSlot)
    BY NoSlotFields, HalfRange DEF SlotSound, Whole
  <2> QED BY <2>1, <2>2, <2>3, NoSlotFields
<1>5. CASE ~(a <= 0)
  <2>1. Lessened(it, n) = less
    BY <1>2, <1>5
  <2>2. SlotSound(less)
    BY <1>1, <1>3, <1>5 DEF SlotSound, Whole
  <2> QED BY <1>3, <2>1, <2>2
<1> QED BY <1>4, <1>5

\* What Desequipar promises of any slot it is called for.
Good(off) ==
  /\ off \in [Calls -> Hands]
  /\ \A u, F, c, b : \A h \in Kept(u, F, c, b), s \in {0} \union Slots :
       off[<<h, s>>] \in Kept(u, F \union {s}, c, b)

LEMMA TakeFromType ==
  ASSUME NEW off \in [Calls -> Hands], NEW h \in Hands, NEW s \in Slots, NEW n \in Int
  PROVE  TakeFrom(off, h, s, n) \in Hands
<1> DEFINE bare == IF WornOut(h.me.Object[s], n) THEN off[<<h, s>>] ELSE h
           it == Lessened(bare.me.Object[s], n)
<1>1. bare \in Hands
  BY DEF Calls
<1>2. TakeFrom(off, h, s, n) = IF s \notin Within(h.me) THEN h ELSE [bare EXCEPT !.me.Object[s] = it]
  BY DEF TakeFrom
<1> HIDE DEF bare
<1>3. it \in SlotRecord
  BY <1>1, SlotFields, LessenedType
<1> HIDE DEF it
<1>4. [bare EXCEPT !.me.Object[s] = it] \in Hands
  BY <1>1, <1>3, WithSlot
<1> QED BY <1>2, <1>4

LEMMA TakeFromKeeps ==
  ASSUME NEW off, Good(off), NEW u, NEW F, NEW c, NEW b, NEW h \in Kept(u, F, c, b),
         NEW s \in Slots, NEW n \in Int, h.me.Object[s].Amount - n < Half
  PROVE  TakeFrom(off, h, s, n) \in Kept(u, F, c, b)
<1> DEFINE bare == IF WornOut(h.me.Object[s], n) THEN off[<<h, s>>] ELSE h
           it == Lessened(bare.me.Object[s], n)
<1>0. h \in Hands
  BY KeptFields
<1>1. WornOut(h.me.Object[s], n) => off[<<h, s>>] \in Kept(u, F \union {s}, c, b)
  BY DEF Good
<1>2. TakeFrom(off, h, s, n) = IF s \notin Within(h.me) THEN h ELSE [bare EXCEPT !.me.Object[s] = it]
  BY DEF TakeFrom
<1>3. bare \in Kept(u, F, c, b)
  BY <1>1, KeptMore
<1>4. bare \in Hands
  BY <1>3, KeptFields
<1>5. bare.me.Object[s] \in SlotRecord
  BY <1>4, SlotFields
<1>6. it \in SlotRecord /\ SlotSound(it)
  BY <1>5, LessenedType
<1>7. \/ Free(bare.me, s)
      \/ it.ObjIndex = bare.me.Object[s].ObjIndex /\ (it.Equipped = bare.me.Object[s].Equipped \/ it.Equipped = TRUE)
  <2>1. CASE WornOut(h.me.Object[s], n)
    <3>1. bare = off[<<h, s>>] /\ s \in F \union {s}
      BY <2>1
    <3> HIDE DEF bare
    <3>2. bare \in Kept(u, F \union {s}, c, b)
      BY <1>1, <2>1, <3>1
    <3> QED BY <3>1, <3>2, FreeSlot
  <2>2. CASE ~WornOut(h.me.Object[s], n)
    <3>1. bare = h
      BY <2>2
    <3>2. CASE ~h.me.Object[s].Equipped
      BY <3>1, <3>2, FreeSlot
    <3>3. CASE h.me.Object[s].Equipped
      <4>1. h.me.Object[s].Amount \in Int /\ h.me.Object[s] \in SlotRecord
        BY <1>0, SlotFields
      <4>2. h.me.Object[s].Amount > n
        BY <2>2, <3>3, <4>1 DEF WornOut
      <4>3. h.me.Object[s].Amount - n \in 1..(Half - 1)
        BY <4>1, <4>2, HalfRange
      <4> HIDE DEF bare
      <4>4. it.ObjIndex = h.me.Object[s].ObjIndex /\ it.Equipped = h.me.Object[s].Equipped
        BY <3>1, <4>1, <4>3, LessenedType
      <4> QED BY <3>1, <4>4
    <3> QED BY <3>2, <3>3
  <2> QED BY <2>1, <2>2
<1> HIDE DEF bare, it
<1>8. [bare EXCEPT !.me.Object[s] = it] \in Kept(u, F, c, b)
  BY <1>3, <1>6, <1>7, KeptSlot
<1> QED BY <1>2, <1>8

LEMMA LesserType ==
  ASSUME NEW a \in Int, NEW n \in Int
  PROVE  Lesser(a, n) \in Int /\ Lesser(a, n) <= a /\ Lesser(a, n) <= n /\ Lesser(a, n) \in {a, n}
  BY DEF Lesser

LEMMA DropFromType ==
  ASSUME NEW off \in [Calls -> Hands], NEW h \in Hands, NEW s \in Slots, NEW num \in Int, NEW t \in Tiles
  PROVE  DropFrom(off, h, s, num, t) \in Hands
<1> DEFINE it == h.me.Object[s]
           o == it.ObjIndex
           amount == Lesser(num, it.Amount)
           there == h.floor[t]
           taken == IF amount + there.Amount > MAX_INVENTORY_OBJS
                    THEN MAX_INVENTORY_OBJS - there.Amount ELSE amount
           laid == [h EXCEPT !.floor = MakeObj(h.floor, t, o, amount)]
<1>1. DropFrom(off, h, s, num, t) = h \/ (o # 0 /\ DropFrom(off, h, s, num, t) = TakeFrom(off, laid, s, taken))
  BY DEF DropFrom
<1>2. h.floor \in Floor /\ it.Amount \in Int /\ o \in {0} \union Objects
  BY HandFields, SlotFields
<1>3. there.Amount \in Int /\ amount \in Int /\ MAX_INVENTORY_OBJS \in Int
  <2>1. there.Amount \in Int
    BY <1>2, PileFields
  <2>2. amount \in Int
    BY <1>2, LesserType
  <2> QED BY <2>1, <2>2, HalfRange
<1>4. taken \in Int
  <2> HIDE DEF amount, there
  <2> QED BY <1>3
<1>5. ASSUME o # 0 PROVE laid \in Hands
  <2>1. MakeObj(h.floor, t, o, amount) \in Floor
    <3> HIDE DEF amount, o
    <3> QED BY <1>2, <1>3, <1>5, MakeObjType
  <2> QED BY <2>1, WithFloor
<1> HIDE DEF laid, taken, o
<1>6. o # 0 => TakeFrom(off, laid, s, taken) \in Hands
  BY <1>4, <1>5, TakeFromType
<1> QED BY <1>1, <1>6

\* Dropping keeps a hand, where the tile takes the units and what it takes too much leaves the
\* slot in the range of an amount.
LEMMA DropFromKeeps ==
  ASSUME NEW off, Good(off), NEW u, NEW F, NEW c, NEW b, NEW h \in Kept(u, F, c, b),
         NEW s \in Slots, NEW num \in Int, NEW t \in Tiles,
         h.floor[t].Amount + Lesser(num, h.me.Object[s].Amount) < Half,
         h.me.Object[s].Amount + h.floor[t].Amount < Half + MAX_INVENTORY_OBJS
  PROVE  DropFrom(off, h, s, num, t) \in Kept(u, F, c, b)
<1> DEFINE it == h.me.Object[s]
           o == it.ObjIndex
           amount == Lesser(num, it.Amount)
           there == h.floor[t]
           taken == IF amount + there.Amount > MAX_INVENTORY_OBJS
                    THEN MAX_INVENTORY_OBJS - there.Amount ELSE amount
           laid == [h EXCEPT !.floor = MakeObj(h.floor, t, o, amount)]
<1>0. h \in Hands /\ FloorSound(h.floor) /\ SlotsSound(h.me.Object)
  BY KeptFields
<1>1. \/ DropFrom(off, h, s, num, t) = h
      \/ o # 0 /\ ~(num <= 0) /\ DropFrom(off, h, s, num, t) = TakeFrom(off, laid, s, taken)
  BY DEF DropFrom
<1>2. h.floor \in Floor /\ it.Amount \in Int /\ o \in {0} \union Objects
  BY <1>0, HandFields, SlotFields
<1>3. there.Amount \in Int /\ amount \in Int /\ MAX_INVENTORY_OBJS \in Int
  <2>1. there.Amount \in Int
    BY <1>2, PileFields
  <2>2. amount \in Int
    BY <1>2, LesserType
  <2> QED BY <2>1, <2>2, HalfRange
<1>4. amount \in {num, it.Amount} /\ amount <= it.Amount
  BY <1>2, LesserType
<1>5. SlotSound(it)
  BY <1>0 DEF SlotsSound
<1>6. ASSUME o # 0, ~(num <= 0) PROVE laid \in Kept(u, F, c, b) /\ laid.me = h.me
  <2>1. amount >= 1
    <3>1. it.Amount >= 1
      BY <1>5, <1>6 DEF SlotSound, Whole
    <3> HIDE DEF amount
    <3> QED BY <1>3, <1>4, <1>6, <3>1
  <2>2. MakeObj(h.floor, t, o, amount) \in Floor /\ FloorSound(MakeObj(h.floor, t, o, amount))
    <3>1. h.floor[t].Amount + amount < Half
      OBVIOUS
    <3> HIDE DEF amount, o
    <3> QED BY <1>0, <1>2, <1>3, <1>6, <2>1, <3>1, MakeObjType
  <2>3. laid \in Kept(u, F, c, b)
    BY <2>2, KeptFloor
  <2> QED BY <1>0, <2>2, <2>3, WithFloor
<1>7. ASSUME ~(num <= 0) PROVE taken \in Int /\ it.Amount - taken < Half
  <2>1. it.Amount >= 0 /\ it.Amount < Half /\ Half \in Int /\ it.Amount + there.Amount < Half + MAX_INVENTORY_OBJS
    BY <1>5, HalfRange DEF SlotSound, Whole
  <2>2. amount >= 0
    BY <1>4, <1>7, <2>1
  <2>3. CASE taken = amount
    <3> HIDE DEF it, there, taken, amount
    <3> QED BY <1>2, <1>3, <2>1, <2>2, <2>3
  <2>4. CASE taken = MAX_INVENTORY_OBJS - there.Amount
    <3> HIDE DEF it, there, taken, amount
    <3> QED BY <1>2, <1>3, <2>1, <2>4
  <2> QED BY <2>3, <2>4
<1> HIDE DEF laid, taken
<1>8. (o # 0 /\ ~(num <= 0)) => TakeFrom(off, laid, s, taken) \in Kept(u, F, c, b)
  BY <1>6, <1>7, TakeFromKeeps
<1> QED BY <1>1, <1>8

LEMMA DropEachIs ==
  ASSUME NEW off, NEW h, NEW first, NEW Falls
  PROVE  DropEach(off, h, first, Falls) =
           Walked(h, MAX_INVENTORY_SLOTS, [s \in Slots |-> [g \in Hands |->
             IF /\ s >= first /\ s \in Within(g.me) /\ g.me.Object[s].ObjIndex \in Falls
                /\ Tilelibre(g.floor, g.me.Pos, g.me.Object[s].ObjIndex, g.me.Object[s].Amount) # 0
             THEN DropFrom(off, g, s, MAX_INVENTORY_OBJS,
                           Tilelibre(g.floor, g.me.Pos, g.me.Object[s].ObjIndex, g.me.Object[s].Amount))
             ELSE g]])
  BY DEF DropEach

LEMMA DropEachType ==
  ASSUME NEW off \in [Calls -> Hands], NEW h \in Hands, NEW first, NEW Falls
  PROVE  DropEach(off, h, first, Falls) \in Hands
<1> DEFINE At(g, s) == Tilelibre(g.floor, g.me.Pos, g.me.Object[s].ObjIndex, g.me.Object[s].Amount)
           Stays(g, s) == ~(/\ s >= first /\ s \in Within(g.me) /\ g.me.Object[s].ObjIndex \in Falls
                            /\ At(g, s) # 0)
           step == [s \in Slots |-> [g \in Hands |->
                      IF ~Stays(g, s) THEN DropFrom(off, g, s, MAX_INVENTORY_OBJS, At(g, s)) ELSE g]]
<1>1. DropEach(off, h, first, Falls) = Walked(h, MAX_INVENTORY_SLOTS, step)
  BY DropEachIs
<1>2. ASSUME NEW s \in Slots, NEW g \in Hands PROVE step[s][g] \in Hands
  <2>1. CASE Stays(g, s)
    BY <2>1
  <2>2. CASE ~Stays(g, s)
    <3>1. g.floor \in Floor /\ g.me.Pos \in Tiles /\ g.me.Object[s].Amount \in Int /\ MAX_INVENTORY_OBJS \in Int
      BY HandFields, SlotFields, HalfRange
    <3>2. At(g, s) \in Tiles
      BY <2>2, <3>1, TilelibreTakes
    <3>3. DropFrom(off, g, s, MAX_INVENTORY_OBJS, At(g, s)) \in Hands
      <4> HIDE DEF At
      <4> QED BY <3>1, <3>2, DropFromType
    <3> HIDE DEF At, Stays
    <3> QED BY <2>2, <3>3
  <2> QED BY <2>1, <2>2
<1>3. MAX_INVENTORY_SLOTS \in Nat /\ Slots = 1..MAX_INVENTORY_SLOTS
  BY ItemsAssumption DEF Slots
<1> HIDE DEF step
<1>4. Walked(h, MAX_INVENTORY_SLOTS, step) \in Hands
  BY <1>2, <1>3, WalkedKeeps
<1> QED BY <1>1, <1>4

LEMMA DropEachKeeps ==
  ASSUME NEW off, Good(off), NEW u, NEW F, NEW c, NEW b, NEW h \in Kept(u, F, c, b),
         NEW first, NEW Falls
  PROVE  DropEach(off, h, first, Falls) \in Kept(u, F, c, b)
<1> DEFINE At(g, s) == Tilelibre(g.floor, g.me.Pos, g.me.Object[s].ObjIndex, g.me.Object[s].Amount)
           Stays(g, s) == ~(/\ s >= first /\ s \in Within(g.me) /\ g.me.Object[s].ObjIndex \in Falls
                            /\ At(g, s) # 0)
           step == [s \in Slots |-> [g \in Hands |->
                      IF ~Stays(g, s) THEN DropFrom(off, g, s, MAX_INVENTORY_OBJS, At(g, s)) ELSE g]]
<1>1. DropEach(off, h, first, Falls) = Walked(h, MAX_INVENTORY_SLOTS, step)
  BY DropEachIs
<1>2. ASSUME NEW s \in Slots, NEW g \in Kept(u, F, c, b) PROVE step[s][g] \in Kept(u, F, c, b)
  <2>0. g \in Hands /\ SlotsSound(g.me.Object)
    BY KeptFields
  <2>1. CASE Stays(g, s)
    BY <2>0, <2>1
  <2>2. CASE ~Stays(g, s)
    <3>1. g.floor \in Floor /\ g.me.Pos \in Tiles /\ g.me.Object[s].Amount \in Int /\ MAX_INVENTORY_OBJS \in Int
      BY <2>0, HandFields, SlotFields, HalfRange
    <3>2. At(g, s) \in Tiles /\ g.floor[At(g, s)].Amount + g.me.Object[s].Amount <= MAX_INVENTORY_OBJS
      BY <2>2, <3>1, TilelibreTakes
    <3>3. DropFrom(off, g, s, MAX_INVENTORY_OBJS, At(g, s)) \in Kept(u, F, c, b)
      <4> DEFINE t == At(g, s)
                 amount == Lesser(MAX_INVENTORY_OBJS, g.me.Object[s].Amount)
      <4>1. t \in Tiles /\ g.floor[t].Amount + g.me.Object[s].Amount <= MAX_INVENTORY_OBJS
        BY <3>2
      <4> HIDE DEF t
      <4>2. g.floor[t].Amount \in Int
        BY <3>1, <4>1, PileFields
      <4>3. amount \in Int /\ amount <= g.me.Object[s].Amount
        BY <3>1, LesserType
      <4>4. g.floor[t].Amount + amount < Half /\ g.me.Object[s].Amount + g.floor[t].Amount < Half + MAX_INVENTORY_OBJS
        <5> HIDE DEF amount
        <5> QED BY <3>1, <4>1, <4>2, <4>3, HalfRange
      <4>5. DropFrom(off, g, s, MAX_INVENTORY_OBJS, t) \in Kept(u, F, c, b)
        BY <3>1, <4>1, <4>4, DropFromKeeps
      <4> QED BY <4>5 DEF t
    <3> HIDE DEF At, Stays
    <3> QED BY <2>0, <2>2, <3>3
  <2> QED BY <2>1, <2>2
<1>3. MAX_INVENTORY_SLOTS \in Nat /\ Slots = 1..MAX_INVENTORY_SLOTS
  BY ItemsAssumption DEF Slots
<1> HIDE DEF step
<1>4. Walked(h, MAX_INVENTORY_SLOTS, step) \in Kept(u, F, c, b)
  BY <1>2, <1>3, WalkedKeeps
<1> QED BY <1>1, <1>4

-------------------------------------------------------------------------------
(* Desequipar exists, and keeps a hand *)

Emptied(f, k, h, s) ==
  IF k = 0 THEN Unmarked(h, s) ELSE TirarTodosLosItemsEnMochila(f, Unmarked(h, s))

\* One call of Desequipar, when the calls it makes are those of f.
Turn(f, k, c) ==
  IF ~IsBag(HeldIn(c[1], c[2])) THEN Unmarked(c[1], c[2])
  ELSE [Emptied(f, k, c[1], c[2]) EXCEPT !.me.CurrentInventorySlots = SlotsWithoutBag(c[1].me)]

LEMMA EmptiedKeeps ==
  ASSUME NEW f, NEW k, k = 0 \/ Good(f), NEW h \in Hands, NEW s \in {0} \union Slots
  PROVE  /\ Emptied(f, k, h, s) \in Hands
         /\ \A u, F, c, b : (h \in Kept(u, F, c, b) /\ IsBag(HeldIn(h, s))) =>
              Emptied(f, k, h, s) \in Kept(u, F \union {s}, h.me.CurrentInventorySlots, NotEqp)
<1> DEFINE off == Unmarked(h, s)
           first == MAX_NORMAL_INVENTORY_SLOTS + 1
           g == Emptied(f, k, h, s)
<1>1. off \in Hands
  BY UnmarkedType
<1>2. g = off \/ (k # 0 /\ g = DropEach(f, off, first, Falling))
  BY DEF Emptied, TirarTodosLosItemsEnMochila
<1>3. g \in Hands
  <2>1. CASE g = off
    BY <1>1, <2>1
  <2>2. CASE k # 0 /\ g = DropEach(f, off, first, Falling)
    <3>1. f \in [Calls -> Hands]
      BY <2>2 DEF Good
    <3> HIDE DEF off, first, g
    <3> QED BY <1>1, <2>2, <3>1, DropEachType
  <2> QED BY <1>2, <2>1, <2>2
<1>4. ASSUME NEW u, NEW F, NEW c, NEW b, h \in Kept(u, F, c, b), IsBag(HeldIn(h, s))
      PROVE  g \in Kept(u, F \union {s}, h.me.CurrentInventorySlots, NotEqp)
  <2>1. off \in Kept(u, F \union {s}, h.me.CurrentInventorySlots, NotEqp)
    BY <1>4, UnmarkedKeeps
  <2> DEFINE G == F \union {s}
             r == h.me.CurrentInventorySlots
  <2>2. CASE g = off
    BY <2>1, <2>2
  <2>3. CASE k # 0 /\ g = DropEach(f, off, first, Falling)
    <3>1. Good(f) /\ off \in Kept(u, G, r, NotEqp)
      BY <2>1, <2>3
    <3> HIDE DEF off, first, g, G, r
    <3>2. DropEach(f, off, first, Falling) \in Kept(u, G, r, NotEqp)
      BY <3>1, DropEachKeeps
    <3>3. g \in Kept(u, G, r, NotEqp)
      BY <2>3, <3>2
    <3> QED BY <3>3 DEF G, r
  <2> QED BY <1>2, <2>2, <2>3
<1> QED BY <1>3, <1>4

LEMMA TurnKeeps ==
  ASSUME NEW f, NEW k, k = 0 \/ Good(f)
  PROVE  Good([c \in Calls |-> Turn(f, k, c)])
<1> DEFINE off == [c \in Calls |-> Turn(f, k, c)]
<1>1. MAX_NORMAL_INVENTORY_SLOTS \in MAX_NORMAL_INVENTORY_SLOTS..MAX_INVENTORY_SLOTS
  BY ItemsAssumption
<1>2. ASSUME NEW h \in Hands, NEW s \in {0} \union Slots
      PROVE  /\ Turn(f, k, <<h, s>>) \in Hands
             /\ \A u, F, c, b : h \in Kept(u, F, c, b) => Turn(f, k, <<h, s>>) \in Kept(u, F \union {s}, c, b)
  <2> DEFINE g == Emptied(f, k, h, s)
             bare == [g EXCEPT !.me.CurrentInventorySlots = MAX_NORMAL_INVENTORY_SLOTS]
  <2>1. Turn(f, k, <<h, s>>) = IF ~IsBag(HeldIn(h, s)) THEN Unmarked(h, s) ELSE bare
    BY DEF Turn, SlotsWithoutBag
  <2>2. g \in Hands
    BY EmptiedKeeps
  <2>3. /\ bare \in Hands /\ bare.u = g.u /\ bare.floor = g.floor
        /\ bare.me.CurrentInventorySlots = MAX_NORMAL_INVENTORY_SLOTS
        /\ bare.me.Object = g.me.Object /\ bare.me.Eqp = g.me.Eqp
    <3> HIDE DEF g
    <3> QED BY <1>1, <2>2, WithReach
  <2>4. ASSUME NEW u, NEW F, NEW c, NEW b, h \in Kept(u, F, c, b), IsBag(HeldIn(h, s))
        PROVE  bare \in Kept(u, F \union {s}, c, b)
    <3>1. g \in Kept(u, F \union {s}, h.me.CurrentInventorySlots, NotEqp)
      BY <2>4, EmptiedKeeps
    <3> HIDE DEF g, bare
    <3>2. /\ g.u = u /\ FloorSound(g.floor) /\ SlotsSound(g.me.Object)
          /\ MarksSound(g.me, F \union {s}) /\ BagSound(g.me, h.me.CurrentInventorySlots, NotEqp)
      BY <3>1 DEF Kept
    <3>3. MarksSound(bare.me, F \union {s})
      BY <2>3, <3>2 DEF MarksSound
    <3>4. BagSound(bare.me, c, b)
      BY <2>3, <3>2 DEF BagSound
    <3> QED BY <2>3, <3>2, <3>3, <3>4 DEF Kept
  <2> HIDE DEF g, bare
  <2>5. Unmarked(h, s) \in Hands
    BY UnmarkedType
  <2>6. ASSUME NEW u, NEW F, NEW c, NEW b, h \in Kept(u, F, c, b)
        PROVE  Turn(f, k, <<h, s>>) \in Kept(u, F \union {s}, c, b)
    <3>1. ~IsBag(HeldIn(h, s)) => Unmarked(h, s) \in Kept(u, F \union {s}, c, b)
      BY <2>6, UnmarkedKeeps
    <3> QED BY <2>1, <2>4, <2>6, <3>1
  <2> QED BY <2>1, <2>3, <2>5, <2>6
<1>3. off \in [Calls -> Hands]
  <2>1. ASSUME NEW c \in Calls PROVE Turn(f, k, c) \in Hands
    <3>1. c[1] \in Hands /\ c[2] \in {0} \union Slots /\ c = <<c[1], c[2]>>
      BY DEF Calls
    <3>2. Turn(f, k, <<c[1], c[2]>>) \in Hands
      BY <1>2, <3>1
    <3> QED BY <3>1, <3>2
  <2> QED BY <2>1
<1>4. ASSUME NEW h \in Hands, NEW s \in {0} \union Slots PROVE off[<<h, s>>] = Turn(f, k, <<h, s>>)
  BY DEF Calls
<1> HIDE DEF off
<1>5. ASSUME NEW u, NEW F, NEW c, NEW b, NEW h \in Kept(u, F, c, b), NEW s \in {0} \union Slots
      PROVE  off[<<h, s>>] \in Kept(u, F \union {s}, c, b)
  <2>1. h \in Hands
    BY KeptFields
  <2> QED BY <1>2, <1>4, <2>1
<1>6. Good(off)
  BY <1>3, <1>5 DEF Good
<1> QED BY <1>6 DEF off

\* The nested calls are those of a function, which keeps hands, and only unmarks a slot that
\* holds no backpack.
LEMMA DesequiparGood ==
  /\ Good(DesequiparTo)
  /\ \A h \in Hands, s \in {0} \union Slots :
       ~IsBag(HeldIn(h, s)) => Desequipar(h, s) = Unmarked(h, s)
<1> DEFINE D == {f \in [Calls -> Hands] : Good(f)}
           d0 == [c \in Calls |-> Turn(0, 0, c)]
           step == [k \in 1..MAX_INVENTORY_SLOTS |-> [f \in D |-> [c \in Calls |-> Turn(f, k, c)]]]
           Fits(f) == f = [k \in Depths |-> [c \in Calls |-> Turn(f[k - 1], k, c)]]
           nested == CHOOSE f : Fits(f)
           n == MAX_INVENTORY_SLOTS
<1>0. n \in Nat /\ n >= 1 /\ n - 1 \in 0..n /\ n \in 1..n
  BY ItemsAssumption
<1>1. d0 \in D
  <2>1. Good(d0)
    BY TurnKeeps
  <2> QED BY <2>1 DEF Good
<1>2. step \in [1..n -> [D -> D]]
  <2>1. ASSUME NEW k \in 1..n, NEW f \in D PROVE [c \in Calls |-> Turn(f, k, c)] \in D
    <3>1. Good([c \in Calls |-> Turn(f, k, c)])
      BY TurnKeeps
    <3> QED BY <3>1 DEF Good
  <2> HIDE DEF D
  <2> QED BY <2>1
<1>3. PICK g \in [0..n -> D] : g[0] = d0 /\ \A k \in 1..n : g[k] = step[k][g[k - 1]]
  <2> HIDE DEF D, d0, step
  <2> QED BY ONLY <1>0, <1>1, <1>2, WalkExists
<1>4. ASSUME NEW k \in 0..n PROVE g[k] = [c \in Calls |-> Turn(g[k - 1], k, c)]
  <2>1. CASE k = 0
    <3>1. \A c \in Calls : Turn(0, 0, c) = Turn(g[0 - 1], 0, c)
      BY DEF Turn, Emptied
    <3> QED BY <1>3, <2>1, <3>1
  <2>2. CASE k # 0
    <3>1. k \in 1..n /\ k - 1 \in 0..n
      BY <1>0, <2>2
    <3>2. g[k - 1] \in D
      BY <1>3, <3>1
    <3>3. step[k][g[k - 1]] = [c \in Calls |-> Turn(g[k - 1], k, c)]
      <4> HIDE DEF D
      <4> QED BY <3>1, <3>2
    <3> QED BY <1>3, <3>1, <3>3
  <2> QED BY <2>1, <2>2
<1>5. Fits(g)
  <2> HIDE DEF D
  <2>1. g = [k \in 0..n |-> g[k]]
    BY <1>3
  <2> QED BY <1>4, <2>1 DEF Depths
<1>6. Fits(nested)
  <2> HIDE DEF Fits
  <2> QED BY <1>5
<1>7. DesequiparTo = nested[n]
  BY DEF DesequiparTo, Turn, Emptied
<1> HIDE DEF nested
<1>8. \A k \in 0..n : nested[k] = [c \in Calls |-> Turn(nested[k - 1], k, c)]
  BY <1>6 DEF Depths
<1> HIDE DEF Fits, D, d0, step
<1> DEFINE T == {k \in 0..n : Good(nested[k])}
<1>9. 0 \in T
  <2>1. nested[0] = [c \in Calls |-> Turn(nested[0 - 1], 0, c)]
    BY <1>0, <1>8
  <2>2. Good([c \in Calls |-> Turn(nested[0 - 1], 0, c)])
    BY TurnKeeps
  <2> QED BY <1>0, <2>1, <2>2
<1>10. ASSUME NEW k \in 1..n, k - 1 \in T PROVE k \in T
  <2>1. nested[k] = [c \in Calls |-> Turn(nested[k - 1], k, c)]
    BY <1>8
  <2>2. Good([c \in Calls |-> Turn(nested[k - 1], k, c)])
    BY <1>10, TurnKeeps
  <2> QED BY <2>1, <2>2
<1>11. Good(nested[n])
  <2>1. \A k \in 0..n : k \in T
    <3> HIDE DEF T
    <3> QED BY <1>0, <1>9, <1>10, AlongIndices
  <2> QED BY <1>0, <2>1
<1>12. ASSUME NEW h \in Hands, NEW s \in {0} \union Slots, ~IsBag(HeldIn(h, s))
       PROVE  Desequipar(h, s) = Unmarked(h, s)
  <2>1. nested[n][<<h, s>>] = Turn(nested[n - 1], n, <<h, s>>)
    <3>1. nested[n] = [c \in Calls |-> Turn(nested[n - 1], n, c)]
      BY <1>0, <1>8
    <3>2. <<h, s>> \in Calls
      BY DEF Calls
    <3> QED BY <3>1, <3>2
  <2>2. Turn(nested[n - 1], n, <<h, s>>) = Unmarked(h, s)
    BY <1>12 DEF Turn
  <2> QED BY <1>7, <2>1, <2>2 DEF Desequipar
<1> QED BY <1>7, <1>11, <1>12

LEMMA DesequiparKeeps ==
  ASSUME NEW u, NEW F, NEW c, NEW b, NEW h \in Kept(u, F, c, b), NEW s \in {0} \union Slots
  PROVE  Desequipar(h, s) \in Kept(u, F \union {s}, c, b) /\ Desequipar(h, s) \in Kept(u, F, c, b)
<1>1. Desequipar(h, s) = DesequiparTo[<<h, s>>]
  BY DEF Desequipar
<1>2. DesequiparTo[<<h, s>>] \in Kept(u, F \union {s}, c, b)
  BY DesequiparGood DEF Good
<1> QED BY <1>1, <1>2, KeptMore

LEMMA QuitarItemKeeps ==
  ASSUME NEW u, NEW F, NEW c, NEW b, NEW h \in Kept(u, F, c, b), NEW s \in Slots, NEW n \in Nat
  PROVE  QuitarUserInvItem(h, s, n) \in Kept(u, F, c, b)
<1>1. h \in Hands /\ SlotSound(h.me.Object[s])
  BY KeptFields DEF SlotsSound
<1>2. h.me.Object[s].Amount \in Int
  BY <1>1, SlotFields
<1>3. h.me.Object[s].Amount - n < Half
  BY <1>1, <1>2, HalfRange DEF SlotSound
<1>4. n \in Int
  OBVIOUS
<1>5. TakeFrom(DesequiparTo, h, s, n) \in Kept(u, F, c, b)
  BY <1>3, <1>4, DesequiparGood, TakeFromKeeps
<1> QED BY <1>5 DEF QuitarUserInvItem

\* Into a slot that holds the object, or nothing.
LEMMA HoldKeeps ==
  ASSUME NEW u, NEW F, NEW c, NEW b, NEW h \in Kept(u, F, c, b), NEW s \in Slots, NEW o \in {0} \union Objects,
         NEW n \in 0..(Half - 1), o # 0 => n >= 1,
         Free(h.me, s) \/ h.me.Object[s].ObjIndex = o
  PROVE  [h EXCEPT !.me.Object[s] = Holding(h.me.Object[s], o, n)] \in Kept(u, F, c, b)
<1> DEFINE it == Holding(h.me.Object[s], o, n)
<1>1. h \in Hands
  BY KeptFields
<1>2. h.me.Object[s] \in SlotRecord /\ n \in Int
  BY <1>1, SlotFields, HalfRange
<1>3. it \in SlotRecord /\ it.Amount = n /\ it.ObjIndex = o /\ it.Equipped = h.me.Object[s].Equipped
  BY <1>2, OtherObject DEF Holding
<1> HIDE DEF it
<1>4. SlotSound(it)
  BY <1>3, HalfRange DEF SlotSound, Whole
<1>5. [h EXCEPT !.me.Object[s] = it] \in Kept(u, F, c, b)
  BY <1>3, <1>4, KeptSlot
<1> QED BY <1>5 DEF it

LEMMA WithinSlots ==
  ASSUME NEW h \in Hands
  PROVE  Within(h.me) \subseteq Slots /\ Slots \subseteq Nat \ {0}
<1>1. h.me.CurrentInventorySlots \in MAX_NORMAL_INVENTORY_SLOTS..MAX_INVENTORY_SLOTS
  BY HandFields
<1> QED BY <1>1, ItemsAssumption DEF Within, Slots

LEMMA MeterSlotTakes ==
  ASSUME NEW h \in Hands, NEW o, NEW n
  PROVE  LET s == MeterSlot(h.me, o, n)
         IN s # 0 => s \in Slots /\ h.me.Object[s].ObjIndex \in {0, o}
<1> DEFINE S == IF HasRoom(h.me, o, n) # {} THEN HasRoom(h.me, o, n) ELSE FreeSlots(h.me)
<1>1. MeterSlot(h.me, o, n) # 0 => S # {} /\ MeterSlot(h.me, o, n) = Min(S)
  BY DEF MeterSlot
<1>2. \A s \in S : s \in Slots /\ s \in Nat /\ h.me.Object[s].ObjIndex \in {0, o}
  BY WithinSlots DEF HasRoom, FreeSlots
<1> HIDE DEF S
<1>3. S # {} => Min(S) \in S
  BY <1>2, MinOf
<1> QED BY <1>1, <1>2, <1>3

LEMMA MeterItemKeeps ==
  ASSUME NEW u, NEW F, NEW c, NEW b, NEW h \in Kept(u, F, c, b), NEW o \in Objects, NEW n \in Nat \ {0}
  PROVE  [h EXCEPT !.me = MeterItemEnInventario(h.me, o, n)] \in Kept(u, F, c, b)
<1> DEFINE s == MeterSlot(h.me, o, n)
           a == Lesser(MAX_INVENTORY_OBJS, h.me.Object[s].Amount + n)
           it == Holding(h.me.Object[s], o, a)
           m == MeterItemEnInventario(h.me, o, n)
<1>0. h \in Hands /\ SlotsSound(h.me.Object)
  BY KeptFields
<1>1. s # 0 => s \in Slots /\ h.me.Object[s].ObjIndex \in {0, o}
  BY <1>0, MeterSlotTakes
<1>2. m = IF s = 0 THEN h.me ELSE [h.me EXCEPT !.Object[s] = it]
  BY DEF MeterItemEnInventario
<1> HIDE DEF m, s
<1>3. CASE s = 0
  <2>1. m = h.me
    BY <1>2, <1>3
  <2>2. h.me \in UserRecord
    BY <1>0, HandFields
  <2>3. [h EXCEPT !.me = h.me] = h
    BY <1>0 DEF Hands
  <2> QED BY <2>1, <2>3 DEF m
<1>4. CASE s # 0
  <2>1. s \in Slots
    BY <1>1, <1>4
  <2>2. h.me.Object[s].Amount \in Int /\ h.me.Object[s].Amount >= 0
    BY <1>0, <2>1, SlotFields DEF SlotsSound, SlotSound, Whole
  <2>3. a \in Int /\ a <= MAX_INVENTORY_OBJS /\ a >= 1
    <3>1. h.me.Object[s].Amount + n \in Int /\ h.me.Object[s].Amount + n >= 1
      BY <2>2
    <3>2. MAX_INVENTORY_OBJS \in Int /\ MAX_INVENTORY_OBJS >= 1
      BY HalfRange
    <3> QED BY <3>1, <3>2 DEF Lesser
  <2>4. a \in 0..(Half - 1) /\ o \in {0} \union Objects
    <3> HIDE DEF a
    <3> QED BY <2>3, HalfRange
  <2>5. Free(h.me, s) \/ h.me.Object[s].ObjIndex = o
    BY <1>1, <1>4, <2>1, FreeSlot
  <2>6. [h EXCEPT !.me.Object[s] = it] \in Kept(u, F, c, b)
    <3> HIDE DEF a
    <3> QED BY <2>1, <2>3, <2>4, <2>5, HoldKeeps
  <2>7. [h EXCEPT !.me = m] = [h EXCEPT !.me.Object[s] = it]
    <3>1. m = [h.me EXCEPT !.Object[s] = it]
      BY <1>2, <1>4
    <3> HIDE DEF it
    <3> QED BY <1>0, <3>1 DEF Hands, UserRecord
  <2> QED BY <2>6, <2>7 DEF m
<1> QED BY <1>3, <1>4

LEMMA PutItemKeeps ==
  ASSUME NEW u, NEW F, NEW c, NEW b, NEW h \in Kept(u, F, c, b), NEW o \in Objects, NEW n \in Nat \ {0}
  PROVE  PutItemInInv(h, o, n) \in Kept(u, F, c, b)
<1> DEFINE f == TirarItemAlPiso(h.floor, h.me.Pos, o, n)
<1>1. h \in Hands /\ FloorSound(h.floor)
  BY KeptFields
<1>2. h.floor \in Floor /\ h.me.Pos \in Tiles
  BY <1>1, HandFields
<1>3. f \in Floor /\ FloorSound(f)
  BY <1>1, <1>2, TirarItemType
<1>4. PutItemInInv(h, o, n) \in {[h EXCEPT !.me = MeterItemEnInventario(h.me, o, n)], [h EXCEPT !.floor = f]}
  BY DEF PutItemInInv
<1> HIDE DEF f
<1>5. [h EXCEPT !.floor = f] \in Kept(u, F, c, b)
  BY <1>3, KeptFloor
<1> QED BY <1>4, <1>5, MeterItemKeeps

LEMMA DropTodosKeeps ==
  ASSUME NEW u, NEW F, NEW c, NEW b, NEW h \in Kept(u, F, c, b)
  PROVE  /\ TirarTodosLosItems(h) \in Kept(u, F, c, b)
         /\ TirarTodosLosItemsNoNewbies(h) \in Kept(u, F, c, b)
<1>1. Good(DesequiparTo)
  BY DesequiparGood
<1> QED BY <1>1, DropEachKeeps DEF TirarTodosLosItems, TirarTodosLosItemsNoNewbies

LEMMA DesequiparTipoKeeps ==
  ASSUME NEW u, NEW F, NEW c, NEW b, NEW h \in Kept(u, F, c, b), NEW k \in EqTypes
  PROVE  DesequiparTipo(h, k) \in Kept(u, F, c, b)
<1>1. h.me.Eqp[k].Slot \in {0} \union Slots
  BY KeptFields, EqpFields
<1>2. Desequipar(h, h.me.Eqp[k].Slot) \in Kept(u, F, c, b)
  BY <1>1, DesequiparKeeps
<1> QED BY <1>2 DEF DesequiparTipo

\* What a field of Marking names is no backpack: taking it off moves no object.
LEMMA DesequiparTipoPlain ==
  ASSUME NEW u, NEW F, NEW c, NEW b, NEW h \in Kept(u, F, c, b), NEW k \in Marking, NEW r \in Slots
  PROVE  DesequiparTipo(h, k).me.Object[r].ObjIndex = h.me.Object[r].ObjIndex
<1> DEFINE s == h.me.Eqp[k].Slot
<1>1. h \in Hands /\ MarksSound(h.me, F)
  BY KeptFields
<1>2. k \in EqTypes /\ k # "otMochilas"
  BY DEF Marking
<1>3. s \in {0} \union Slots
  BY <1>1, <1>2, EqpFields
<1>4. ~IsBag(HeldIn(h, s))
  <2>1. CASE s \in Slots
    <3>1. s # 0
      BY <2>1, ItemsAssumption DEF Slots
    <3>2. HeldIn(h, s) = h.me.Eqp[k].ObjIndex /\ Type(h.me.Eqp[k].ObjIndex) = k
      BY <1>1, <2>1, <3>1 DEF MarksSound, HeldIn
    <3> QED BY <1>2, <3>2 DEF IsBag
  <2>2. CASE s \notin Slots
    BY <2>2 DEF IsBag, HeldIn
  <2> QED BY <2>1, <2>2
<1>5. Desequipar(h, s) = Unmarked(h, s)
  BY <1>1, <1>3, <1>4, DesequiparGood
<1>6. Unmarked(h, s).me.Object[r].ObjIndex = h.me.Object[r].ObjIndex
  BY <1>1, <1>3, UnmarkedType
<1> QED BY <1>5, <1>6 DEF DesequiparTipo

-------------------------------------------------------------------------------
(* Hands between two handlers *)

\* The slots in reach are those of the backpack.
Packed(me) ==
  me.CurrentInventorySlots =
    MAX_NORMAL_INVENTORY_SLOTS
      + IF me.Eqp["otMochilas"].ObjIndex = 0 THEN 0 ELSE ObjData[me.Eqp["otMochilas"].ObjIndex].MochilaSlots

\* The hands of a user between two handlers.
Sound(u) ==
  {h \in Hands : /\ h.u = u /\ FloorSound(h.floor) /\ SlotsSound(h.me.Object)
                 /\ MarksSound(h.me, {}) /\ Packed(h.me)}

\* What a handler may make of a hand, when no slot is given up.
KeptFrom(h) == Kept(h.u, {}, h.me.CurrentInventorySlots, h.me.Eqp["otMochilas"])

\* A handler that keeps a sound hand leaves a sound one.
LEMMA SoundIsKept ==
  ASSUME NEW u, NEW h \in Sound(u)
  PROVE  h \in KeptFrom(h)
  BY DEF Sound, KeptFrom, Kept, BagSound

LEMMA KeptIsSound ==
  ASSUME NEW u, NEW h \in Sound(u), NEW g \in KeptFrom(h)
  PROVE  g \in Sound(u)
<1>1. /\ g \in Hands /\ g.u = h.u /\ FloorSound(g.floor) /\ SlotsSound(g.me.Object)
      /\ MarksSound(g.me, {}) /\ BagSound(g.me, h.me.CurrentInventorySlots, h.me.Eqp["otMochilas"])
  BY DEF KeptFrom, Kept
<1>2. h.u = u /\ Packed(h.me)
  BY DEF Sound
<1>3. MAX_NORMAL_INVENTORY_SLOTS \in Nat
  BY ItemsAssumption
<1>4. Packed(g.me)
  <2>1. CASE g.me.CurrentInventorySlots = h.me.CurrentInventorySlots /\ g.me.Eqp["otMochilas"] = h.me.Eqp["otMochilas"]
    BY <1>2, <2>1 DEF Packed
  <2>2. CASE g.me.CurrentInventorySlots = MAX_NORMAL_INVENTORY_SLOTS /\ g.me.Eqp["otMochilas"] = NotEqp
    BY <1>3, <2>2 DEF Packed, NotEqp
  <2> QED BY <1>1, <2>1, <2>2 DEF BagSound
<1> QED BY <1>1, <1>2, <1>4 DEF Sound

LEMMA SoundFields ==
  ASSUME NEW u, NEW h \in Sound(u)
  PROVE  /\ h \in Hands /\ h.u = u /\ FloorSound(h.floor) /\ SlotsSound(h.me.Object)
         /\ MarksSound(h.me, {}) /\ Packed(h.me)
  BY DEF Sound

\* Marking the slot, and naming it in the field of the object's type.
LEMMA WearSound ==
  ASSUME NEW u, NEW h \in Sound(u), NEW s \in Slots, NEW o \in Objects, Type(o) \in EqTypes,
         Type(o) \in Marking => h.me.Object[s].ObjIndex = o
  PROVE  Wear(h, s, o) \in Sound(u)
<1> DEFINE it == [h.me.Object[s] EXCEPT !.Equipped = TRUE]
           e == [ObjIndex |-> o, Slot |-> s]
           r == IF Type(o) = "otMochilas" THEN MAX_NORMAL_INVENTORY_SLOTS + ObjData[o].MochilaSlots
                ELSE h.me.CurrentInventorySlots
           h1 == [h EXCEPT !.me.Object[s] = it]
           h2 == [h1 EXCEPT !.me.Eqp[Type(o)] = e]
           g == [h2 EXCEPT !.me.CurrentInventorySlots = r]
<1>1. /\ h \in Hands /\ h.u = u /\ FloorSound(h.floor) /\ SlotsSound(h.me.Object)
      /\ MarksSound(h.me, {}) /\ Packed(h.me)
  BY SoundFields
<1>2. h.me.Object[s] \in SlotRecord
  BY <1>1, SlotFields
<1>3. it \in SlotRecord /\ it.Amount = h.me.Object[s].Amount /\ it.ObjIndex = h.me.Object[s].ObjIndex /\ it.Equipped = TRUE
  BY <1>2, OtherMark
<1>4. /\ h1 \in Hands /\ h1.u = h.u /\ h1.floor = h.floor
      /\ h1.me.Object = [h.me.Object EXCEPT ![s] = it]
      /\ h1.me.Eqp = h.me.Eqp /\ h1.me.CurrentInventorySlots = h.me.CurrentInventorySlots
  <2> HIDE DEF it
  <2> QED BY <1>1, <1>3, WithSlot
<1>5. h1 \in KeptFrom(h)
  <2>1. SlotSound(it)
    BY <1>1, <1>3 DEF SlotsSound, SlotSound, Whole
  <2> HIDE DEF it
  <2> QED BY <1>3, <2>1, SoundIsKept, KeptSlot DEF KeptFrom
<1>6. e \in EqpRecord /\ e.ObjIndex = o /\ e.Slot = s /\ o # 0
  BY ItemsAssumption DEF EqpRecord, Objects
<1>7. /\ h2 \in Hands /\ h2.u = h1.u /\ h2.floor = h1.floor
      /\ h2.me.Eqp = [h1.me.Eqp EXCEPT ![Type(o)] = e]
      /\ h2.me.Object = h1.me.Object /\ h2.me.CurrentInventorySlots = h1.me.CurrentInventorySlots
  <2> HIDE DEF h1, e
  <2> QED BY <1>4, <1>6, WithEqp
<1>8. r \in MAX_NORMAL_INVENTORY_SLOTS..MAX_INVENTORY_SLOTS
  <2>1. o \in DOMAIN ObjData
    BY ItemsAssumption DEF Objects
  <2>2. ObjData[o].MochilaSlots \in 0..(MAX_INVENTORY_SLOTS - MAX_NORMAL_INVENTORY_SLOTS)
    BY <2>1, ItemsAssumption
  <2>3. h.me.CurrentInventorySlots \in MAX_NORMAL_INVENTORY_SLOTS..MAX_INVENTORY_SLOTS
    BY <1>1, HandFields
  <2> QED BY <2>2, <2>3, ItemsAssumption
<1>9. /\ g \in Hands /\ g.u = h2.u /\ g.floor = h2.floor
      /\ g.me.CurrentInventorySlots = r
      /\ g.me.Object = h2.me.Object /\ g.me.Eqp = h2.me.Eqp
  <2> HIDE DEF h2, r
  <2> QED BY <1>7, <1>8, WithReach
<1>10. Wear(h, s, o) = g
  BY DEF Wear
<1> HIDE DEF it, e, h1, h2, g
<1>11. h1 \in Sound(u)
  BY <1>5, KeptIsSound
<1>12. SlotsSound(g.me.Object) /\ FloorSound(g.floor)
  BY <1>7, <1>9, <1>11, SoundFields
<1>13. h.me.Eqp \in [EqTypes -> EqpRecord] /\ h.me.Object \in [Slots -> SlotRecord]
  BY <1>1, HandFields
<1>14. MarksSound(g.me, {})
  <2>0. MarksSound(h1.me, {})
    BY <1>11, SoundFields
  <2> SUFFICES ASSUME NEW k \in Marking, g.me.Eqp[k].Slot # 0
               PROVE  /\ g.me.Eqp[k].ObjIndex # 0 /\ Type(g.me.Eqp[k].ObjIndex) = k
                      /\ g.me.Object[g.me.Eqp[k].Slot].ObjIndex = g.me.Eqp[k].ObjIndex
                      /\ g.me.Object[g.me.Eqp[k].Slot].Equipped
    BY DEF MarksSound
  <2>1. k \in EqTypes
    BY DEF Marking
  <2>2. CASE k = Type(o)
    <3>1. g.me.Eqp[k] = e
      BY <1>4, <1>7, <1>9, <1>13, <2>2
    <3>2. g.me.Object[s] = it
      BY <1>4, <1>7, <1>9, <1>13
    <3> QED BY <1>3, <1>6, <2>2, <3>1, <3>2
  <2>3. CASE k # Type(o)
    <3>1. g.me.Eqp[k] = h1.me.Eqp[k]
      BY <1>4, <1>7, <1>9, <1>13, <2>1, <2>3
    <3> QED BY <1>7, <1>9, <2>0, <3>1 DEF MarksSound
  <2> QED BY <2>2, <2>3
<1>15. Packed(g.me)
  <2>0. "otMochilas" \in EqTypes
    BY DEF EqTypes
  <2>1. CASE Type(o) = "otMochilas"
    <3>1. g.me.Eqp["otMochilas"] = e
      BY <1>4, <1>7, <1>9, <1>13, <2>0, <2>1
    <3> QED BY <1>6, <1>9, <2>1, <3>1 DEF Packed
  <2>2. CASE Type(o) # "otMochilas"
    <3>1. g.me.Eqp["otMochilas"] = h.me.Eqp["otMochilas"]
      BY <1>4, <1>7, <1>9, <1>13, <2>0, <2>2
    <3> QED BY <1>1, <1>9, <2>2, <3>1 DEF Packed
  <2> QED BY <2>1, <2>2
<1>16. g \in Sound(u)
  BY <1>1, <1>4, <1>7, <1>9, <1>12, <1>14, <1>15 DEF Sound
<1> QED BY <1>10, <1>16

LEMMA EquiparSound ==
  ASSUME NEW u, NEW h \in Sound(u), NEW s \in Slots
  PROVE  EquiparInvItem(h, s) \in Sound(u)
<1> DEFINE o == h.me.Object[s].ObjIndex
           freed == IF TwoHanded(o) /\ Type(o) = "otWeapon" THEN DesequiparTipo(h, "otESCUDO") ELSE h
           bare == DesequiparTipo(freed, Type(o))
<1>1. \/ EquiparInvItem(h, s) = h
      \/ EquiparInvItem(h, s) = Desequipar(h, s)
      \/ o # 0 /\ Type(o) \in EqTypes /\ EquiparInvItem(h, s) = Wear(bare, s, o)
  BY DEF EquiparInvItem
<1>2. h \in KeptFrom(h) /\ h \in Hands
  BY SoundIsKept, SoundFields
<1>3. o \in {0} \union Objects
  BY <1>2, SlotFields
<1>4. Desequipar(h, s) \in Sound(u)
  <2>1. Desequipar(h, s) \in KeptFrom(h)
    BY <1>2, DesequiparKeeps DEF KeptFrom
  <2> QED BY <2>1, KeptIsSound
<1>5. freed \in KeptFrom(h) /\ freed.me.Object[s].ObjIndex = o
  <2>1. "otESCUDO" \in EqTypes /\ "otESCUDO" \in Marking
    BY DEF EqTypes, Marking
  <2>2. DesequiparTipo(h, "otESCUDO") \in KeptFrom(h)
    BY <1>2, <2>1, DesequiparTipoKeeps DEF KeptFrom
  <2>3. DesequiparTipo(h, "otESCUDO").me.Object[s].ObjIndex = o
    BY <1>2, <2>1, DesequiparTipoPlain DEF KeptFrom
  <2> QED BY <1>2, <2>2, <2>3
<1> HIDE DEF freed
<1>6. ASSUME Type(o) \in EqTypes PROVE bare \in Sound(u)
  <2>1. bare \in KeptFrom(h)
    BY <1>5, <1>6, DesequiparTipoKeeps DEF KeptFrom
  <2> QED BY <2>1, KeptIsSound
<1>7. Type(o) \in Marking => bare.me.Object[s].ObjIndex = o
  BY <1>5, DesequiparTipoPlain DEF KeptFrom
<1> HIDE DEF bare, o
<1>8. (o # 0 /\ Type(o) \in EqTypes) => Wear(bare, s, o) \in Sound(u)
  BY <1>3, <1>6, <1>7, WearSound
<1> QED BY <1>1, <1>4, <1>8

-------------------------------------------------------------------------------
(* Materials *)

LEMMA QuitarObjetosKeeps ==
  ASSUME NEW u, NEW F, NEW c, NEW b, NEW h \in Kept(u, F, c, b), NEW o, NEW cant \in Nat
  PROVE  QuitarObjetos(h, o, cant) \in Kept(u, F, c, b)
<1> DEFINE K == Kept(u, F, c, b)
           S == {g \in [h : Hands, cant : Int] : g.h \in K /\ g.cant >= 0}
           Off(g, s) == IF WornOut(g.h.me.Object[s], g.cant) THEN Desequipar(g.h, s) ELSE g.h
           Left(g, s) == Off(g, s).me.Object[s].Amount - g.cant
           step == [s \in Slots |-> [g \in [h : Hands, cant : Int] |->
                      IF g.cant = 0 \/ s \notin Within(g.h.me) \/ g.h.me.Object[s].ObjIndex # o THEN g
                      ELSE IF Left(g, s) > 0
                      THEN [h |-> [Off(g, s) EXCEPT !.me.Object[s].Amount = Left(g, s)], cant |-> 0]
                      ELSE [h |-> [Off(g, s) EXCEPT !.me.Object[s] = Holding(@, 0, 0)], cant |-> -Left(g, s)]]]
           d == [h |-> h, cant |-> cant]
<1>1. QuitarObjetos(h, o, cant) = Walked(d, MAX_INVENTORY_SLOTS, step).h
  BY DEF QuitarObjetos
<1>2. d \in S
  BY KeptFields
<1>3. ASSUME NEW s \in Slots, NEW g \in S PROVE step[s][g] \in S
  <2> DEFINE off == Off(g, s)
             left == Left(g, s)
             less == [off EXCEPT !.me.Object[s].Amount = left]
             none == [off EXCEPT !.me.Object[s] = Holding(off.me.Object[s], 0, 0)]
  <2>1. g \in [h : Hands, cant : Int] /\ g.h \in K /\ g.cant >= 0 /\ g.cant \in Int
    OBVIOUS
  <2>2. step[s][g] \in {g, [h |-> less, cant |-> 0], [h |-> none, cant |-> -left]}
        /\ (step[s][g] = g \/ (left > 0 /\ step[s][g] = [h |-> less, cant |-> 0])
             \/ (~(left > 0) /\ step[s][g] = [h |-> none, cant |-> -left]))
    BY <2>1
  <2>3. off \in K /\ (WornOut(g.h.me.Object[s], g.cant) => Free(off.me, s))
    <3>1. CASE WornOut(g.h.me.Object[s], g.cant)
      <4>1. off = Desequipar(g.h, s)
        BY <3>1
      <4>2. Desequipar(g.h, s) \in Kept(u, F \union {s}, c, b) /\ Desequipar(g.h, s) \in K
        BY <2>1, DesequiparKeeps
      <4>3. s \in F \union {s}
        OBVIOUS
      <4> HIDE DEF off
      <4> QED BY <4>1, <4>2, <4>3, FreeSlot
    <3>2. CASE ~WornOut(g.h.me.Object[s], g.cant)
      BY <2>1, <3>2
    <3> QED BY <3>1, <3>2
  <2>4. off \in Hands /\ SlotSound(off.me.Object[s])
    BY <2>3, KeptFields DEF SlotsSound
  <2>5. off.me.Object[s] \in SlotRecord /\ off.me.Object[s].Amount \in Int
    BY <2>4, SlotFields
  <2>6. left = off.me.Object[s].Amount - g.cant
    OBVIOUS
  <2>7. left \in Int /\ left < Half
    <3> HIDE DEF off, left
    <3> QED BY <2>1, <2>4, <2>5, <2>6, HalfRange DEF SlotSound
  <2>8. ASSUME left > 0 PROVE less \in K
    <3> DEFINE it == [off.me.Object[s] EXCEPT !.Amount = left]
    <3> HIDE DEF off, left
    <3>1. it \in SlotRecord /\ it.Amount = left /\ it.ObjIndex = off.me.Object[s].ObjIndex /\ it.Equipped = off.me.Object[s].Equipped
      BY <2>5, <2>7, OtherAmount
    <3>2. less = [off EXCEPT !.me.Object[s] = it]
      OBVIOUS
    <3>3. SlotSound(it)
      BY <2>7, <2>8, <3>1 DEF SlotSound, Whole
    <3> HIDE DEF it, less
    <3>4. [off EXCEPT !.me.Object[s] = it] \in Kept(u, F, c, b)
      BY <2>3, <3>1, <3>3, KeptSlot
    <3> QED BY <3>2, <3>4
  <2>9. ASSUME ~(left > 0) PROVE none \in K
    <3>1. Free(off.me, s)
      <4>1. CASE WornOut(g.h.me.Object[s], g.cant)
        BY <2>3, <4>1
      <4>2. CASE ~WornOut(g.h.me.Object[s], g.cant)
        <5>1. off = g.h
          BY <4>2
        <5>2. ~(g.h.me.Object[s].Amount > g.cant)
          <6>1. left = g.h.me.Object[s].Amount - g.cant /\ g.h.me.Object[s].Amount \in Int
            BY <2>5, <2>6, <5>1
          <6> HIDE DEF left
          <6> QED BY <2>1, <2>9, <6>1
        <5>3. ~g.h.me.Object[s].Equipped
          <6>1. g.h.me.Object[s].Amount \in Int
            BY <2>5, <5>1
          <6> QED BY <2>1, <4>2, <5>2, <6>1 DEF WornOut
        <5> HIDE DEF off
        <5> QED BY <2>1, <5>1, <5>3, FreeSlot
      <4> QED BY <4>1, <4>2
    <3>2. 0 \in 0..(Half - 1) /\ 0 \in {0} \union Objects
      BY HalfRange
    <3> HIDE DEF off
    <3> QED BY <2>3, <3>1, <3>2, HoldKeeps
  <2> HIDE DEF off, left, step, less, none, K
  <2>10. CASE step[s][g] = g
    BY <2>10
  <2>11. CASE left > 0 /\ step[s][g] = [h |-> less, cant |-> 0]
    <3>1. less \in K /\ less \in Hands
      BY <2>8, <2>11, KeptFields DEF K
    <3> QED BY <2>11, <3>1
  <2>12. CASE ~(left > 0) /\ step[s][g] = [h |-> none, cant |-> -left]
    <3>1. none \in K /\ none \in Hands
      BY <2>9, <2>12, KeptFields DEF K
    <3>2. -left \in Int /\ -left >= 0
      BY <2>7, <2>12
    <3> QED BY <2>12, <3>1, <3>2
  <2> QED BY <2>2, <2>10, <2>11, <2>12
<1>4. MAX_INVENTORY_SLOTS \in Nat /\ Slots = 1..MAX_INVENTORY_SLOTS
  BY ItemsAssumption DEF Slots
<1>5. Walked(d, MAX_INVENTORY_SLOTS, step) \in S
  <2> HIDE DEF S, d, step
  <2> QED BY <1>2, <1>3, <1>4, WalkedKeeps
<1>6. Walked(d, MAX_INVENTORY_SLOTS, step).h \in K
  <2> HIDE DEF K, d, step
  <2> QED BY <1>5
<1> QED BY <1>1, <1>6

-------------------------------------------------------------------------------
(* Gold, death and the boat: what objects do not see *)

\* Two records of a user that agree on objects and equipment.
Alike(m, me) ==
  m.Object = me.Object /\ m.Eqp = me.Eqp /\ m.CurrentInventorySlots = me.CurrentInventorySlots

LEMMA AlikeKept ==
  ASSUME NEW u, NEW F, NEW c, NEW b, NEW h \in Kept(u, F, c, b),
         NEW g \in Hands, g.u = h.u, Alike(g.me, h.me), FloorSound(g.floor)
  PROVE  g \in Kept(u, F, c, b)
<1>1. h.u = u /\ SlotsSound(h.me.Object) /\ MarksSound(h.me, F) /\ BagSound(h.me, c, b)
  BY KeptFields
<1>2. SlotsSound(g.me.Object)
  BY <1>1 DEF Alike
<1>3. MarksSound(g.me, F)
  BY <1>1 DEF Alike, MarksSound
<1>4. BagSound(g.me, c, b)
  BY <1>1 DEF Alike, BagSound
<1> QED BY <1>1, <1>2, <1>3, <1>4 DEF Kept

LEMMA AlikeSound ==
  ASSUME NEW u, NEW h \in Sound(u),
         NEW g \in Hands, g.u = h.u, Alike(g.me, h.me), FloorSound(g.floor)
  PROVE  g \in Sound(u)
<1>1. g \in KeptFrom(h)
  BY SoundIsKept, AlikeKept DEF KeptFrom
<1> QED BY <1>1, KeptIsSound

LEMMA WithGold ==
  ASSUME NEW h \in Hands, NEW n \in Nat
  PROVE  LET g == [h EXCEPT !.me.GLD = n]
         IN g \in Hands /\ g.u = h.u /\ g.floor = h.floor /\ Alike(g.me, h.me) /\ g.me.GLD = n /\ g.me.Pos = h.me.Pos
<1> DEFINE m == [h.me EXCEPT !.GLD = n]
           g == [h EXCEPT !.me.GLD = n]
<1>1. h.me \in UserRecord
  BY HandFields
<1>2. m \in UserRecord /\ Alike(m, h.me) /\ m.GLD = n /\ m.Pos = h.me.Pos
  BY <1>1 DEF UserRecord, Alike
<1>3. g = [h EXCEPT !.me = m]
  BY <1>1 DEF Hands, UserRecord
<1> HIDE DEF m, g
<1>4. g \in Hands /\ g.u = h.u /\ g.me = m /\ g.floor = h.floor
  BY <1>2, <1>3, WithMe
<1> QED BY <1>2, <1>4 DEF g

LEMMA WithLife ==
  ASSUME NEW h \in Hands, NEW v \in BOOLEAN
  PROVE  LET g == [h EXCEPT !.me.Muerto = v]
         IN g \in Hands /\ g.u = h.u /\ g.floor = h.floor /\ Alike(g.me, h.me)
<1> DEFINE m == [h.me EXCEPT !.Muerto = v]
           g == [h EXCEPT !.me.Muerto = v]
<1>1. h.me \in UserRecord
  BY HandFields
<1>2. m \in UserRecord /\ Alike(m, h.me)
  BY <1>1 DEF UserRecord, Alike
<1>3. g = [h EXCEPT !.me = m]
  BY <1>1 DEF Hands, UserRecord
<1> HIDE DEF m, g
<1>4. g \in Hands /\ g.u = h.u /\ g.me = m /\ g.floor = h.floor
  BY <1>2, <1>3, WithMe
<1> QED BY <1>2, <1>4 DEF g

LEMMA LifeSound ==
  ASSUME NEW u, NEW h \in Sound(u), NEW v \in BOOLEAN
  PROVE  [h EXCEPT !.me.Muerto = v] \in Sound(u)
<1> DEFINE g == [h EXCEPT !.me.Muerto = v]
<1>1. h \in Hands /\ FloorSound(h.floor)
  BY SoundFields
<1>2. g \in Hands /\ g.u = h.u /\ g.floor = h.floor /\ Alike(g.me, h.me)
  BY <1>1, WithLife
<1> HIDE DEF g
<1>3. g \in Sound(u)
  BY <1>1, <1>2, AlikeSound
<1> QED BY <1>3 DEF g

BankRecord == [ObjIndex : {0} \union Objects, Amount : Nat]

LEMMA BankFields ==
  ASSUME NEW h \in Hands, NEW b \in BankSlots
  PROVE  h.me.Banco[b] \in BankRecord /\ h.me.Banco[b].Amount \in Nat /\ h.me.Banco[b].ObjIndex \in {0} \union Objects
<1>1. h.me.Banco \in [BankSlots -> BankRecord]
  BY DEF Hands, UserRecord, BankRecord
<1>2. h.me.Banco[b] \in BankRecord
  BY <1>1
<1> QED BY <1>2 DEF BankRecord

LEMMA WithBank ==
  ASSUME NEW h \in Hands, NEW b \in BankSlots, NEW p \in BankRecord
  PROVE  LET g == [h EXCEPT !.me.Banco[b] = p]
         IN g \in Hands /\ g.u = h.u /\ g.floor = h.floor /\ Alike(g.me, h.me)
<1> DEFINE m == [h.me EXCEPT !.Banco = [h.me.Banco EXCEPT ![b] = p]]
           g == [h EXCEPT !.me.Banco[b] = p]
<1>1. h.me \in UserRecord /\ h.me.Banco \in [BankSlots -> BankRecord]
  BY HandFields DEF UserRecord, BankRecord
<1>2. [h.me.Banco EXCEPT ![b] = p] \in [BankSlots -> BankRecord]
  BY <1>1
<1>3. m \in UserRecord /\ Alike(m, h.me)
  BY <1>1, <1>2 DEF UserRecord, Alike, BankRecord
<1>4. g = [h EXCEPT !.me = m]
  BY <1>1 DEF Hands, UserRecord
<1> HIDE DEF m, g
<1>5. g \in Hands /\ g.u = h.u /\ g.me = m /\ g.floor = h.floor
  BY <1>3, <1>4, WithMe
<1> QED BY <1>3, <1>5 DEF g

LEMMA BankSound ==
  ASSUME NEW u, NEW h \in Sound(u), NEW b \in BankSlots, NEW p \in BankRecord
  PROVE  [h EXCEPT !.me.Banco[b] = p] \in Sound(u)
<1> DEFINE g == [h EXCEPT !.me.Banco[b] = p]
<1>1. h \in Hands /\ FloorSound(h.floor)
  BY SoundFields
<1>2. g \in Hands /\ g.u = h.u /\ g.floor = h.floor /\ Alike(g.me, h.me)
  BY <1>1, WithBank
<1> HIDE DEF g
<1>3. g \in Sound(u)
  BY <1>1, <1>2, AlikeSound
<1> QED BY <1>3 DEF g

\* The field of boats, and whether the user sails.
LEMMA BoatSound ==
  ASSUME NEW u, NEW h \in Sound(u), NEW v \in BOOLEAN, NEW e \in EqpRecord
  PROVE  [h EXCEPT !.me.Navegando = v, !.me.Eqp["otBarcos"] = e] \in Sound(u)
<1> DEFINE m == [h.me EXCEPT !.Navegando = v]
           h1 == [h EXCEPT !.me = m]
           g == [h1 EXCEPT !.me.Eqp["otBarcos"] = e]
<1>0. /\ h \in Hands /\ h.u = u /\ FloorSound(h.floor) /\ SlotsSound(h.me.Object)
      /\ MarksSound(h.me, {}) /\ Packed(h.me)
  BY SoundFields
<1>1. h.me \in UserRecord /\ h.me.Eqp \in [EqTypes -> EqpRecord]
  BY <1>0, HandFields
<1>2. m \in UserRecord /\ Alike(m, h.me)
  BY <1>1 DEF UserRecord, Alike
<1>3. h1 \in Hands /\ h1.u = h.u /\ h1.me = m /\ h1.floor = h.floor
  BY <1>0, <1>2, WithMe
<1>4. [h EXCEPT !.me.Navegando = v, !.me.Eqp["otBarcos"] = e] = g
  BY <1>0, <1>1 DEF Hands, UserRecord
<1>5. "otBarcos" \in EqTypes /\ "otBarcos" \notin Marking /\ "otMochilas" \in EqTypes
  BY DEF EqTypes, Marking
<1>6. /\ g \in Hands /\ g.u = h1.u /\ g.floor = h1.floor
      /\ g.me.Eqp = [h1.me.Eqp EXCEPT !["otBarcos"] = e]
      /\ g.me.Object = h1.me.Object /\ g.me.CurrentInventorySlots = h1.me.CurrentInventorySlots
  <2> DEFINE k == "otBarcos"
             g2 == [h1 EXCEPT !.me.Eqp[k] = e]
  <2>1. k \in EqTypes /\ h1 \in Hands /\ g = g2
    BY <1>3, <1>5
  <2>2. /\ g2 \in Hands /\ g2.u = h1.u /\ g2.floor = h1.floor
        /\ g2.me.Eqp = [h1.me.Eqp EXCEPT ![k] = e]
        /\ g2.me.Object = h1.me.Object /\ g2.me.CurrentInventorySlots = h1.me.CurrentInventorySlots
    <3> HIDE DEF h1, k
    <3> QED BY <2>1, WithEqp
  <2>3. g2.me.Eqp = [h1.me.Eqp EXCEPT !["otBarcos"] = e]
    BY <2>2
  <2> HIDE DEF g, g2, h1
  <2> QED BY <2>1, <2>2, <2>3
<1> HIDE DEF g, h1, m
<1>7. \A k \in EqTypes : k # "otBarcos" => g.me.Eqp[k] = h.me.Eqp[k]
  BY <1>1, <1>2, <1>3, <1>6 DEF Alike
<1>8. MarksSound(g.me, {})
  <2>1. \A k \in Marking : g.me.Eqp[k] = h.me.Eqp[k]
    BY <1>5, <1>7 DEF Marking
  <2>2. g.me.Object = h.me.Object
    BY <1>2, <1>3, <1>6 DEF Alike
  <2> QED BY <1>0, <2>1, <2>2 DEF MarksSound
<1>9. Packed(g.me)
  BY <1>0, <1>2, <1>3, <1>5, <1>6, <1>7 DEF Packed, Alike
<1>10. g \in Sound(u)
  BY <1>0, <1>2, <1>3, <1>6, <1>8, <1>9 DEF Sound, Alike
<1> QED BY <1>4, <1>10

-------------------------------------------------------------------------------
(* The loops of the handlers *)

LEMMA QuitarMaterialesKeeps ==
  ASSUME NEW u, NEW F, NEW c, NEW b, NEW h \in Kept(u, F, c, b), NEW o \in Objects, NEW n \in Nat
  PROVE  QuitarMateriales(h, o, n) \in Kept(u, F, c, b)
<1> DEFINE K == Kept(u, F, c, b)
           step == [m \in Objects |-> [g \in Hands |->
                      IF m \in Materials[o] THEN QuitarObjetos(g, m, ObjData[o].Mat[m] * n) ELSE g]]
<1>1. QuitarMateriales(h, o, n) = Walked(h, NumObjDatas, step)
  BY DEF QuitarMateriales
<1>2. ASSUME NEW m \in Objects, NEW g \in K PROVE step[m][g] \in K
  <2>1. g \in Hands
    BY KeptFields
  <2>2. ObjData[o].Mat[m] \in Nat
    BY InventoryAssumption
  <2>3. ObjData[o].Mat[m] * n \in Nat
    <3> DEFINE a == ObjData[o].Mat[m]
    <3>1. a \in Nat /\ n \in Nat
      BY <2>2
    <3> HIDE DEF a
    <3>2. a * n \in Nat
      BY <3>1
    <3> QED BY <3>2 DEF a
  <2>4. QuitarObjetos(g, m, ObjData[o].Mat[m] * n) \in K
    BY <2>3, QuitarObjetosKeeps
  <2> HIDE DEF K
  <2> QED BY <2>1, <2>4
<1>3. NumObjDatas \in Nat /\ Objects = 1..NumObjDatas
  BY ItemsAssumption DEF Objects
<1>4. Walked(h, NumObjDatas, step) \in K
  <2> HIDE DEF step
  <2> QED BY <1>2, <1>3, WalkedKeeps
<1> QED BY <1>1, <1>4

LEMMA RecoveredKeeps ==
  ASSUME NEW u, NEW F, NEW c, NEW b, NEW h \in Kept(u, F, c, b), NEW n \in [Objects -> Nat]
  PROVE  Recovered(h, n) \in Kept(u, F, c, b)
<1> DEFINE K == Kept(u, F, c, b)
           step == [m \in Objects |-> [g \in Hands |->
                      IF n[m] > 0 THEN PutItemInInv(g, m, n[m]) ELSE g]]
<1>1. Recovered(h, n) = Walked(h, NumObjDatas, step)
  BY DEF Recovered
<1>2. ASSUME NEW m \in Objects, NEW g \in K PROVE step[m][g] \in K
  <2>1. g \in Hands
    BY KeptFields
  <2>2. ASSUME n[m] > 0 PROVE PutItemInInv(g, m, n[m]) \in K
    BY <2>2, PutItemKeeps
  <2> HIDE DEF K
  <2> QED BY <2>1, <2>2
<1>3. NumObjDatas \in Nat /\ Objects = 1..NumObjDatas
  BY ItemsAssumption DEF Objects
<1>4. Walked(h, NumObjDatas, step) \in K
  <2> HIDE DEF step
  <2> QED BY <1>2, <1>3, WalkedKeeps
<1> QED BY <1>1, <1>4

LEMMA QuitarNewbiesKeeps ==
  ASSUME NEW u, NEW F, NEW c, NEW b, NEW h \in Kept(u, F, c, b)
  PROVE  QuitarNewbies(h) \in Kept(u, F, c, b)
<1> DEFINE K == Kept(u, F, c, b)
           Takes(g, s) == /\ s \in Within(g.me) /\ g.me.Object[s].ObjIndex # 0
                          /\ ItemNewbie(g.me.Object[s].ObjIndex)
           step == [s \in Slots |-> [g \in Hands |->
                      IF Takes(g, s) THEN QuitarUserInvItem(g, s, MAX_INVENTORY_OBJS) ELSE g]]
<1>1. QuitarNewbies(h) = Walked(h, MAX_INVENTORY_SLOTS, step)
  BY DEF QuitarNewbies
<1>2. ASSUME NEW s \in Slots, NEW g \in K PROVE step[s][g] \in K
  <2>1. g \in Hands /\ MAX_INVENTORY_OBJS \in Nat
    BY KeptFields, HalfRange
  <2>2. QuitarUserInvItem(g, s, MAX_INVENTORY_OBJS) \in K
    BY <2>1, QuitarItemKeeps
  <2> HIDE DEF K, Takes
  <2> QED BY <2>1, <2>2
<1>3. MAX_INVENTORY_SLOTS \in Nat /\ Slots = 1..MAX_INVENTORY_SLOTS
  BY ItemsAssumption DEF Slots
<1>4. Walked(h, MAX_INVENTORY_SLOTS, step) \in K
  <2> HIDE DEF step
  <2> QED BY <1>2, <1>3, WalkedKeeps
<1> QED BY <1>1, <1>4

\* Piles of gold take at most the amount from the purse.
LEMMA PilesKeeps ==
  ASSUME NEW u, NEW F, NEW c, NEW b, NEW h \in Kept(u, F, c, b), NEW n \in Nat, n <= h.me.GLD
  PROVE  Piles(h, n) \in Kept(u, F, c, b) /\ Piles(h, n).me.GLD >= h.me.GLD - n
<1> DEFINE K == Kept(u, F, c, b)
           S == {g \in [h : Hands, left : Nat] : g.h \in K /\ g.left <= n /\ g.h.me.GLD >= h.me.GLD - (n - g.left)}
           Pile(g) == IF g.left > MAX_INVENTORY_OBJS /\ g.h.me.GLD > MAX_INVENTORY_OBJS
                      THEN MAX_INVENTORY_OBJS ELSE g.left
           At(g) == Tilelibre(g.h.floor, g.h.me.Pos, iORO, Pile(g))
           Laid(g) == [g.h EXCEPT !.floor = MakeObj(g.h.floor, At(g), iORO, Pile(g)), !.me.GLD = g.h.me.GLD - Pile(g)]
           step == [i \in 1..n |-> [g \in [h : Hands, left : Nat] |->
                      IF g.left = 0 THEN g
                      ELSE [h |-> IF At(g) = 0 THEN g.h ELSE Laid(g), left |-> g.left - Pile(g)]]]
           d == [h |-> h, left |-> n]
<1>0. h \in Hands
  BY KeptFields
<1>00. h.me.GLD \in Nat
  BY <1>0, HandFields
<1>1. Piles(h, n) = Walked(d, n, step).h
  BY DEF Piles
<1>2. d \in S
  <2> HIDE DEF K
  <2>1. h \in K
    BY DEF K
  <2> QED BY <1>0, <1>00, <2>1
<1>3. ASSUME NEW i \in 1..n, NEW g \in S PROVE step[i][g] \in S
  <2> DEFINE p == Pile(g)
             t == At(g)
             f == MakeObj(g.h.floor, t, iORO, p)
             h1 == [g.h EXCEPT !.floor = f]
             laid == [h1 EXCEPT !.me.GLD = g.h.me.GLD - p]
  <2>1. /\ g \in [h : Hands, left : Nat] /\ g.h \in K /\ g.left \in Nat /\ g.left <= n
        /\ g.h.me.GLD >= h.me.GLD - (n - g.left)
    OBVIOUS
  <2>2. /\ g.h \in Hands /\ FloorSound(g.h.floor) /\ g.h.floor \in Floor /\ g.h.me.Pos \in Tiles
        /\ g.h.me.GLD \in Nat
    <3>1. g.h \in Hands /\ FloorSound(g.h.floor)
      BY <2>1, KeptFields
    <3> QED BY <3>1, HandFields
  <2>3. /\ step[i][g] = g \/ (/\ g.left # 0
                              /\ step[i][g] = [h |-> IF t = 0 THEN g.h ELSE Laid(g), left |-> g.left - p])
        /\ g.left = 0 => step[i][g] = g
    BY <2>1
  <2>4. Laid(g) = laid
    BY <2>2 DEF Hands
  <2>5. p \in Nat /\ p <= g.left /\ (g.left # 0 => p >= 1)
    BY <2>1, HalfRange
  <2>6. p <= g.left /\ p \in Int /\ g.h.me.GLD - p >= h.me.GLD - (n - (g.left - p)) /\ g.left - p \in Nat
    <3> HIDE DEF p, S
    <3>1. g.left - p \in Nat
      BY <2>1, <2>5
    <3>2. g.h.me.GLD - p >= h.me.GLD - (n - (g.left - p))
      BY <1>00, <2>1, <2>2, <2>5
    <3> QED BY <2>5, <3>1, <3>2
  <2>7. g.h.me.GLD - p \in Nat
    <3> HIDE DEF p, S
    <3> QED BY <1>00, <2>1, <2>2, <2>5, <2>6
  <2>8. t \in {0} \union Tiles /\ (t # 0 => g.h.floor[t].Amount + p <= MAX_INVENTORY_OBJS)
    <3>1. t = Tilelibre(g.h.floor, g.h.me.Pos, iORO, p)
      OBVIOUS
    <3> HIDE DEF p, S, t
    <3> QED BY <2>2, <2>6, <3>1, TilelibreTakes
  <2>9. ASSUME t # 0, g.left # 0 PROVE laid \in K /\ laid.me.GLD = g.h.me.GLD - p
    <3>0. t \in Tiles
      BY <2>8, <2>9
    <3>1. f \in Floor /\ FloorSound(f)
      <4> HIDE DEF p, t, S
      <4>1. g.h.floor[t].Amount \in Int
        BY <2>2, <3>0, PileFields
      <4>2. g.h.floor[t].Amount + p < Half /\ p >= 1
        BY <2>5, <2>6, <2>8, <2>9, <4>1, HalfRange
      <4>3. iORO \in Objects
        BY InventoryAssumption
      <4> QED BY <2>2, <2>6, <3>0, <4>2, <4>3, MakeObjType
    <3> HIDE DEF f, S, p, t
    <3>2. h1 \in K /\ h1 \in Hands /\ h1.floor = f /\ h1.me = g.h.me
      BY <2>1, <2>2, <3>1, KeptFloor, WithFloor
    <3> HIDE DEF h1
    <3>3. laid \in Hands /\ laid.u = h1.u /\ laid.floor = h1.floor /\ Alike(laid.me, h1.me) /\ laid.me.GLD = g.h.me.GLD - p
      BY <2>7, <3>2, WithGold
    <3> HIDE DEF laid
    <3>4. laid \in K
      BY <3>1, <3>2, <3>3, AlikeKept
    <3> QED BY <3>3, <3>4
  <2> DEFINE next == IF t = 0 THEN g.h ELSE laid
  <2>10. ASSUME g.left # 0
         PROVE next \in K /\ next \in Hands /\ next.me.GLD >= h.me.GLD - (n - (g.left - p))
    <3>1. CASE t = 0
      <4>1. next = g.h
        BY <3>1
      <4>2. g.h.me.GLD >= h.me.GLD - (n - (g.left - p))
        <5> HIDE DEF p, S
        <5> QED BY <1>00, <2>1, <2>2, <2>5, <2>6
      <4> HIDE DEF next, p, S
      <4> QED BY <2>1, <2>2, <4>1, <4>2
    <3>2. CASE t # 0
      <4>1. next = laid
        BY <3>2
      <4> HIDE DEF next, laid, p, S, t
      <4>2. laid \in K /\ laid.me.GLD = g.h.me.GLD - p
        BY <2>9, <2>10, <3>2
      <4>3. laid \in Hands
        BY <4>2, KeptFields
      <4> QED BY <2>6, <4>1, <4>2, <4>3
    <3> QED BY <3>1, <3>2
  <2>11. CASE step[i][g] = g
    BY <2>11
  <2>12. CASE g.left # 0 /\ step[i][g] = [h |-> IF t = 0 THEN g.h ELSE Laid(g), left |-> g.left - p]
    <3>1. step[i][g] = [h |-> next, left |-> g.left - p]
      BY <2>4, <2>12
    <3>2. g.left - p <= n
      <4> HIDE DEF p, S
      <4> QED BY <2>1, <2>5
    <3>3. [h |-> next, left |-> g.left - p] \in S
      <4> DEFINE l == g.left - p
      <4>1. l \in Nat /\ l <= n /\ next \in K /\ next \in Hands /\ next.me.GLD >= h.me.GLD - (n - l)
        BY <2>6, <2>10, <2>12, <3>2
      <4> HIDE DEF l, next, K
      <4>2. [h |-> next, left |-> l] \in S
        BY <4>1
      <4> QED BY <4>2 DEF l
    <3> HIDE DEF step, S
    <3> QED BY <3>1, <3>3
  <2> HIDE DEF step, S
  <2> QED BY <2>3, <2>11, <2>12
<1> DEFINE w == Walked(d, n, step)
<1>4. w \in S
  <2> HIDE DEF S, d, step
  <2> QED BY <1>2, <1>3, WalkedKeeps
<1>5. w.h \in K /\ w.left \in Nat /\ w.left <= n /\ w.h.me.GLD >= h.me.GLD - (n - w.left)
  <2> HIDE DEF K, d, step, w
  <2> QED BY <1>4
<1>6. w.h.me.GLD \in Nat
  <2> HIDE DEF w, d, step
  <2>1. w.h \in Hands
    BY <1>5, KeptFields
  <2> QED BY <2>1, HandFields
<1>7. w.h.me.GLD >= h.me.GLD - n
  <2> HIDE DEF w, d, step, S, K
  <2> QED BY <1>00, <1>5, <1>6
<1>8. Piles(h, n) = w.h
  BY <1>1
<1> HIDE DEF w, d, step, S
<1> QED BY <1>5, <1>7, <1>8

LEMMA TirarOroKeeps ==
  ASSUME NEW u, NEW F, NEW c, NEW b, NEW h \in Kept(u, F, c, b), NEW n \in Nat, n <= h.me.GLD
  PROVE  TirarOro(h, n) \in Kept(u, F, c, b)
<1> DEFINE a == Lesser(n, MaxTirarOro)
           p == Piles(h, a)
           over == n - MaxTirarOro
           g == [p EXCEPT !.me.GLD = p.me.GLD - over]
<1>0. h \in Hands
  BY KeptFields
<1>1. h.me.GLD \in Nat /\ MaxTirarOro \in Nat
  BY <1>0, HandFields, InventoryAssumption
<1>2. a \in Nat /\ a <= h.me.GLD /\ a <= MaxTirarOro /\ a <= n /\ (n > MaxTirarOro => a = MaxTirarOro)
  BY <1>1 DEF Lesser
<1>3. p \in Kept(u, F, c, b) /\ p.me.GLD >= h.me.GLD - a
  <2> HIDE DEF a
  <2> QED BY <1>2, PilesKeeps
<1>4. p \in Hands /\ FloorSound(p.floor)
  BY <1>3, KeptFields
<1>5. TirarOro(h, n) = p \/ (n > MaxTirarOro /\ TirarOro(h, n) = g)
  <2>1. TirarOro(h, n) = IF p.me.GLD = h.me.GLD \/ n <= MaxTirarOro THEN p ELSE g
    BY DEF TirarOro
  <2> HIDE DEF p, g
  <2> QED BY <1>1, <2>1
<1>6. ASSUME n > MaxTirarOro PROVE g \in Kept(u, F, c, b)
  <2> HIDE DEF a, p
  <2>1. p.me.GLD \in Nat
    BY <1>4, HandFields
  <2>2. p.me.GLD - over \in Nat
    BY <1>1, <1>2, <1>3, <1>6, <2>1
  <2> HIDE DEF over
  <2>3. g \in Hands /\ g.u = p.u /\ g.floor = p.floor /\ Alike(g.me, p.me)
    BY <1>4, <2>2, WithGold
  <2> HIDE DEF g
  <2> QED BY <1>3, <1>4, <2>3, AlikeKept
<1> HIDE DEF p, g
<1> QED BY <1>3, <1>5, <1>6

LEMMA TirarTodoKeeps ==
  ASSUME NEW u, NEW F, NEW c, NEW b, NEW h \in Kept(u, F, c, b)
  PROVE  TirarTodo(h) \in Kept(u, F, c, b)
<1> DEFINE bare == TirarTodosLosItems(h)
           n == bare.me.GLD - ProtectedGold
<1>1. bare \in Kept(u, F, c, b)
  BY DropTodosKeeps
<1>2. bare.me.GLD \in Nat /\ ProtectedGold \in Nat
  <2>1. bare \in Hands
    BY <1>1, KeptFields
  <2> HIDE DEF bare
  <2> QED BY <2>1, HandFields, InventoryAssumption
<1>3. TirarTodo(h) \in {h, bare} \/ (bare.me.GLD > ProtectedGold /\ TirarTodo(h) = TirarOro(bare, n))
  BY DEF TirarTodo
<1> HIDE DEF bare
<1>4. ASSUME bare.me.GLD > ProtectedGold PROVE TirarOro(bare, n) \in Kept(u, F, c, b)
  <2>1. n \in Nat /\ n <= bare.me.GLD
    BY <1>2, <1>4
  <2> HIDE DEF n
  <2> QED BY <1>1, <2>1, TirarOroKeeps
<1> HIDE DEF n
<1> QED BY <1>1, <1>3, <1>4

-------------------------------------------------------------------------------
(* The merchant *)

StockRecord == [ObjIndex : {0} \union Objects, Amount : Nat]

Used(inv) == {s \in 1..NpcSlots : inv.Object[s].ObjIndex # 0}

\* A merchant that counts its slots right.
Stock == {inv \in NpcRecord : inv.NroItems = Cardinality(Used(inv))}

LEMMA StockFields ==
  ASSUME NEW inv \in NpcRecord, NEW s \in 1..NpcSlots
  PROVE  /\ inv.Object \in [1..NpcSlots -> StockRecord] /\ inv.NroItems \in Nat
         /\ inv.Object[s] \in StockRecord
         /\ inv.Object[s].ObjIndex \in {0} \union Objects /\ inv.Object[s].Amount \in Nat
<1>1. inv.Object \in [1..NpcSlots -> StockRecord] /\ inv.NroItems \in Nat
  BY DEF NpcRecord, StockRecord
<1>2. inv.Object[s] \in StockRecord
  BY <1>1
<1> QED BY <1>1, <1>2 DEF StockRecord

LEMMA UsedFinite ==
  ASSUME NEW inv
  PROVE  IsFiniteSet(Used(inv)) /\ Cardinality(Used(inv)) \in Nat
<1>1. IsFiniteSet(1..NpcSlots)
  BY InventoryAssumption, FS_Interval
<1>2. Used(inv) \in SUBSET (1..NpcSlots)
  BY DEF Used
<1>3. IsFiniteSet(Used(inv))
  BY <1>1, <1>2, FS_Subset
<1> QED BY <1>3, FS_CardinalityType

\* A slot gets another content, and the counter follows its use.
LEMMA StockChange ==
  ASSUME NEW inv \in Stock, NEW s \in 1..NpcSlots, NEW p \in StockRecord, NEW n,
         n = inv.NroItems + (IF p.ObjIndex # 0 THEN 1 ELSE 0)
                          - (IF inv.Object[s].ObjIndex # 0 THEN 1 ELSE 0)
  PROVE  [Object |-> [inv.Object EXCEPT ![s] = p], NroItems |-> n] \in Stock
<1> DEFINE f == [inv.Object EXCEPT ![s] = p]
           new == [Object |-> f, NroItems |-> n]
           U == Used(inv)
           V == Used(new)
<1>1. inv \in NpcRecord /\ inv.NroItems = Cardinality(U)
  BY DEF Stock
<1>2. inv.Object \in [1..NpcSlots -> StockRecord]
  BY <1>1, StockFields
<1>3. f \in [1..NpcSlots -> StockRecord]
  BY <1>2
<1>4. IsFiniteSet(U) /\ Cardinality(U) \in Nat
  BY UsedFinite
<1>5. V = IF p.ObjIndex # 0 THEN U \union {s} ELSE U \ {s}
  <2>1. V = {r \in 1..NpcSlots : f[r].ObjIndex # 0}
    BY DEF Used
  <2>2. U = {r \in 1..NpcSlots : inv.Object[r].ObjIndex # 0}
    BY DEF Used
  <2>3. ASSUME NEW r \in 1..NpcSlots PROVE f[r] = IF r = s THEN p ELSE inv.Object[r]
    BY <1>2
  <2> HIDE DEF f, U, V
  <2> QED BY <2>1, <2>2, <2>3
<1>6. s \in U <=> inv.Object[s].ObjIndex # 0
  BY DEF Used
<1>7. Cardinality(V) = n /\ n \in Nat
  <2>1. /\ Cardinality(U \union {s}) = IF s \in U THEN Cardinality(U) ELSE Cardinality(U) + 1
        /\ Cardinality(U \ {s}) = IF s \in U THEN Cardinality(U) - 1 ELSE Cardinality(U)
    <3> HIDE DEF U
    <3> QED BY <1>4, FS_AddElement, FS_RemoveElement
  <2>2. Cardinality(V) \in Nat
    BY UsedFinite
  <2> HIDE DEF U, V
  <2>3. CASE p.ObjIndex # 0 /\ inv.Object[s].ObjIndex # 0
    BY <1>1, <1>4, <1>5, <1>6, <2>1, <2>2, <2>3
  <2>4. CASE p.ObjIndex # 0 /\ inv.Object[s].ObjIndex = 0
    BY <1>1, <1>4, <1>5, <1>6, <2>1, <2>2, <2>4
  <2>5. CASE p.ObjIndex = 0 /\ inv.Object[s].ObjIndex # 0
    BY <1>1, <1>4, <1>5, <1>6, <2>1, <2>2, <2>5
  <2>6. CASE p.ObjIndex = 0 /\ inv.Object[s].ObjIndex = 0
    BY <1>1, <1>4, <1>5, <1>6, <2>1, <2>2, <2>6
  <2> QED BY <2>3, <2>4, <2>5, <2>6
<1>8. new \in NpcRecord
  <2> HIDE DEF f
  <2> QED BY <1>3, <1>7 DEF NpcRecord, StockRecord
<1>9. new.NroItems = Cardinality(Used(new))
  BY <1>7
<1> HIDE DEF new
<1>10. new \in Stock
  BY <1>8, <1>9 DEF Stock
<1> QED BY <1>10 DEF new

LEMMA ElementOfSeq ==
  ASSUME NEW A, NEW q \in Seq(A), NEW i \in 1..Len(q)
  PROVE  q[i] \in A
OBVIOUS

\* The stock of the data files.
LEMMA PlantillaFields ==
  ASSUME NEW s \in 1..Len(Plantilla)
  PROVE  /\ Plantilla[s] \in StockRecord /\ Plantilla[s].ObjIndex \in Objects /\ Plantilla[s].ObjIndex # 0
         /\ Plantilla[s].Amount \in Nat
<1>1. Plantilla \in Seq([ObjIndex : Objects, Amount : Nat \ {0}])
  BY InventoryAssumption
<1>2. Plantilla[s] \in [ObjIndex : Objects, Amount : Nat \ {0}]
  BY <1>1, ElementOfSeq
<1> QED BY <1>2, ItemsAssumption DEF StockRecord, Objects

LEMMA PlantillaLength == Len(Plantilla) \in Nat /\ NpcSlots \in Nat /\ Len(Plantilla) <= NpcSlots
<1>1. Plantilla \in Seq([ObjIndex : Objects, Amount : Nat \ {0}])
  BY InventoryAssumption
<1> QED BY <1>1, InventoryAssumption

\* A merchant with the stock of the data files, and empty slots behind it.
LEMMA StockLoaded ==
  ASSUME NEW f \in [1..NpcSlots -> StockRecord],
         \A s \in 1..NpcSlots : IF s <= Len(Plantilla) THEN f[s] = Plantilla[s] ELSE f[s].ObjIndex = 0
  PROVE  [Object |-> f, NroItems |-> Len(Plantilla)] \in Stock
<1> DEFINE new == [Object |-> f, NroItems |-> Len(Plantilla)]
<1>1. new \in NpcRecord
  BY PlantillaLength DEF NpcRecord, StockRecord
<1>2. Used(new) = 1..Len(Plantilla)
  <2>1. ASSUME NEW s \in 1..NpcSlots PROVE f[s].ObjIndex # 0 <=> s <= Len(Plantilla)
    <3>1. CASE s <= Len(Plantilla)
      <4>1. s \in 1..Len(Plantilla)
        BY <3>1, PlantillaLength
      <4>2. f[s] = Plantilla[s]
        BY <3>1
      <4> QED BY <3>1, <4>1, <4>2, PlantillaFields
    <3>2. CASE ~(s <= Len(Plantilla))
      BY <3>2
    <3> QED BY <3>1, <3>2
  <2> QED BY <2>1, PlantillaLength DEF Used
<1>3. Cardinality(1..Len(Plantilla)) = Len(Plantilla)
  <2> DEFINE len == Len(Plantilla)
  <2>1. len \in Nat /\ len \in Int /\ 1 \in Int
    BY PlantillaLength
  <2> HIDE DEF len
  <2>2. Cardinality(1..len) = IF 1 > len THEN 0 ELSE len - 1 + 1
    BY <2>1, FS_Interval
  <2>3. Cardinality(1..len) = len
    BY <2>1, <2>2
  <2> QED BY <2>3 DEF len
<1>4. new.NroItems = Cardinality(Used(new))
  BY <1>2, <1>3
<1> HIDE DEF new
<1>5. new \in Stock
  BY <1>1, <1>4 DEF Stock
<1> QED BY <1>5 DEF new

LEMMA NothingInStock == Nothing \in StockRecord /\ Nothing.ObjIndex = 0
  BY DEF Nothing, StockRecord

LEMMA FilledStock == Filled(Plantilla) \in Stock
<1> DEFINE f == [s \in 1..NpcSlots |-> IF s <= Len(Plantilla) THEN Plantilla[s] ELSE Nothing]
<1>1. ASSUME NEW s \in 1..NpcSlots, s <= Len(Plantilla) PROVE Plantilla[s] \in StockRecord
  <2>1. s \in 1..Len(Plantilla)
    BY <1>1, PlantillaLength
  <2> QED BY <2>1, PlantillaFields
<1>2. f \in [1..NpcSlots -> StockRecord]
  BY <1>1, NothingInStock
<1>3. \A s \in 1..NpcSlots : IF s <= Len(Plantilla) THEN f[s] = Plantilla[s] ELSE f[s].ObjIndex = 0
  BY NothingInStock
<1>4. Filled(Plantilla) = [Object |-> f, NroItems |-> Len(Plantilla)]
  BY DEF Filled
<1> HIDE DEF f
<1> QED BY <1>2, <1>3, <1>4, StockLoaded

LEMMA CargarStock ==
  ASSUME NEW inv \in Stock, inv.NroItems = 0
  PROVE  CargarInvent(inv) \in Stock
<1> DEFINE f == [s \in 1..NpcSlots |->
                   IF s <= Len(Plantilla) THEN Plantilla[s]
                   ELSE IF s = Len(Plantilla) + 1 THEN inv.Object[s] ELSE Nothing]
<1>0. inv \in NpcRecord /\ inv.NroItems = Cardinality(Used(inv))
  BY DEF Stock
<1>1. Used(inv) = {}
  BY <1>0, UsedFinite, FS_EmptySet
<1>2. ASSUME NEW s \in 1..NpcSlots PROVE inv.Object[s].ObjIndex = 0 /\ inv.Object[s] \in StockRecord
  BY <1>0, <1>1, StockFields DEF Used
<1>3. ASSUME NEW s \in 1..NpcSlots, s <= Len(Plantilla) PROVE Plantilla[s] \in StockRecord
  <2>1. s \in 1..Len(Plantilla)
    BY <1>3, PlantillaLength
  <2> QED BY <2>1, PlantillaFields
<1>4. f \in [1..NpcSlots -> StockRecord]
  BY <1>2, <1>3, NothingInStock
<1>5. \A s \in 1..NpcSlots : IF s <= Len(Plantilla) THEN f[s] = Plantilla[s] ELSE f[s].ObjIndex = 0
  BY <1>2, NothingInStock
<1>6. CargarInvent(inv) = [Object |-> f, NroItems |-> Len(Plantilla)]
  BY DEF CargarInvent
<1> HIDE DEF f
<1> QED BY <1>4, <1>5, <1>6, StockLoaded

LEMMA EncontrarType == ASSUME NEW o PROVE EncontrarCant(o) \in Nat
<1> DEFINE S == {i \in 1..Len(Plantilla) : Plantilla[i].ObjIndex = o}
<1>1. S \in SUBSET Nat /\ \A i \in S : i \in 1..Len(Plantilla)
  BY PlantillaLength
<1>2. EncontrarCant(o) = IF S = {} THEN 0 ELSE Plantilla[Min(S)].Amount
  BY DEF EncontrarCant
<1> HIDE DEF S
<1>3. S # {} => Min(S) \in 1..Len(Plantilla)
  BY <1>1, MinOf
<1>4. S # {} => Plantilla[Min(S)].Amount \in Nat
  BY <1>3, PlantillaFields
<1> QED BY <1>2, <1>4

LEMMA StockEdited ==
  ASSUME NEW inv \in NpcRecord, NEW s, NEW p, NEW n
  PROVE  [inv EXCEPT !.Object[s] = p, !.NroItems = n]
           = [Object |-> [inv.Object EXCEPT ![s] = p], NroItems |-> n]
<1> DEFINE f == [inv.Object EXCEPT ![s] = p]
           g == [inv EXCEPT !.Object = f]
<1>1. g = [Object |-> f, NroItems |-> inv.NroItems]
  <2> HIDE DEF f
  <2> QED BY DEF NpcRecord
<1>2. [inv EXCEPT !.Object[s] = p, !.NroItems = n] = [g EXCEPT !.NroItems = n]
  OBVIOUS
<1> HIDE DEF f, g
<1>3. [g EXCEPT !.NroItems = n] = [Object |-> f, NroItems |-> n]
  BY <1>1
<1> QED BY <1>2, <1>3 DEF f

\* A purchase of n units of a slot that holds them.
LEMMA QuitarNpcStock ==
  ASSUME NEW inv \in Stock, NEW s \in 1..NpcSlots, NEW n \in Nat, n <= inv.Object[s].Amount,
         inv.Object[s].ObjIndex # 0
  PROVE  QuitarNpcInvItem(inv, s, n) \in Stock
<1> DEFINE o == inv.Object[s].ObjIndex
           p == [inv.Object[s] EXCEPT !.Amount = inv.Object[s].Amount - n]
           less == [inv EXCEPT !.Object[s].Amount = inv.Object[s].Amount - n]
           gone == [inv EXCEPT !.Object[s] = Nothing, !.NroItems = inv.NroItems - 1]
           more == Refilled(gone, s, o)
           back == IF ObjData[o].Crucial /\ ~QuedanItems(gone, o) /\ EncontrarCant(o) > 0
                   THEN more ELSE gone
<1>0. inv \in NpcRecord
  BY DEF Stock
<1>1. /\ inv.Object \in [1..NpcSlots -> StockRecord] /\ inv.NroItems \in Nat
      /\ inv.Object[s] \in StockRecord
      /\ o \in {0} \union Objects /\ inv.Object[s].Amount \in Nat
  BY <1>0, StockFields
<1>2. less \in Stock
  <2>1. inv.Object[s].Amount - n \in Nat
    BY <1>1
  <2>2. p \in StockRecord /\ p.ObjIndex = o
    <3> DEFINE a == inv.Object[s].Amount - n
    <3>1. a \in Nat
      BY <2>1
    <3> HIDE DEF a
    <3> QED BY <1>1, <3>1 DEF StockRecord
  <2>3. less = [Object |-> [inv.Object EXCEPT ![s] = p], NroItems |-> inv.NroItems]
    BY <1>0, <1>1 DEF NpcRecord
  <2> DEFINE m == inv.NroItems
  <2>4. m = inv.NroItems + (IF p.ObjIndex # 0 THEN 1 ELSE 0) - (IF inv.Object[s].ObjIndex # 0 THEN 1 ELSE 0)
    BY <1>1, <2>2
  <2> HIDE DEF p, less
  <2> QED BY <2>2, <2>3, <2>4, StockChange
<1>3. gone \in Stock /\ gone.Object[s] = Nothing
  <2> DEFINE m == inv.NroItems - 1
  <2>1. gone = [Object |-> [inv.Object EXCEPT ![s] = Nothing], NroItems |-> m]
    <3>1. gone = [inv EXCEPT !.Object[s] = Nothing, !.NroItems = m]
      OBVIOUS
    <3> HIDE DEF m, gone
    <3> QED BY <1>0, <3>1, StockEdited
  <2>2. m = inv.NroItems + (IF Nothing.ObjIndex # 0 THEN 1 ELSE 0) - (IF inv.Object[s].ObjIndex # 0 THEN 1 ELSE 0)
    BY <1>1, NothingInStock
  <2>3. [Object |-> [inv.Object EXCEPT ![s] = Nothing], NroItems |-> m] \in Stock
    <3> HIDE DEF m
    <3> QED BY <2>2, NothingInStock, StockChange
  <2>4. [inv.Object EXCEPT ![s] = Nothing][s] = Nothing
    BY <1>1
  <2> QED BY <2>1, <2>3, <2>4
<1> HIDE DEF gone
<1>4. more \in Stock
  <2> DEFINE q == [ObjIndex |-> o, Amount |-> EncontrarCant(o)]
             m == gone.NroItems + 1
  <2>0. gone \in NpcRecord
    BY <1>3 DEF Stock
  <2>00. gone.NroItems \in Nat /\ gone.Object \in [1..NpcSlots -> StockRecord]
    BY <2>0, StockFields
  <2>1. q \in StockRecord /\ q.ObjIndex = o
    BY <1>1, EncontrarType DEF StockRecord
  <2>2. more = [Object |-> [gone.Object EXCEPT ![s] = q], NroItems |-> m]
    <3>1. more = [gone EXCEPT !.Object[s] = q, !.NroItems = m]
      BY DEF Refilled
    <3> HIDE DEF q, m, more
    <3> QED BY <2>0, <3>1, StockEdited
  <2>3. m = gone.NroItems + (IF q.ObjIndex # 0 THEN 1 ELSE 0) - (IF gone.Object[s].ObjIndex # 0 THEN 1 ELSE 0)
    BY <1>3, <2>00, <2>1, NothingInStock
  <2> HIDE DEF q, m, more
  <2> QED BY <1>3, <2>1, <2>2, <2>3, StockChange
<1>5. back \in Stock
  BY <1>3, <1>4
<1>6. QuitarNpcInvItem(inv, s, n) \in {less, back} \/ (back.NroItems = 0 /\ QuitarNpcInvItem(inv, s, n) = CargarInvent(back))
  BY DEF QuitarNpcInvItem, gone
<1> HIDE DEF back, less
<1> QED BY <1>2, <1>5, <1>6, CargarStock

LEMMA FirstFitIn ==
  ASSUME NEW N \in Nat, NEW f, DOMAIN f = 1..N, NEW o, NEW n
  PROVE  FirstFit(f, o, n) \in {0} \union (1..N)
         /\ (FirstFit(f, o, n) # 0 => f[FirstFit(f, o, n)].ObjIndex \in {0, o})
<1> DEFINE room == {s \in DOMAIN f : f[s].ObjIndex = o /\ f[s].Amount + n <= MAX_INVENTORY_OBJS}
           free == {s \in DOMAIN f : f[s].ObjIndex = 0}
<1>1. FirstFit(f, o, n) = IF room # {} THEN Min(room) ELSE IF free # {} THEN Min(free) ELSE 0
  BY DEF FirstFit
<1>2. room \in SUBSET Nat /\ free \in SUBSET Nat
  OBVIOUS
<1>3. /\ \A s \in room : s \in 1..N /\ f[s].ObjIndex = o
      /\ \A s \in free : s \in 1..N /\ f[s].ObjIndex = 0
  OBVIOUS
<1> HIDE DEF room, free
<1>4. (room # {} => Min(room) \in room) /\ (free # {} => Min(free) \in free)
  BY <1>2, MinOf
<1> QED BY <1>1, <1>3, <1>4

LEMMA StockedStock ==
  ASSUME NEW inv \in Stock, NEW o \in Objects, NEW n \in Nat
  PROVE  Stocked(inv, o, n) \in Stock
<1> DEFINE s == FirstFit(inv.Object, o, n)
           p == [ObjIndex |-> o, Amount |-> Lesser(MAX_INVENTORY_OBJS, inv.Object[s].Amount + n)]
           m == IF inv.Object[s].ObjIndex = 0 THEN inv.NroItems + 1 ELSE inv.NroItems
<1>0. inv \in NpcRecord /\ o # 0 /\ NpcSlots \in Nat
  BY ItemsAssumption, InventoryAssumption DEF Stock, Objects
<1>1. inv.Object \in [1..NpcSlots -> StockRecord] /\ inv.NroItems \in Nat
  BY <1>0 DEF NpcRecord, StockRecord
<1>2. s \in {0} \union (1..NpcSlots)
  BY <1>0, <1>1, FirstFitIn
<1>3. Stocked(inv, o, n) = IF s = 0 THEN inv ELSE [Object |-> [inv.Object EXCEPT ![s] = p], NroItems |-> m]
  BY DEF Stocked
<1> HIDE DEF s
<1>4. ASSUME s # 0 PROVE [Object |-> [inv.Object EXCEPT ![s] = p], NroItems |-> m] \in Stock
  <2>1. s \in 1..NpcSlots
    BY <1>2, <1>4
  <2>2. inv.Object[s].Amount \in Nat
    BY <1>0, <2>1, StockFields
  <2>3. Lesser(MAX_INVENTORY_OBJS, inv.Object[s].Amount + n) \in Nat
    BY <2>2, HalfRange DEF Lesser
  <2>4. p \in StockRecord /\ p.ObjIndex = o
    BY <2>3 DEF StockRecord
  <2>5. m = inv.NroItems + (IF p.ObjIndex # 0 THEN 1 ELSE 0) - (IF inv.Object[s].ObjIndex # 0 THEN 1 ELSE 0)
    BY <1>0, <1>1, <2>4
  <2> HIDE DEF p, m
  <2> QED BY <2>1, <2>4, <2>5, StockChange
<1> QED BY <1>3, <1>4

-------------------------------------------------------------------------------
(* The inductive invariant *)

\* A user between two handlers.
UserSound(me) == SlotsSound(me.Object) /\ MarksSound(me, {}) /\ Packed(me)

\* Users, floor and merchant are sound.
IInv ==
  /\ user \in [Users -> UserRecord] /\ floor \in Floor /\ npc \in Stock
  /\ FloorSound(floor)
  /\ \A u \in Users : UserSound(user[u])

LEMMA InvHand ==
  ASSUME IInv, NEW u \in Users
  PROVE  /\ Hand(u) \in Sound(u) /\ Hand(u) \in KeptFrom(Hand(u)) /\ Hand(u) \in Hands
         /\ Hand(u).u = u /\ Hand(u).me = user[u] /\ Hand(u).floor = floor
         /\ user[u] \in UserRecord /\ floor \in Floor /\ FloorSound(floor) /\ npc \in Stock
<1>1. user[u] \in UserRecord /\ u \in DOMAIN Trait
  BY InventoryAssumption DEF IInv
<1>2. Hand(u) \in Hands /\ Hand(u).u = u /\ Hand(u).me = user[u] /\ Hand(u).floor = floor
  BY <1>1 DEF IInv, Hand, Hands
<1>3. Hand(u) \in Sound(u)
  BY <1>2 DEF IInv, UserSound, Sound
<1> QED BY <1>1, <1>2, <1>3, SoundIsKept DEF IInv

\* A handler that leaves sound records leaves a sound world.
LEMMA UsersLeave ==
  ASSUME IInv, NEW u \in Users, NEW m \in UserRecord, UserSound(m), user' = [user EXCEPT ![u] = m],
         floor' \in Floor, FloorSound(floor'), npc' \in Stock
  PROVE  IInv'
<1>1. user' \in [Users -> UserRecord]
  BY DEF IInv
<1>2. ASSUME NEW w \in Users PROVE UserSound(user'[w])
  <2>1. user'[w] = IF w = u THEN m ELSE user[w]
    BY DEF IInv
  <2> QED BY <2>1 DEF IInv
<1> QED BY <1>1, <1>2 DEF IInv

LEMMA SoundParts ==
  ASSUME NEW u, NEW g \in Sound(u)
  PROVE  /\ g.me \in UserRecord /\ UserSound(g.me) /\ g.floor \in Floor /\ FloorSound(g.floor) /\ g.u = u
         /\ g.me.GLD \in Nat
<1>1. g \in Hands
  BY SoundFields
<1> QED BY <1>1, SoundFields, HandFields DEF UserSound

LEMMA HandLeaves ==
  ASSUME IInv, NEW u \in Users, NEW g \in Sound(u), Leaves(g)
  PROVE  IInv'
<1>1. g.me \in UserRecord /\ UserSound(g.me) /\ g.floor \in Floor /\ FloorSound(g.floor) /\ g.u = u
  BY SoundParts
<1>2. user' = [user EXCEPT ![u] = g.me] /\ floor' = g.floor /\ npc' = npc
  BY <1>1 DEF Leaves
<1>3. npc' \in Stock
  BY <1>2 DEF IInv
<1> QED BY <1>1, <1>2, <1>3, UsersLeave

\* ... one that keeps its hand, above all.
LEMMA HandKeepsLeaves ==
  ASSUME IInv, NEW u \in Users, NEW g \in KeptFrom(Hand(u)), Leaves(g)
  PROVE  IInv'
<1>1. g \in Sound(u)
  BY InvHand, KeptIsSound
<1> QED BY <1>1, HandLeaves

\* Gold changes hands and no slot changes.
LEMMA GoldUser ==
  ASSUME NEW m \in UserRecord, UserSound(m), NEW n \in Nat
  PROVE  [m EXCEPT !.GLD = n] \in UserRecord /\ UserSound([m EXCEPT !.GLD = n])
<1> DEFINE g == [m EXCEPT !.GLD = n]
<1>1. g \in UserRecord /\ Alike(g, m)
  BY DEF UserRecord, Alike
<1> HIDE DEF g
<1>2. SlotsSound(g.Object) /\ MarksSound(g, {}) /\ Packed(g)
  BY <1>1 DEF UserSound, Alike, MarksSound, Packed
<1>3. g \in UserRecord /\ UserSound(g)
  BY <1>1, <1>2 DEF UserSound
<1> QED BY <1>3 DEF g

LEMMA UserSlot ==
  ASSUME IInv, NEW u \in Users, NEW s \in Slots
  PROVE  /\ user[u].Object[s] \in SlotRecord /\ user[u].Object[s].ObjIndex \in {0} \union Objects
         /\ user[u].Object[s].Amount \in Int /\ user[u].Object[s].Equipped \in BOOLEAN
         /\ SlotSound(user[u].Object[s])
<1>1. Hand(u) \in Hands /\ Hand(u).me = user[u] /\ SlotsSound(user[u].Object)
  BY InvHand DEF IInv, UserSound
<1> QED BY <1>1, SlotFields DEF SlotsSound

-------------------------------------------------------------------------------
(* Every handler keeps it *)

LEMMA DropInv ==
  ASSUME IInv, WithinBound, NEW u \in Users, NEW s \in Slots, NEW n \in Amounts, Drop(u, s, n)
  PROVE  IInv'
<1> DEFINE h == Hand(u)
           t == user[u].Pos
           a == Lesser(n, h.me.Object[s].Amount)
<1>1. h \in KeptFrom(h) /\ h.me = user[u] /\ h.floor = floor /\ h \in Hands
  BY InvHand
<1>2. t \in Tiles /\ floor \in Floor
  BY <1>1, HandFields
<1>3. n \in Int /\ n <= MAX_INVENTORY_OBJS /\ MAX_INVENTORY_OBJS \in Int /\ Half \in Int
  BY HalfRange DEF Amounts
<1>4. floor[t].Amount \in Int /\ floor[t].Amount <= MaxPile
  BY <1>2, PileFields DEF WithinBound
<1>5. user[u].Object[s].Amount \in Int /\ user[u].Object[s].Amount <= MaxHeld
  BY UserSlot DEF WithinBound
<1>6. /\ MaxPile \in Nat /\ MaxHeld \in Nat /\ MAX_INVENTORY_OBJS + MaxPile < Half
      /\ MaxHeld + MaxPile < Half + MAX_INVENTORY_OBJS
  BY InventoryAssumption DEF Half
<1>7. a \in Int /\ a <= n
  BY <1>1, <1>3, <1>5, LesserType
<1> HIDE DEF h, t, a
<1>8. h.floor[t].Amount + a < Half
  BY <1>1, <1>3, <1>4, <1>6, <1>7
<1>9. h.me.Object[s].Amount + h.floor[t].Amount < Half + MAX_INVENTORY_OBJS
  BY <1>1, <1>3, <1>4, <1>5, <1>6
<1>10. DropFrom(DesequiparTo, h, s, n, t) \in KeptFrom(h)
  BY <1>1, <1>2, <1>3, <1>8, <1>9, DesequiparGood, DropFromKeeps DEF KeptFrom, a
<1>11. Leaves(DropFrom(DesequiparTo, h, s, n, t))
  BY DEF Drop, DropObj, h, t
<1> QED BY <1>10, <1>11, HandKeepsLeaves DEF h

LEMMA GetInv ==
  ASSUME IInv, NEW u \in Users, Get(u)
  PROVE  IInv'
<1> DEFINE t == user[u].Pos
           there == floor[t]
           o == there.ObjIndex
           n == there.Amount
           cleared == EraseObj(floor, t, n)
           h == [Hand(u) EXCEPT !.floor = cleared]
           gold == [u |-> u, me |-> [user[u] EXCEPT !.GLD = user[u].GLD + n], floor |-> cleared]
           met == [u |-> u, me |-> MeterItemEnInventario(user[u], o, n), floor |-> cleared]
<1>1. /\ Hand(u) \in Hands /\ Hand(u).u = u /\ Hand(u).me = user[u] /\ Hand(u).floor = floor
      /\ Hand(u) \in KeptFrom(Hand(u)) /\ user[u] \in UserRecord
  BY InvHand
<1>2. t \in Tiles /\ floor \in Floor /\ FloorSound(floor) /\ user[u].GLD \in Nat
  BY <1>1, HandFields DEF IInv
<1>3. o \in {0} \union Objects /\ n \in Int /\ Whole(there)
  BY <1>2, PileFields DEF FloorSound
<1>4. o # 0 /\ (Leaves(gold) \/ Leaves(met))
  BY DEF Get
<1>5. o \in Objects /\ n \in Nat \ {0}
  BY <1>3, <1>4 DEF Whole
<1>6. cleared \in Floor /\ FloorSound(cleared)
  BY <1>2, EraseAll
<1> HIDE DEF cleared
<1>7. h \in KeptFrom(Hand(u)) /\ h \in Hands /\ h.u = u /\ h.me = user[u] /\ h.floor = cleared
  BY <1>1, <1>6, KeptFloor, WithFloor DEF KeptFrom
<1> HIDE DEF h
<1>8. CASE Leaves(gold)
  <2> DEFINE m == user[u].GLD + n
             g == [h EXCEPT !.me.GLD = m]
  <2>1. m \in Nat
    BY <1>2, <1>5
  <2>2. gold = g
    BY <1>7 DEF Hands
  <2> HIDE DEF m
  <2>3. g \in Hands /\ g.u = h.u /\ g.floor = h.floor /\ Alike(g.me, h.me)
    BY <1>7, <2>1, WithGold
  <2> HIDE DEF g
  <2>4. g \in KeptFrom(Hand(u))
    BY <1>6, <1>7, <2>3, AlikeKept DEF KeptFrom
  <2> HIDE DEF gold
  <2> QED BY <1>8, <2>2, <2>4, HandKeepsLeaves
<1>9. CASE Leaves(met)
  <2> DEFINE g == [h EXCEPT !.me = MeterItemEnInventario(h.me, o, n)]
  <2>1. met = g
    BY <1>7 DEF Hands
  <2> HIDE DEF met, o, n
  <2>2. g \in KeptFrom(Hand(u))
    BY <1>5, <1>7, MeterItemKeeps DEF KeptFrom
  <2> QED BY <1>9, <2>1, <2>2, HandKeepsLeaves
<1> QED BY <1>4, <1>8, <1>9

LEMMA EquipInv ==
  ASSUME IInv, NEW u \in Users, NEW s \in Slots, Equip(u, s) \/ UseEquipable(u, s)
  PROVE  IInv'
<1>1. Leaves(EquiparInvItem(Hand(u), s))
  BY DEF Equip, UseEquipable
<1>2. EquiparInvItem(Hand(u), s) \in Sound(u)
  BY InvHand, EquiparSound
<1> QED BY <1>1, <1>2, HandLeaves

LEMMA ConsumableInv ==
  ASSUME IInv, NEW u \in Users, NEW s \in Slots, UseConsumable(u, s)
  PROVE  IInv'
<1> DEFINE o == user[u].Object[s].ObjIndex
           v == Type(o) = "otPociones" /\ ObjData[o].TipoPocion = 6
           h == [Hand(u) EXCEPT !.me.Muerto = v]
<1>1. Leaves(QuitarUserInvItem(h, s, 1))
  BY DEF UseConsumable
<1>2. v \in BOOLEAN
  OBVIOUS
<1> HIDE DEF v
<1>3. h \in Sound(u)
  BY <1>2, InvHand, LifeSound
<1> HIDE DEF h
<1>4. QuitarUserInvItem(h, s, 1) \in KeptFrom(h)
  BY <1>3, SoundIsKept, QuitarItemKeeps DEF KeptFrom
<1>5. QuitarUserInvItem(h, s, 1) \in Sound(u)
  BY <1>3, <1>4, KeptIsSound
<1> QED BY <1>1, <1>5, HandLeaves

LEMMA BoatInv ==
  ASSUME IInv, NEW u \in Users, NEW s \in Slots, UseBoat(u, s)
  PROVE  IInv'
<1> DEFINE e == [ObjIndex |-> user[u].Object[s].ObjIndex, Slot |-> s]
           v == ~user[u].Navegando
           g == [Hand(u) EXCEPT !.me.Navegando = v, !.me.Eqp["otBarcos"] = e]
<1>0. Hand(u).me = user[u]
  BY InvHand
<1>1. Leaves(g)
  BY <1>0 DEF UseBoat
<1>2. v \in BOOLEAN /\ e \in EqpRecord
  BY UserSlot DEF EqpRecord
<1> HIDE DEF e, v
<1>3. g \in Sound(u)
  BY <1>2, InvHand, BoatSound
<1> QED BY <1>1, <1>3, HandLeaves

LEMMA GoldInv ==
  ASSUME IInv, NEW u \in Users, NEW n \in 1..MAXORO, DropGold(u, n)
  PROVE  IInv'
<1>1. Leaves(TirarOro(Hand(u), n)) /\ n <= Hand(u).me.GLD /\ n \in Nat
  BY InvHand DEF DropGold
<1>2. TirarOro(Hand(u), n) \in KeptFrom(Hand(u))
  BY <1>1, InvHand, TirarOroKeeps DEF KeptFrom
<1> QED BY <1>1, <1>2, HandKeepsLeaves

LEMMA DieInv ==
  ASSUME IInv, NEW u \in Users, UserDie(u)
  PROVE  IInv'
<1> DEFINE dead == [Hand(u) EXCEPT !.me.Muerto = TRUE]
           bare == IF user[u].Pos \in ZONAPELEA THEN dead
                   ELSE IF Trait[u].newbie THEN TirarTodosLosItemsNoNewbies(dead)
                   ELSE TirarTodo(dead)
           h1 == DesequiparTipo(bare, "otArmadura")
           h2 == DesequiparTipo(h1, "otWeapon")
           h3 == DesequiparTipo(h2, "otCASCO")
           h4 == DesequiparTipo(h3, "otAnillo")
           h5 == DesequiparTipo(h4, "otFlechas")
           h6 == DesequiparTipo(h5, "otESCUDO")
<1>1. Leaves(h6)
  BY DEF UserDie
<1>2. dead \in Sound(u)
  BY InvHand, LifeSound
<1> HIDE DEF dead
<1>3. dead \in KeptFrom(dead)
  BY <1>2, SoundIsKept
<1>4. bare \in KeptFrom(dead)
  BY <1>3, DropTodosKeeps, TirarTodoKeeps DEF KeptFrom
<1> HIDE DEF bare
<1>5. \A k \in {"otArmadura", "otWeapon", "otCASCO", "otAnillo", "otFlechas", "otESCUDO"} :
        \A h \in KeptFrom(dead) : DesequiparTipo(h, k) \in KeptFrom(dead)
  BY DesequiparTipoKeeps DEF EqTypes, KeptFrom
<1>6. h6 \in KeptFrom(dead)
  <2>1. h1 \in KeptFrom(dead)
    BY <1>4, <1>5
  <2> HIDE DEF h1
  <2>2. h2 \in KeptFrom(dead)
    BY <1>5, <2>1
  <2> HIDE DEF h2
  <2>3. h3 \in KeptFrom(dead)
    BY <1>5, <2>2
  <2> HIDE DEF h3
  <2>4. h4 \in KeptFrom(dead)
    BY <1>5, <2>3
  <2> HIDE DEF h4
  <2>5. h5 \in KeptFrom(dead)
    BY <1>5, <2>4
  <2> HIDE DEF h5
  <2> QED BY <1>5, <2>5
<1> HIDE DEF h6
<1>7. h6 \in Sound(u)
  BY <1>2, <1>6, KeptIsSound
<1> QED BY <1>1, <1>7, HandLeaves

LEMMA ReviveInv ==
  ASSUME IInv, NEW u \in Users, Revive(u)
  PROVE  IInv'
<1>1. [Hand(u) EXCEPT !.me.Muerto = FALSE] \in Sound(u)
  BY InvHand, LifeSound
<1> QED BY <1>1, HandLeaves DEF Revive

LEMMA NewbieInv ==
  ASSUME IInv, NEW u \in Users, QuitarNewbieObj(u)
  PROVE  IInv'
<1>1. QuitarNewbies(Hand(u)) \in KeptFrom(Hand(u))
  BY InvHand, QuitarNewbiesKeeps DEF KeptFrom
<1> QED BY <1>1, HandKeepsLeaves DEF QuitarNewbieObj

LEMMA DepositInv ==
  ASSUME IInv, NEW u \in Users, NEW s \in Slots, NEW num \in Amounts, Deposit(u, s, num)
  PROVE  IInv'
<1> DEFINE it == user[u].Object[s]
           n == Lesser(num, it.Amount)
           b == FirstFit(user[u].Banco, it.ObjIndex, n)
           a == user[u].Banco[b].Amount + n
           p == [ObjIndex |-> it.ObjIndex, Amount |-> a]
           h == [Hand(u) EXCEPT !.me.Banco[b] = p]
<1>1. /\ Hand(u) \in Hands /\ Hand(u).me = user[u] /\ Hand(u) \in Sound(u)
      /\ it.ObjIndex \in {0} \union Objects /\ it.Amount \in Int
  BY InvHand, UserSlot
<1>2. it.Amount > 0 /\ num \in Nat
  <2>1. it.Amount > 0
    BY DEF Deposit
  <2>2. num \in Nat
    BY DEF Amounts
  <2> QED BY <2>1, <2>2
<1>3. n \in Nat
  BY <1>1, <1>2 DEF Lesser
<1>4. b # 0 /\ Leaves(QuitarUserInvItem(h, s, n))
  BY <1>1 DEF Deposit
<1>5. MAX_BANCOINVENTORY_SLOTS \in Nat /\ DOMAIN user[u].Banco = 1..MAX_BANCOINVENTORY_SLOTS
  BY <1>1, ItemsAssumption DEF Hands, UserRecord, BankSlots
<1>6. b \in BankSlots
  <2> HIDE DEF n, it
  <2>1. b \in {0} \union (1..MAX_BANCOINVENTORY_SLOTS)
    BY <1>5, FirstFitIn
  <2> QED BY <1>4, <2>1 DEF BankSlots
<1> HIDE DEF n, b
<1>7. user[u].Banco[b].Amount \in Nat
  BY <1>1, <1>6, BankFields
<1>8. p \in BankRecord
  <2>1. a \in Nat
    BY <1>3, <1>7
  <2> HIDE DEF a
  <2> QED BY <1>1, <2>1 DEF BankRecord
<1> HIDE DEF p
<1>9. h \in Sound(u)
  BY <1>1, <1>6, <1>8, BankSound
<1> HIDE DEF h
<1>10. QuitarUserInvItem(h, s, n) \in KeptFrom(h)
  BY <1>3, <1>9, SoundIsKept, QuitarItemKeeps DEF KeptFrom
<1>11. QuitarUserInvItem(h, s, n) \in Sound(u)
  BY <1>9, <1>10, KeptIsSound
<1> QED BY <1>4, <1>11, HandLeaves

LEMMA WithdrawInv ==
  ASSUME IInv, NEW u \in Users, NEW b \in BankSlots, NEW num \in Amounts, Withdraw(u, b, num)
  PROVE  IInv'
<1> DEFINE it == user[u].Banco[b]
           n == Clamped(num, it)
           room == HasRoom(user[u], it.ObjIndex, n)
           S == IF room # {} THEN room ELSE FreeSlots(user[u])
           s == Min(S)
           a == user[u].Object[s].Amount + n
           p == IF it.Amount = n THEN Nothing ELSE [it EXCEPT !.Amount = it.Amount - n]
           h == [Hand(u) EXCEPT !.me.Object[s] = Holding(user[u].Object[s], it.ObjIndex, a)]
           g == [h EXCEPT !.me.Banco[b] = p]
<1>1. /\ Hand(u) \in Hands /\ Hand(u).me = user[u] /\ Hand(u) \in KeptFrom(Hand(u)) /\ Hand(u) \in Sound(u)
  BY InvHand
<1>2. it \in BankRecord /\ it.Amount \in Nat /\ it.ObjIndex \in {0} \union Objects
  BY <1>1, BankFields
<1>3. it.Amount > 0 /\ S # {} /\ a <= MAX_INVENTORY_OBJS
  BY DEF Withdraw
<1>4. n \in Nat /\ n >= 1 /\ n <= it.Amount
  <2>1. num \in Nat /\ num >= 1
    BY DEF Amounts
  <2>2. n = Lesser(num, it.Amount)
    BY DEF Clamped
  <2> HIDE DEF it, n
  <2> QED BY <1>2, <1>3, <2>1, <2>2 DEF Lesser
<1>5. \A r \in S : r \in Slots /\ r \in Nat /\ user[u].Object[r].ObjIndex \in {0, it.ObjIndex}
  BY <1>1, WithinSlots DEF HasRoom, FreeSlots
<1>6. Leaves(g)
  <2>1. Leaves([Hand(u) EXCEPT !.me.Object[s] = Holding(Hand(u).me.Object[s], it.ObjIndex, Hand(u).me.Object[s].Amount + n),
                               !.me.Banco[b] = p])
    BY DEF Withdraw
  <2>2. [Hand(u) EXCEPT !.me.Object[s] = Holding(Hand(u).me.Object[s], it.ObjIndex, Hand(u).me.Object[s].Amount + n),
                        !.me.Banco[b] = p] = g
    <3> HIDE DEF p, s, n, it
    <3> QED BY <1>1 DEF Hands, UserRecord
  <2> QED BY <2>1, <2>2
<1>7. s \in Slots /\ user[u].Object[s].ObjIndex \in {0, it.ObjIndex}
  <2> HIDE DEF S, it
  <2>1. S \in SUBSET Nat /\ S # {}
    BY <1>3, <1>5
  <2>2. s \in S
    BY <2>1, MinOf
  <2> QED BY <1>5, <2>2
<1> HIDE DEF n, s, S, room
<1>8. user[u].Object[s].Amount \in Int /\ SlotSound(user[u].Object[s])
  BY <1>7, UserSlot
<1>9. a \in 0..(Half - 1) /\ a >= 1
  BY <1>3, <1>4, <1>8, HalfRange DEF SlotSound, Whole
<1>10. Free(user[u], s) \/ user[u].Object[s].ObjIndex = it.ObjIndex
  <2>1. user[u].Object[s].ObjIndex = 0 => Free(user[u], s)
    BY <1>1, <1>7, FreeSlot DEF KeptFrom
  <2> QED BY <1>7, <2>1
<1> DEFINE o == it.ObjIndex
<1> HIDE DEF a
<1>11. h \in KeptFrom(Hand(u))
  <2>1. [Hand(u) EXCEPT !.me.Object[s] = Holding(Hand(u).me.Object[s], o, a)] \in KeptFrom(Hand(u))
    <3>1. o \in {0} \union Objects /\ (Free(Hand(u).me, s) \/ Hand(u).me.Object[s].ObjIndex = o)
      BY <1>1, <1>2, <1>10
    <3> HIDE DEF o
    <3> QED BY <1>1, <1>7, <1>9, <3>1, HoldKeeps DEF KeptFrom
  <2> QED BY <1>1, <2>1
<1>12. p \in BankRecord
  <2> DEFINE l == it.Amount - n
  <2>1. l \in Nat
    BY <1>2, <1>4
  <2> HIDE DEF l
  <2>2. [it EXCEPT !.Amount = l] \in BankRecord
    BY <1>2, <2>1 DEF BankRecord
  <2>3. Nothing \in BankRecord
    BY DEF Nothing, BankRecord
  <2> QED BY <2>2, <2>3 DEF l
<1> HIDE DEF h, p
<1>13. h \in Sound(u)
  BY <1>1, <1>11, KeptIsSound
<1>14. g \in Sound(u)
  BY <1>12, <1>13, BankSound
<1> QED BY <1>6, <1>14, HandLeaves

-------------------------------------------------------------------------------
(* The merchant's steps *)

LEMMA PriceTypes ==
  ASSUME NEW u \in Users, NEW o \in Objects, NEW n \in Nat
  PROVE  BuyPrice(u, o, n) \in Int /\ SalePrice(o, n) \in Nat
<1> DEFINE v == ObjData[o].Valor
           k == Trait[u].Comerciar
           d == 100 + k
<1>1. v \in Nat /\ k \in Nat
  BY InventoryAssumption
<1>2. BuyPrice(u, o, n) = (200 * v * n + d) \div (2 * d)
  BY DEF BuyPrice
<1>3. SalePrice(o, n) \in {0, (v * n) \div 3}
  BY DEF SalePrice
<1> HIDE DEF v, k
<1>4. v * n \in Nat
  BY <1>1
<1> DEFINE x == v * n
<1>5. x \div 3 \in Nat
  <2> HIDE DEF x
  <2>1. x \in Nat
    BY <1>4 DEF x
  <2> QED BY <2>1
<1>6. (200 * v * n + d) \div (2 * d) \in Int
  <2> DEFINE y == 200 * v * n + d
             e == 2 * d
  <2>1. 200 * v \in Nat
    BY <1>1
  <2> DEFINE z == 200 * v
  <2>2. z * n \in Nat
    <3> HIDE DEF z
    <3>1. z \in Nat
      BY <2>1 DEF z
    <3> QED BY <3>1
  <2>3. y \in Int /\ e \in Nat \ {0}
    BY <1>1, <2>2
  <2> HIDE DEF y, e
  <2>4. y \div e \in Int
    BY <2>3
  <2> QED BY <2>4 DEF y, e
<1> QED BY <1>2, <1>3, <1>5, <1>6

LEMMA BuyInv ==
  ASSUME IInv, NEW u \in Users, NEW s \in 1..NpcSlots, NEW num \in Amounts, Buy(u, s, num)
  PROVE  IInv'
<1> DEFINE it == npc.Object[s]
           n == Lesser(num, it.Amount)
           o == it.ObjIndex
           cost == BuyPrice(u, o, n)
           met == MeterItemEnInventario(user[u], o, n)
           h == [Hand(u) EXCEPT !.me = met]
           m == [met EXCEPT !.GLD = met.GLD - cost]
<1>1. /\ Hand(u) \in Hands /\ Hand(u).me = user[u] /\ Hand(u) \in KeptFrom(Hand(u)) /\ Hand(u) \in Sound(u)
      /\ user[u] \in UserRecord /\ npc \in Stock /\ floor \in Floor /\ FloorSound(floor)
  BY InvHand
<1>2. o \in {0} \union Objects /\ it.Amount \in Nat /\ npc \in NpcRecord
  <2>1. npc \in NpcRecord
    BY <1>1 DEF Stock
  <2> QED BY <2>1, StockFields
<1>3. /\ it.Amount > 0 /\ o # 0 /\ user[u].GLD >= cost
      /\ user' = [user EXCEPT ![u] = m]
      /\ npc' = QuitarNpcInvItem(npc, s, n) /\ floor' = floor
  BY DEF Buy
<1>4. n \in Nat \ {0} /\ n <= it.Amount /\ o \in Objects
  BY <1>2, <1>3 DEF Lesser, Amounts
<1>5. cost \in Int
  <2> HIDE DEF n, o
  <2> QED BY <1>4, PriceTypes
<1> HIDE DEF cost, n
<1>6. h \in KeptFrom(Hand(u))
  <2>1. [Hand(u) EXCEPT !.me = MeterItemEnInventario(Hand(u).me, o, n)] \in KeptFrom(Hand(u))
    <3> HIDE DEF o
    <3> QED BY <1>1, <1>4, MeterItemKeeps DEF KeptFrom
  <2> QED BY <1>1, <2>1
<1>7. met.GLD = user[u].GLD /\ user[u].GLD \in Nat
  <2>1. user[u].GLD \in Nat
    BY <1>1 DEF UserRecord
  <2> HIDE DEF o
  <2>2. MeterItemEnInventario(user[u], o, n).GLD = user[u].GLD
    BY <1>1 DEF MeterItemEnInventario, UserRecord
  <2> QED BY <2>1, <2>2
<1> HIDE DEF met
<1>8. h \in Sound(u) /\ h.me = met
  <2>1. h \in Sound(u)
    BY <1>1, <1>6, KeptIsSound
  <2> QED BY <1>1, <2>1 DEF Hands
<1>9. met \in UserRecord /\ UserSound(met)
  <2> HIDE DEF h
  <2> QED BY <1>8, SoundParts
<1>10. m \in UserRecord /\ UserSound(m)
  <2> DEFINE l == met.GLD - cost
  <2>1. l \in Nat
    BY <1>3, <1>5, <1>7
  <2> HIDE DEF l
  <2>2. [met EXCEPT !.GLD = l] \in UserRecord /\ UserSound([met EXCEPT !.GLD = l])
    BY <1>9, <2>1, GoldUser
  <2> QED BY <2>2 DEF l
<1>11. npc' \in Stock
  <2>1. QuitarNpcInvItem(npc, s, n) \in Stock
    BY <1>1, <1>3, <1>4, QuitarNpcStock
  <2> QED BY <1>3, <2>1
<1> HIDE DEF m
<1> QED BY <1>1, <1>3, <1>10, <1>11, UsersLeave

LEMMA SellInv ==
  ASSUME IInv, NEW u \in Users, NEW s \in Slots, NEW num \in Amounts, Sell(u, s, num)
  PROVE  IInv'
<1> DEFINE it == user[u].Object[s]
           o == it.ObjIndex
           n == Lesser(num, it.Amount)
           h == QuitarUserInvItem(Hand(u), s, n)
           paid == Lesser(MAXORO, h.me.GLD + SalePrice(o, n))
           m == [h.me EXCEPT !.GLD = paid]
<1>1. it.Amount \in Int /\ o \in {0} \union Objects /\ Hand(u) \in KeptFrom(Hand(u)) /\ Hand(u) \in Sound(u) /\ npc \in Stock
  BY InvHand, UserSlot
<1>2. /\ o # 0 /\ n > 0 /\ user' = [user EXCEPT ![u] = m]
      /\ floor' = h.floor /\ npc' = Stocked(npc, o, n)
  BY DEF Sell
<1>3. n \in Nat /\ o \in Objects
  BY <1>1, <1>2 DEF Lesser, Amounts
<1> HIDE DEF n, o
<1>4. h \in KeptFrom(Hand(u))
  BY <1>1, <1>3, QuitarItemKeeps DEF KeptFrom
<1> HIDE DEF h
<1>5. h \in Sound(u)
  BY <1>1, <1>4, KeptIsSound
<1>6. h.me \in UserRecord /\ UserSound(h.me) /\ h.floor \in Floor /\ FloorSound(h.floor) /\ h.me.GLD \in Nat
  BY <1>5, SoundParts
<1>7. paid \in Nat
  <2>1. SalePrice(o, n) \in Nat
    BY <1>3, PriceTypes
  <2> QED BY <1>6, <2>1, InventoryAssumption DEF Lesser
<1> HIDE DEF paid
<1>8. m \in UserRecord /\ UserSound(m)
  BY <1>6, <1>7, GoldUser
<1>9. npc' \in Stock
  BY <1>1, <1>2, <1>3, StockedStock
<1> HIDE DEF m
<1> QED BY <1>2, <1>6, <1>8, <1>9, UsersLeave

-------------------------------------------------------------------------------
(* Work *)

LEMMA GatherInv ==
  ASSUME IInv, NEW u \in Users, NEW o \in Gathered, NEW n \in Amounts, Gather(u, o, n)
  PROVE  IInv'
<1>1. n \in Nat \ {0} /\ o \in Objects
  BY InventoryAssumption DEF Amounts
<1>2. PutItemInInv(Hand(u), o, n) \in KeptFrom(Hand(u))
  BY <1>1, InvHand, PutItemKeeps DEF KeptFrom
<1> QED BY <1>2, HandKeepsLeaves DEF Gather

LEMMA ConstructInv ==
  ASSUME IInv, NEW u \in Users, NEW o \in Built, NEW wanted \in 1..MaxBatch, Construct(u, o, wanted)
  PROVE  IInv'
<1> DEFINE S == {k \in 1..wanted : TieneMateriales(user[u], o, k)}
           n == Max(S)
           spent == QuitarMateriales(Hand(u), o, n)
<1>1. Leaves(PutItemInInv(spent, o, n)) /\ TieneMateriales(user[u], o, 1)
  BY DEF Construct
<1>2. wanted \in Nat /\ S \in SUBSET (0..wanted) /\ 1 \in S /\ \A k \in S : k \in Nat \ {0}
  <2>1. wanted \in Nat /\ wanted >= 1
    OBVIOUS
  <2>2. \A k \in S : k \in 1..wanted
    OBVIOUS
  <2>3. 1 \in S
    BY <1>1, <2>1
  <2> HIDE DEF S
  <2> QED BY <2>1, <2>2, <2>3
<1>3. n \in Nat \ {0}
  <2> HIDE DEF S
  <2>1. S # {}
    BY <1>2
  <2>2. n \in S
    BY <1>2, <2>1, MaxOf
  <2> QED BY <1>2, <2>2
<1> HIDE DEF n
<1>4. o \in Objects
  BY DEF Built
<1>5. spent \in KeptFrom(Hand(u))
  BY <1>3, <1>4, InvHand, QuitarMaterialesKeeps DEF KeptFrom
<1> HIDE DEF spent
<1>6. PutItemInInv(spent, o, n) \in KeptFrom(Hand(u))
  BY <1>3, <1>4, <1>5, PutItemKeeps DEF KeptFrom
<1> QED BY <1>1, <1>6, HandKeepsLeaves

LEMMA UpgradeInv ==
  ASSUME IInv, NEW u \in Users, NEW o \in Upgraded, Upgrade(u, o)
  PROVE  IInv'
<1> DEFINE spent == QuitarMateriales(Hand(u), o, 1)
           taken == QuitarObjetos(spent, o, 1)
           new == ObjData[o].Upgrade
<1>1. Leaves(PutItemInInv(taken, new, 1))
  BY DEF Upgrade
<1>2. o \in Objects /\ new \in Objects
  BY InventoryAssumption DEF Upgraded
<1> HIDE DEF new
<1>3. spent \in KeptFrom(Hand(u))
  BY <1>2, InvHand, QuitarMaterialesKeeps DEF KeptFrom
<1> HIDE DEF spent
<1>4. taken \in KeptFrom(Hand(u))
  BY <1>3, QuitarObjetosKeeps DEF KeptFrom
<1> HIDE DEF taken
<1>5. PutItemInInv(taken, new, 1) \in KeptFrom(Hand(u))
  BY <1>2, <1>4, PutItemKeeps DEF KeptFrom
<1> QED BY <1>1, <1>5, HandKeepsLeaves

LEMMA MineralInv ==
  ASSUME IInv, NEW u \in Users, NEW s \in Slots, FundirMineral(u, s)
  PROVE  IInv'
<1> DEFINE it == user[u].Object[s]
           o == it.ObjIndex
           left == it.Amount - ObjData[o].OrePerIngot
           q == IF left < 1 THEN 0 ELSE o
           h == [Hand(u) EXCEPT !.me.Object[s] = Holding(user[u].Object[s], q, left)]
           ingot == ObjData[o].Ingot
<1>1. /\ Hand(u) \in Hands /\ Hand(u).me = user[u] /\ Hand(u) \in KeptFrom(Hand(u))
      /\ o \in {0} \union Objects /\ it.Amount \in Int /\ SlotSound(it)
  BY InvHand, UserSlot
<1>2. o # 0 /\ Type(o) = "otMinerales" /\ left >= 0
  BY DEF FundirMineral, AtFurnace
<1>3. Leaves(PutItemInInv(h, ingot, 1))
  BY <1>1 DEF FundirMineral
<1>4. o \in Objects
  BY <1>1, <1>2
<1>5. ObjData[o].OrePerIngot \in Nat /\ ingot \in Objects
  <2> HIDE DEF o
  <2> QED BY <1>2, <1>4, InventoryAssumption
<1>6. left \in 0..(Half - 1) /\ q \in {0} \union Objects /\ (q # 0 => left >= 1)
  <2> DEFINE ore == ObjData[o].OrePerIngot
  <2>1. ore \in Nat /\ left = it.Amount - ore
    BY <1>5
  <2>2. it.Amount < Half
    BY <1>1 DEF SlotSound
  <2> HIDE DEF ore, it
  <2>3. left \in Int /\ left <= it.Amount
    BY <1>1, <2>1
  <2> HIDE DEF left
  <2> QED BY <1>1, <1>2, <2>2, <2>3, HalfRange
<1>7. Free(Hand(u).me, s)
  <2>1. "otMinerales" \notin Marking
    BY DEF Marking, EqTypes
  <2> HIDE DEF o
  <2>2. Type(Hand(u).me.Object[s].ObjIndex) \notin Marking
    BY <1>1, <1>2, <2>1 DEF o
  <2> QED BY <1>1, <2>2, FreeSlot DEF KeptFrom
<1> HIDE DEF q, left, ingot
<1>8. [Hand(u) EXCEPT !.me.Object[s] = Holding(Hand(u).me.Object[s], q, left)] \in KeptFrom(Hand(u))
  BY <1>1, <1>6, <1>7, HoldKeeps DEF KeptFrom
<1>9. h \in KeptFrom(Hand(u))
  BY <1>1, <1>8
<1> HIDE DEF h
<1>10. PutItemInInv(h, ingot, 1) \in KeptFrom(Hand(u))
  BY <1>5, <1>9, PutItemKeeps DEF KeptFrom
<1> QED BY <1>3, <1>10, HandKeepsLeaves

LEMMA WeaponInv ==
  ASSUME IInv, NEW u \in Users, NEW s \in Slots, FundirArmas(u, s)
  PROVE  IInv'
<1> DEFINE it == user[u].Object[s]
           o == it.ObjIndex
           off == IF it.Equipped THEN Desequipar(Hand(u), s) ELSE Hand(u)
           n == off.me.Object[s].Amount
           q == IF n <= 1 THEN 0 ELSE o
           h == [off EXCEPT !.me.Object[s] = Holding(off.me.Object[s], q, n - 1)]
<1>1. /\ Hand(u) \in Hands /\ Hand(u).me = user[u] /\ Hand(u) \in KeptFrom(Hand(u))
      /\ o \in {0} \union Objects /\ it.Amount \in Int /\ SlotSound(it)
  BY InvHand, UserSlot
<1>2. o # 0 /\ Type(o) = "otWeapon"
  BY DEF FundirArmas, AtFurnace
<1>3. PICK k \in ObjData[o].Melted : Leaves(Recovered(h, k))
  BY DEF FundirArmas
<1>4. k \in [Objects -> Nat]
  <2>1. o \in Objects
    BY <1>1, <1>2
  <2> HIDE DEF o
  <2> QED BY <2>1, InventoryAssumption
<1>5. /\ off \in KeptFrom(Hand(u)) /\ Free(off.me, s)
      /\ off.me.Object[s].Amount = it.Amount /\ off.me.Object[s].ObjIndex = o
  <2>1. CASE it.Equipped
    <3>1. HeldIn(Hand(u), s) = o /\ ~IsBag(o)
      BY <1>1, <1>2 DEF HeldIn, IsBag
    <3>2. Desequipar(Hand(u), s) = Unmarked(Hand(u), s) /\ off = Desequipar(Hand(u), s)
      BY <1>1, <2>1, <3>1, DesequiparGood
    <3>3. Desequipar(Hand(u), s) \in Kept(u, {} \union {s}, user[u].CurrentInventorySlots, user[u].Eqp["otMochilas"])
          /\ Desequipar(Hand(u), s) \in KeptFrom(Hand(u))
      <4>1. Hand(u).u = u
        BY InvHand
      <4> QED BY <1>1, <4>1, DesequiparKeeps DEF KeptFrom
    <3>4. s \in {} \union {s}
      OBVIOUS
    <3>5. Free(Desequipar(Hand(u), s).me, s)
      BY <3>3, <3>4, FreeSlot
    <3>6. Unmarked(Hand(u), s).me.Object[s].ObjIndex = o /\ Unmarked(Hand(u), s).me.Object[s].Amount = it.Amount
      <4>1. s \in {0} \union Slots /\ s \in Slots /\ Hand(u) \in Hands
        BY <1>1
      <4>2. /\ Unmarked(Hand(u), s).me.Object[s].ObjIndex = Hand(u).me.Object[s].ObjIndex
            /\ Unmarked(Hand(u), s).me.Object[s].Amount = Hand(u).me.Object[s].Amount
        BY <4>1, UnmarkedType
      <4>3. Hand(u).me = user[u]
        BY InvHand
      <4> QED BY <4>2, <4>3
    <3> HIDE DEF off, o, it
    <3> QED BY <3>2, <3>3, <3>5, <3>6
  <2>2. CASE ~it.Equipped
    <3>1. off = Hand(u)
      BY <2>2
    <3>2. Free(Hand(u).me, s)
      BY <1>1, <2>2, FreeSlot DEF KeptFrom
    <3> HIDE DEF off
    <3> QED BY <1>1, <3>1, <3>2
  <2> QED BY <2>1, <2>2
<1>6. n - 1 \in 0..(Half - 1) /\ q \in {0} \union Objects /\ (q # 0 => n - 1 >= 1)
  <2>1. n = it.Amount /\ it.Amount >= 1 /\ it.Amount < Half
    BY <1>1, <1>2, <1>5 DEF SlotSound, Whole
  <2> HIDE DEF n, o, it
  <2> QED BY <1>1, <2>1, HalfRange
<1> DEFINE l == n - 1
<1>7. h \in KeptFrom(Hand(u))
  <2>1. h = [off EXCEPT !.me.Object[s] = Holding(off.me.Object[s], q, l)]
    OBVIOUS
  <2> HIDE DEF off, q, l, h
  <2>2. [off EXCEPT !.me.Object[s] = Holding(off.me.Object[s], q, l)] \in KeptFrom(Hand(u))
    BY <1>5, <1>6, HoldKeeps DEF KeptFrom, l
  <2> QED BY <2>1, <2>2
<1> HIDE DEF h
<1>8. Recovered(h, k) \in KeptFrom(Hand(u))
  BY <1>4, <1>7, RecoveredKeeps DEF KeptFrom
<1> QED BY <1>3, <1>8, HandKeepsLeaves

-------------------------------------------------------------------------------
(* Two users *)

LEMMA TwoUsersLeave ==
  ASSUME IInv, NEW u \in Users, NEW v \in Users, u # v,
         NEW m \in UserRecord, UserSound(m), NEW w \in UserRecord, UserSound(w),
         user' = [user EXCEPT ![v] = w, ![u] = m],
         floor' \in Floor, FloorSound(floor'), npc' \in Stock
  PROVE  IInv'
<1>1. user' \in [Users -> UserRecord]
  BY DEF IInv
<1>2. ASSUME NEW x \in Users PROVE UserSound(user'[x])
  <2>1. user'[x] = IF x = u THEN m ELSE IF x = v THEN w ELSE user[x]
    BY DEF IInv
  <2> QED BY <2>1 DEF IInv
<1> QED BY <1>1, <1>2 DEF IInv

LEMMA StolenUnits ==
  ASSUME NEW it, NEW n \in Stolen(it)
  PROVE  it.Amount \in Int => n \in Nat \ {0}
<1> SUFFICES ASSUME it.Amount \in Int PROVE n \in Nat \ {0}
  OBVIOUS
<1> DEFINE x == it.Amount \div 20
           y == it.Amount \div 10
<1>1. x \in Int /\ y \in Int
  OBVIOUS
<1>2. n \in Max({1, x})..Max({1, y})
  BY DEF Stolen
<1> HIDE DEF x, y
<1>3. ASSUME NEW z \in Int PROVE Max({1, z}) \in Int /\ Max({1, z}) >= 1
  <2>1. \E a \in {1, z} : \A k \in {1, z} : a >= k
    BY <1>3
  <2>2. Max({1, z}) \in {1, z} /\ \A k \in {1, z} : Max({1, z}) >= k
    BY <2>1 DEF Max
  <2> QED BY <2>2
<1> QED BY <1>1, <1>2, <1>3

LEMMA RobInv ==
  ASSUME IInv, NEW u \in Users, NEW v \in Users, NEW s \in Slots, Rob(u, v, s)
  PROVE  IInv'
<1> DEFINE it == user[v].Object[s]
           o == it.ObjIndex
<1>1. u # v /\ o # 0 /\ ~it.Equipped /\ npc' = npc
  BY DEF Rob, Robable
<1>2. PICK n \in Stolen(it) :
        /\ user' = [user EXCEPT ![v].Object[s] = LessStolen(it, n), ![u] = PutItemInInv(Hand(u), o, n).me]
        /\ floor' = PutItemInInv(Hand(u), o, n).floor
  BY DEF Rob
<1> DEFINE h == PutItemInInv(Hand(u), o, n)
           x == LessStolen(it, n)
           g == [Hand(v) EXCEPT !.me.Object[s] = x]
           w == [user[v] EXCEPT !.Object[s] = x]
<1>3. it \in SlotRecord /\ it.Amount \in Int /\ SlotSound(it) /\ o \in {0} \union Objects
  BY UserSlot
<1>4. n \in Nat \ {0} /\ o \in Objects
  <2> HIDE DEF it
  <2>1. n \in Nat \ {0}
    BY <1>3, StolenUnits
  <2> QED BY <1>1, <1>3, <2>1
<1>5. h \in Sound(u)
  <2> HIDE DEF o
  <2>1. h \in KeptFrom(Hand(u))
    BY <1>4, InvHand, PutItemKeeps DEF KeptFrom
  <2> QED BY <2>1, InvHand, KeptIsSound
<1>6. x \in SlotRecord /\ SlotSound(x)
  <2> DEFINE l == it.Amount - n
             less == [it EXCEPT !.Amount = l]
  <2>1. x = IF l <= 0 THEN NoSlot ELSE less
    BY DEF LessStolen
  <2>2. it.Amount < Half
    BY <1>3 DEF SlotSound
  <2> HIDE DEF it, x
  <2>3. l \in Int /\ l < Half
    BY <1>3, <1>4, <2>2, HalfRange
  <2> HIDE DEF l
  <2>4. less \in SlotRecord /\ less.Amount = l
    BY <1>3, <2>3, OtherAmount
  <2>5. SlotSound(NoSlot) /\ NoSlot \in SlotRecord
    BY NoSlotFields, HalfRange DEF SlotSound, Whole
  <2>6. ASSUME ~(l <= 0) PROVE SlotSound(less)
    <3> HIDE DEF less
    <3> QED BY <2>3, <2>4, <2>6 DEF SlotSound, Whole
  <2> HIDE DEF less
  <2> QED BY <2>1, <2>4, <2>5, <2>6
<1> HIDE DEF x, h
<1>7. w \in UserRecord /\ UserSound(w)
  <2>1. Hand(v) \in Hands /\ Hand(v).me = user[v] /\ Hand(v) \in KeptFrom(Hand(v)) /\ Hand(v) \in Sound(v)
    BY InvHand
  <2>2. Free(Hand(v).me, s)
    BY <1>1, <2>1, FreeSlot DEF KeptFrom
  <2>3. g \in KeptFrom(Hand(v))
    BY <1>6, <2>1, <2>2, KeptSlot DEF KeptFrom
  <2>4. g \in Sound(v)
    BY <2>1, <2>3, KeptIsSound
  <2>5. g.me = w
    BY <2>1 DEF Hands
  <2> HIDE DEF g, w
  <2>6. g.me \in UserRecord /\ UserSound(g.me)
    BY <2>4, SoundParts
  <2> QED BY <2>5, <2>6
<1>8. h.me \in UserRecord /\ UserSound(h.me) /\ h.floor \in Floor /\ FloorSound(h.floor)
  BY <1>5, SoundParts
<1>9. user' = [user EXCEPT ![v] = w, ![u] = h.me] /\ floor' = h.floor
  <2>1. user' = [user EXCEPT ![v].Object[s] = x, ![u] = h.me] /\ floor' = h.floor
    BY <1>2 DEF x, h
  <2> QED BY <2>1
<1>10. npc' \in Stock
  BY <1>1 DEF IInv
<1> HIDE DEF w
<1> QED BY <1>1, <1>7, <1>8, <1>9, <1>10, TwoUsersLeave

LEMMA RobGoldInv ==
  ASSUME IInv, NEW u \in Users, NEW v \in Users, NEW n \in 1..MAXORO, RobGold(u, v, n)
  PROVE  IInv'
<1> DEFINE a == user[v].GLD - n
           b == Lesser(MAXORO, user[u].GLD + n)
           w == [user[v] EXCEPT !.GLD = a]
           m == [user[u] EXCEPT !.GLD = b]
<1>1. u # v /\ n \in 1..user[v].GLD /\ floor' = floor /\ npc' = npc
      /\ user' = [user EXCEPT ![v].GLD = user[v].GLD - n, ![u].GLD = Lesser(MAXORO, user[u].GLD + n)]
  <2>1. u # v /\ n \in 1..user[v].GLD /\ floor' = floor /\ npc' = npc
    BY DEF RobGold
  <2>2. user' = [user EXCEPT ![v].GLD = @ - n, ![u].GLD = Lesser(MAXORO, @ + n)]
    BY DEF RobGold
  <2>3. [user EXCEPT ![v].GLD = @ - n, ![u].GLD = Lesser(MAXORO, @ + n)]
          = [user EXCEPT ![v].GLD = user[v].GLD - n, ![u].GLD = Lesser(MAXORO, user[u].GLD + n)]
    BY <2>1 DEF IInv
  <2> QED BY <2>1, <2>2, <2>3
<1>2. /\ user[u] \in UserRecord /\ user[v] \in UserRecord /\ UserSound(user[u]) /\ UserSound(user[v])
      /\ floor' \in Floor /\ FloorSound(floor') /\ npc' \in Stock
      /\ user[u].GLD \in Nat /\ user[v].GLD \in Nat
  <2>1. user[u] \in UserRecord /\ user[v] \in UserRecord
    BY DEF IInv
  <2> QED BY <1>1, <2>1 DEF IInv, UserRecord
<1>3. a \in Nat /\ b \in Nat
  <2> DEFINE g == user[v].GLD
             l == user[u].GLD
  <2>1. g \in Nat /\ l \in Nat /\ MAXORO \in Nat /\ n \in 1..g
    BY <1>1, <1>2, InventoryAssumption
  <2>2. a = g - n /\ b = IF MAXORO < l + n THEN MAXORO ELSE l + n
    BY DEF Lesser
  <2> HIDE DEF a, b, g, l
  <2> QED BY <2>1, <2>2
<1>4. user' = [user EXCEPT ![v] = w, ![u] = m]
  <2> HIDE DEF a, b
  <2> QED BY <1>1 DEF IInv, a, b
<1> HIDE DEF a, b
<1>5. w \in UserRecord /\ UserSound(w) /\ m \in UserRecord /\ UserSound(m)
  BY <1>2, <1>3, GoldUser
<1> HIDE DEF w, m
<1> QED BY <1>1, <1>2, <1>4, <1>5, TwoUsersLeave

LEMMA DisarmInv ==
  ASSUME IInv, NEW u \in Users, NEW v \in Users, Disarm(u, v)
  PROVE  IInv'
<1>1. PICK k \in {"otWeapon", "otESCUDO", "otCASCO"} : Leaves(DesequiparTipo(Hand(v), k))
  BY DEF Disarm
<1>2. k \in EqTypes
  BY DEF EqTypes
<1>3. DesequiparTipo(Hand(v), k) \in KeptFrom(Hand(v))
  BY <1>2, InvHand, DesequiparTipoKeeps DEF KeptFrom
<1> QED BY <1>1, <1>3, HandKeepsLeaves

LEMMA NpcDropInv ==
  ASSUME IInv, NEW t \in Tiles, NEW o \in NpcDrops, NEW n \in Amounts, NpcTirarItems(t, o, n)
  PROVE  IInv'
<1>1. n \in Nat \ {0} /\ o \in Objects
  BY InventoryAssumption DEF Amounts
<1>2. TirarItemAlPiso(floor, t, o, n) \in Floor /\ FloorSound(TirarItemAlPiso(floor, t, o, n))
  BY <1>1, TirarItemType DEF IInv
<1> QED BY <1>2 DEF IInv, NpcTirarItems

-------------------------------------------------------------------------------
(* The theorems *)

LEMMA InitInv == Init => IInv
<1> SUFFICES ASSUME Init PROVE IInv
  OBVIOUS
<1>0. MAX_NORMAL_INVENTORY_SLOTS \in Nat /\ MAX_INVENTORY_SLOTS >= MAX_NORMAL_INVENTORY_SLOTS /\ MAX_INVENTORY_SLOTS \in Nat
  BY ItemsAssumption
<1>1. ASSUME NEW u \in Users PROVE InitUser(u) \in UserRecord /\ UserSound(InitUser(u))
  <2>1. Stands[u] \in Tiles
    BY InventoryAssumption
  <2> DEFINE ob == [s \in Slots |-> NoSlot]
             eq == [k \in EqTypes |-> NotEqp]
             ba == [s \in BankSlots |-> Nothing]
             me == InitUser(u)
  <2>2. ob \in [Slots -> SlotRecord] /\ eq \in [EqTypes -> EqpRecord] /\ ba \in [BankSlots -> BankRecord]
    BY NoSlotFields DEF NotEqp, EqpRecord, Nothing, BankRecord
  <2>3. MAX_NORMAL_INVENTORY_SLOTS \in MAX_NORMAL_INVENTORY_SLOTS..MAX_INVENTORY_SLOTS
    BY <1>0
  <2>4. me = [Object |-> ob, Eqp |-> eq, CurrentInventorySlots |-> MAX_NORMAL_INVENTORY_SLOTS,
              Banco |-> ba, GLD |-> 0, Muerto |-> FALSE, Navegando |-> FALSE, Pos |-> Stands[u]]
    BY DEF InitUser
  <2>5. \A s \in Slots : ob[s] = NoSlot
    OBVIOUS
  <2>6. \A k \in EqTypes : eq[k].Slot = 0 /\ eq[k].ObjIndex = 0
    BY DEF NotEqp
  <2> HIDE DEF ob, eq, ba, me
  <2>7. me \in UserRecord
    BY <2>1, <2>2, <2>3, <2>4 DEF UserRecord, SlotRecord, EqpRecord, BankRecord
  <2>8. SlotsSound(me.Object)
    <3>1. SlotSound(NoSlot)
      BY NoSlotFields, HalfRange DEF SlotSound, Whole
    <3> QED BY <2>4, <2>5, <3>1 DEF SlotsSound
  <2>9. MarksSound(me, {})
    BY <2>4, <2>6 DEF MarksSound, Marking
  <2>10. Packed(me)
    <3>1. "otMochilas" \in EqTypes
      BY DEF EqTypes
    <3> QED BY <1>0, <2>4, <2>6, <3>1 DEF Packed
  <2> QED BY <2>7, <2>8, <2>9, <2>10 DEF me, UserSound
<1>2. user = [u \in Users |-> InitUser(u)] /\ floor = [t \in Tiles |-> Nothing] /\ npc = Filled(Plantilla)
  BY DEF Init
<1>3. user \in [Users -> UserRecord] /\ \A u \in Users : UserSound(user[u])
  BY <1>1, <1>2
<1>4. floor \in Floor /\ FloorSound(floor)
  BY <1>2 DEF Floor, FloorSound, Nothing, Whole
<1>5. npc \in Stock
  BY <1>2, FilledStock
<1> QED BY <1>3, <1>4, <1>5 DEF IInv

LEMMA NextInv == IInv /\ [Next]_vars => IInv'
<1> SUFFICES ASSUME IInv, [Next]_vars PROVE IInv'
  OBVIOUS
<1>1. CASE UNCHANGED vars
  BY <1>1 DEF IInv, vars
<1>2. ASSUME NEW u \in Users, WithinBound, Moves(u) PROVE IInv'
  <2>1. CASE \E s \in Slots, n \in Amounts : Drop(u, s, n) \/ Deposit(u, s, n) \/ Sell(u, s, n)
    BY <1>2, <2>1, DropInv, DepositInv, SellInv
  <2>2. CASE \E s \in Slots : Equip(u, s) \/ UseEquipable(u, s) \/ UseConsumable(u, s) \/ UseBoat(u, s)
    BY <2>2, EquipInv, ConsumableInv, BoatInv
  <2>3. CASE \E b \in BankSlots, n \in Amounts : Withdraw(u, b, n)
    BY <2>3, WithdrawInv
  <2>4. CASE \E n \in 1..MAXORO : DropGold(u, n)
    BY <2>4, GoldInv
  <2>5. CASE Get(u) \/ UserDie(u) \/ Revive(u) \/ QuitarNewbieObj(u)
    BY <2>5, GetInv, DieInv, ReviveInv, NewbieInv
  <2>6. CASE \E v \in Users, s \in Slots : Rob(u, v, s)
    BY <2>6, RobInv
  <2>7. CASE \E v \in Users, n \in 1..MAXORO : RobGold(u, v, n)
    BY <2>7, RobGoldInv
  <2>8. CASE \E v \in Users : Disarm(u, v)
    BY <2>8, DisarmInv
  <2> QED BY <1>2, <2>1, <2>2, <2>3, <2>4, <2>5, <2>6, <2>7, <2>8 DEF Moves
<1>3. ASSUME NEW u \in Users, Brings(u) PROVE IInv'
  <2>1. CASE \E o \in Gathered, n \in Amounts : Gather(u, o, n)
    BY <2>1, GatherInv
  <2>2. CASE \E o \in Built, n \in 1..MaxBatch : Construct(u, o, n)
    BY <2>2, ConstructInv
  <2>3. CASE \E o \in Upgraded : Upgrade(u, o)
    BY <2>3, UpgradeInv
  <2>4. CASE \E s \in Slots : FundirMineral(u, s) \/ FundirArmas(u, s)
    BY <2>4, MineralInv, WeaponInv
  <2>5. CASE \E s \in 1..NpcSlots, n \in Amounts : Buy(u, s, n)
    BY <2>5, BuyInv
  <2> QED BY <1>3, <2>1, <2>2, <2>3, <2>4, <2>5 DEF Brings
<1>4. CASE \E t \in Tiles, o \in NpcDrops, n \in Amounts : NpcTirarItems(t, o, n)
  BY <1>4, NpcDropInv
<1> QED BY <1>1, <1>2, <1>3, <1>4 DEF Next

\* Records, floor and merchant are sound in every state: what a slot or a pile names it has a
\* unit of, within the range of an amount, and what a field of the equipment names is there.
THEOREM InventoryInvariant == Spec => []IInv
BY InitInv, NextInv, PTL DEF Spec

\* No purse, bank, stock or amount leaves its range, the slots in reach are those of the backpack,
\* and the merchant counts its slots right, through every drop, sale, death, craft and theft, for
\* every number of users, slots and objects.
THEOREM BagsAreSound == Spec => []BagsSound
<1>1. IInv => BagsSound
  <2> SUFFICES ASSUME IInv PROVE BagsSound
    OBVIOUS
  <2>1. TypeOK
    BY DEF IInv, TypeOK, Stock
  <2>2. SlotsMatchBackpack
    BY DEF IInv, UserSound, Packed, SlotsMatchBackpack
  <2>3. NpcCount
    BY DEF IInv, Stock, NpcCount, Used
  <2> QED BY <2>1, <2>2, <2>3 DEF BagsSound
<1> QED BY <1>1, InventoryInvariant, PTL

\* What a user wears is what the slot holds, and the slot is marked: no sale, deposit, drop,
\* craft or theft takes what is worn and leaves it worn.
THEOREM WornIsHeld == Spec => []EquippedIsHeld
<1>1. IInv => EquippedIsHeld
  BY DEF IInv, UserSound, MarksSound, Marking, EquippedIsHeld
<1> QED BY <1>1, InventoryInvariant, PTL

================================================================================
