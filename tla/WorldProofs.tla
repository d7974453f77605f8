------------------------------ MODULE WorldProofs ------------------------------
(***************************************************************************)
(* Proofs about World, for every number of users, NPCs, maps and character *)
(* indexes and maps of every side: what handlers make of a world, one call *)
(* after the other, keeps the tables, the tiles and the areas in agreement.*)
(***************************************************************************)
EXTENDS World, FiniteSetTheorems, WellFoundedInduction, TLAPS

-------------------------------------------------------------------------------
(* Least elements *)

\* A set of naturals that is not empty has a least element.
LEMMA LeastOf ==
  ASSUME NEW T \in SUBSET Nat, T # {}
  PROVE  \E m \in T : \A k \in T : m <= k
<1> DEFINE R == OpToRel(<, Nat)
<1>1. R = {ss \in Nat \X Nat : ss[1] < ss[2]}
  BY Zenon DEF OpToRel
<1>2. IsWellFoundedOn(R, Nat)
  BY NatLessThanWellFounded
<1> HIDE DEF R
<1>3. PICK m \in T : \A k \in T : ~ (<<k, m>> \in R)
  BY <1>2, WFMin
<1>4. ASSUME NEW k \in T PROVE m <= k
  <2>1. <<k, m>> \in Nat \X Nat /\ <<k, m>>[1] = k /\ <<k, m>>[2] = m
    OBVIOUS
  <2>2. ~(k < m)
    BY <1>1, <1>3, <2>1
  <2> QED BY <2>2
<1> QED BY <1>4

\* Induction, over a set of naturals: one with zero and every successor is all of them.
LEMMA AllNaturals ==
  ASSUME NEW S \in SUBSET Nat, 0 \in S, \A n \in S : n + 1 \in S
  PROVE  \A n \in Nat : n \in S
<1> SUFFICES ASSUME NEW n \in Nat, n \notin S PROVE FALSE
  OBVIOUS
<1>1. PICK m \in Nat \ S : \A k \in Nat \ S : m <= k
  BY LeastOf
<1>2. m # 0
  BY <1>1
<1>3. m - 1 \in Nat /\ m - 1 \in S
  BY <1>1, <1>2
<1>4. m \in S
  BY <1>3
<1> QED BY <1>1, <1>4

\* The lowest of a set of naturals, which stands for no place when there is none.
LEMMA LowestIs ==
  ASSUME NEW T \in SUBSET Nat, NEW none
  PROVE  /\ T = {} => Lowest(T, none) = none
         /\ T # {} => Lowest(T, none) \in T /\ \A k \in T : Lowest(T, none) <= k
<1>1. CASE T = {}
  BY <1>1 DEF Lowest
<1>2. CASE T # {}
  <2>1. \E m \in T : \A k \in T : m <= k
    BY <1>2, LeastOf
  <2>2. Min(T) \in T /\ \A k \in T : Min(T) <= k
    BY <2>1 DEF Min
  <2> QED BY <1>2, <2>2 DEF Lowest
<1> QED BY <1>1, <1>2

\* A set of naturals below a bound has a greatest element.
LEMMA MaxIs ==
  ASSUME NEW b \in Nat, NEW T \in SUBSET (0..b), T # {}
  PROVE  Max(T) \in T /\ \A k \in T : k <= Max(T)
<1> DEFINE U == {d \in 0..b : b - d \in T}
<1>1. U \in SUBSET Nat /\ U # {}
  <2>1. PICK k \in T : TRUE
    OBVIOUS
  <2>2. b - k \in 0..b /\ b - (b - k) = k
    OBVIOUS
  <2>3. b - k \in U
    BY <2>2
  <2>4. \A d \in 0..b : d \in Nat
    OBVIOUS
  <2>5. U \in SUBSET Nat
    BY <2>4
  <2> HIDE DEF U
  <2> QED BY <2>3, <2>5
<1>2. PICK d \in U : \A e \in U : d <= e
  BY <1>1, LeastOf
<1>3. b - d \in T
  BY <1>2
<1>4. ASSUME NEW k \in T PROVE b - d >= k
  <2>1. b - k \in 0..b /\ b - (b - k) = k
    OBVIOUS
  <2>2. d <= b - k
    BY <1>2, <2>1
  <2> QED BY <1>2, <2>2
<1>5. \E x \in T : \A y \in T : x >= y
  BY <1>3, <1>4
<1>6. Max(T) \in T /\ \A y \in T : Max(T) >= y
  BY <1>5 DEF Max
<1>7. T \in SUBSET Int
  OBVIOUS
<1> QED BY <1>6, <1>7

-------------------------------------------------------------------------------
(* Areas *)

LEMMA Quotient ==
  ASSUME NEW a \in Nat, NEW b \in Nat \ {0}
  PROVE  a \div b \in Nat /\ b * (a \div b) <= a /\ a < b * (a \div b) + b
BY Z3T(20)

\* A tile further is in the same stripe or in the next one.
LEMMA FranjaSteps ==
  ASSUME NEW c \in Nat
  PROVE  Franja(c) \in Nat /\ Franja(c + 1) \in {Franja(c), Franja(c) + 1}
<1> DEFINE q == Franja(c)
           r == Franja(c + 1)
<1>1. /\ q \in Nat /\ r \in Nat /\ Stripe \in Nat \ {0}
      /\ Stripe * q <= c /\ c < Stripe * q + Stripe
      /\ Stripe * r <= c + 1 /\ c + 1 < Stripe * r + Stripe
  BY AreasAssumption, Quotient DEF Franja
<1> HIDE DEF q, r
<1>2. Stripe * (q - 1) < Stripe * r
  BY <1>1
<1>3. Stripe * (r - 1) < Stripe * (q + 1)
  BY <1>1
<1>4. q - 1 < r /\ r - 1 < q + 1
  BY <1>1, <1>2, <1>3, Z3T(20)
<1>5. r = q \/ r = q + 1
  BY <1>1, <1>4
<1> QED BY <1>1, <1>5 DEF q, r

AreaType ==
  [AreaID : Nat, MinX : Int, MinY : Int,
   ReciveX : SUBSET (0..11), ReciveY : SUBSET (0..11),
   PerteneceX : SUBSET Int, PerteneceY : SUBSET Int]

\* Two that say the same are the same.
LEMMA SameArea ==
  ASSUME NEW a \in AreaType, NEW b \in AreaType,
         a.AreaID = b.AreaID, a.MinX = b.MinX, a.MinY = b.MinY, a.ReciveX = b.ReciveX,
         a.ReciveY = b.ReciveY, a.PerteneceX = b.PerteneceX, a.PerteneceY = b.PerteneceY
  PROVE  a = b
BY DEF AreaType

\* What CheckUpdateNeeded writes.
Rewritten(w, id, rx, px, ry, py) ==
  [w EXCEPT !.AreaID = id, !.ReciveX = rx, !.PerteneceX = px, !.ReciveY = ry, !.PerteneceY = py]

LEMMA AreaFields ==
  ASSUME NEW w \in AreaType, NEW id \in Nat, NEW rx \in SUBSET (0..11), NEW ry \in SUBSET (0..11),
         NEW px \in SUBSET Int, NEW py \in SUBSET Int
  PROVE  LET r == Rewritten(w, id, rx, px, ry, py)
         IN  /\ r \in AreaType /\ r.MinX = w.MinX /\ r.MinY = w.MinY /\ r.AreaID = id
             /\ r.ReciveX = rx /\ r.PerteneceX = px /\ r.ReciveY = ry /\ r.PerteneceY = py
BY DEF AreaType, Rewritten

\* What Window moves.
LEMMA WindowFields ==
  ASSUME NEW w \in AreaType, NEW v \in Int
  PROVE  /\ [w EXCEPT !.MinX = v] \in AreaType /\ [w EXCEPT !.MinY = v] \in AreaType
         /\ [w EXCEPT !.MinX = v].MinX = v /\ [w EXCEPT !.MinX = v].MinY = w.MinY
         /\ [w EXCEPT !.MinY = v].MinY = v /\ [w EXCEPT !.MinY = v].MinX = w.MinX
BY DEF AreaType

\* A tile has a number, which an area without one is not.
LEMMA AreaIDs ==
  ASSUME NEW p \in Tile
  PROVE  /\ Franja(p.x) \in Nat /\ Franja(p.y) \in Nat
         /\ GetAreaID(p) = (Franja(p.x) + 1) * (Franja(p.y) + 1)
         /\ GetAreaID(p) \in Nat \ {0}
<1>1. p.x \in Nat /\ p.y \in Nat
  BY AreasAssumption DEF Tile
<1>2. Franja(p.x) \in Nat /\ Franja(p.y) \in Nat
  BY <1>1, FranjaSteps
<1> DEFINE a == Franja(p.x)
           b == Franja(p.y)
<1>3. GetAreaID(p) = (a + 1) * (b + 1)
  BY DEF GetAreaID, InMapBounds
<1> HIDE DEF a, b
<1>4. (a + 1) * (b + 1) \in Nat \ {0}
  BY <1>2, Z3T(20) DEF a, b
<1> QED BY <1>2, <1>3, <1>4 DEF a, b

LEMMA Recives ==
  ASSUME NEW f \in Nat
  PROVE  GetAreaRecive(f) = {g \in 0..11 : g - f \in {-1, 0, 1}}
<1>1. \A g \in 0..11 : (g \in (f - 1 .. f + 1)) <=> (g - f \in {-1, 0, 1})
  OBVIOUS
<1> QED BY <1>1 DEF GetAreaRecive

LEMMA AreaOfType ==
  ASSUME NEW p \in Tile
  PROVE  AreaOf(p) \in AreaType
<1>1. /\ Franja(p.x) \in Nat /\ Franja(p.y) \in Nat /\ GetAreaID(p) \in Nat \ {0}
      /\ Stripe \in Nat
  BY AreaIDs, AreasAssumption
<1> QED BY <1>1 DEF AreaOf, AreaType

\* Whoever is added to a tile knows its area, whatever it knew before.
LEMMA Added ==
  ASSUME NEW p \in Tile, NEW area \in AreaType
  PROVE  Agregar(area, p) = AreaOf(p) /\ AreaOf(p) \in AreaType
<1>1. /\ Franja(p.x) \in Nat /\ Franja(p.y) \in Nat /\ GetAreaID(p) \in Nat \ {0}
      /\ Stripe \in Nat
  BY AreaIDs, AreasAssumption
<1>2. AreaOf(p) \in AreaType
  BY AreaOfType
<1>3. Agregar(area, p) = AreaOf(p)
  BY <1>1, Recives DEF Agregar, AreaOf, CheckUpdateNeeded, Window, NoArea, Corner
<1> QED BY <1>2, <1>3

\* An area information stays one.
LEMMA StaysArea ==
  ASSUME NEW p \in Tile, NEW area \in AreaType, NEW h \in Headings
  PROVE  /\ Window(area, p, h) \in AreaType
         /\ CheckUpdateNeeded(area, p, h) \in AreaType
         /\ LET f == CheckUpdateNeeded(area, p, h)
            IN  area.AreaID # GetAreaID(p) =>
                  /\ f.MinX = Window(area, p, h).MinX /\ f.MinY = Window(area, p, h).MinY
                  /\ f.AreaID = GetAreaID(p)
                  /\ f.ReciveX = GetAreaRecive(Franja(p.x)) /\ f.PerteneceX = {Franja(p.x)}
                  /\ f.ReciveY = GetAreaRecive(Franja(p.y)) /\ f.PerteneceY = {Franja(p.y)}
<1> DEFINE w == Window(area, p, h)
<1>1. /\ Franja(p.x) \in Nat /\ Franja(p.y) \in Nat /\ GetAreaID(p) \in Nat
      /\ Stripe \in Nat
  BY AreaIDs, AreasAssumption
<1>2. w \in AreaType
  <2>1. area.MinX \in Int /\ area.MinY \in Int
    BY DEF AreaType
  <2>2. /\ area.MinX + Stripe \in Int /\ area.MinX - Stripe \in Int
        /\ area.MinY + Stripe \in Int /\ area.MinY - Stripe \in Int
    BY <1>1, <2>1
  <2> QED BY <2>2, WindowFields DEF Window, Headings
<1> HIDE DEF w
<1>3. \A f \in Int : GetAreaRecive(f) \in SUBSET (0..11) /\ {f} \in SUBSET Int
  BY DEF GetAreaRecive
<1>4. CheckUpdateNeeded(area, p, h) =
        IF area.AreaID = GetAreaID(p) THEN area
        ELSE [w EXCEPT !.AreaID = GetAreaID(p),
                       !.ReciveX = GetAreaRecive(Franja(p.x)), !.PerteneceX = {Franja(p.x)},
                       !.ReciveY = GetAreaRecive(Franja(p.y)), !.PerteneceY = {Franja(p.y)}]
  BY DEF CheckUpdateNeeded, w
<1> DEFINE id == GetAreaID(p)
           rx == GetAreaRecive(Franja(p.x))
           ry == GetAreaRecive(Franja(p.y))
           px == {Franja(p.x)}
           py == {Franja(p.y)}
           r == Rewritten(w, id, rx, px, ry, py)
<1>5. /\ id \in Nat /\ rx \in SUBSET (0..11) /\ ry \in SUBSET (0..11)
      /\ px \in SUBSET Int /\ py \in SUBSET Int
  BY <1>1, <1>3
<1>6. CheckUpdateNeeded(area, p, h) = IF area.AreaID = id THEN area ELSE r
  BY <1>4 DEF Rewritten
<1> HIDE DEF id, rx, ry, px, py
<1>7. /\ r \in AreaType /\ r.MinX = w.MinX /\ r.MinY = w.MinY /\ r.AreaID = id
      /\ r.ReciveX = rx /\ r.PerteneceX = px /\ r.ReciveY = ry /\ r.PerteneceY = py
  BY <1>2, <1>5, AreaFields
<1> HIDE DEF r
<1> QED BY <1>2, <1>6, <1>7 DEF w, id, rx, ry, px, py

\* What a step changes is one number of a stripe, by one at the most.
LEMMA StepIs ==
  ASSUME NEW p \in Tile, NEW h \in Headings, Step(p, h) \in Tile
  PROVE  LET q == Step(p, h)
             e == IF h \in {"EAST", "SOUTH"} THEN 1 ELSE -1
         IN  /\ q.map = p.map
             /\ h \in {"EAST", "WEST"} => q.x = p.x + e /\ q.y = p.y
             /\ h \in {"NORTH", "SOUTH"} => q.y = p.y + e /\ q.x = p.x
BY DEF Step, Headings, Tile

\* Stripes of neighbours, one beside the other.
LEMMA Neighbours ==
  ASSUME NEW c \in Nat, NEW d \in Nat, NEW e \in {1, -1}, d = c + e
  PROVE  Franja(d) = Franja(c) \/ Franja(d) = Franja(c) + e
<1>1. CASE e = 1
  BY <1>1, FranjaSteps
<1>2. CASE e = -1
  <2>1. c = d + 1
    BY <1>2
  <2>2. Franja(c) \in {Franja(d), Franja(d) + 1} /\ Franja(d) \in Nat
    BY <2>1, FranjaSteps
  <2> QED BY <1>2, <2>2
<1> QED BY <1>1, <1>2

\* Rows of areas are told apart by their numbers, as long as one coordinate changes.
LEMMA Products ==
  ASSUME NEW a \in Nat, NEW b \in Nat, NEW c \in Nat
  PROVE  (a + 1) * (c + 1) = (b + 1) * (c + 1) => a = b
BY Z3T(20)

\* A step of one tile leaves the area information of a character as its new tile says.
LEMMA Stepped ==
  ASSUME NEW p \in Tile, NEW h \in Headings, Step(p, h) \in Tile
  PROVE  CheckUpdateNeeded(AreaOf(p), Step(p, h), h) = AreaOf(Step(p, h))
<1> DEFINE q == Step(p, h)
           e == IF h \in {"EAST", "SOUTH"} THEN 1 ELSE -1
           a == Franja(p.x)
           b == Franja(p.y)
           c == Franja(q.x)
           d == Franja(q.y)
<1>1. /\ h \in {"EAST", "WEST"} => q.x = p.x + e /\ q.y = p.y
      /\ h \in {"NORTH", "SOUTH"} => q.y = p.y + e /\ q.x = p.x
  BY StepIs
<1>2. /\ a \in Nat /\ b \in Nat /\ c \in Nat /\ d \in Nat /\ Stripe \in Nat
      /\ GetAreaID(p) = (a + 1) * (b + 1) /\ GetAreaID(q) = (c + 1) * (d + 1)
      /\ p.x \in Nat /\ p.y \in Nat /\ q.x \in Nat /\ q.y \in Nat
  BY AreaIDs, AreasAssumption DEF Tile
<1>3. e \in {1, -1}
  OBVIOUS
<1>4. h \in {"EAST", "WEST"} => (c = a \/ c = a + e) /\ d = b
  BY <1>1, <1>2, <1>3, Neighbours
<1>5. h \in {"NORTH", "SOUTH"} => (d = b \/ d = b + e) /\ c = a
  BY <1>1, <1>2, <1>3, Neighbours
<1>6. /\ AreaOf(p) \in AreaType /\ AreaOf(q) \in AreaType
      /\ AreaOf(p).AreaID = GetAreaID(p) /\ AreaOf(q).AreaID = GetAreaID(q)
      /\ AreaOf(p).MinX = (a - 1) * Stripe /\ AreaOf(p).MinY = (b - 1) * Stripe
      /\ AreaOf(q).MinX = (c - 1) * Stripe /\ AreaOf(q).MinY = (d - 1) * Stripe
      /\ AreaOf(q).ReciveX = GetAreaRecive(c) /\ AreaOf(q).PerteneceX = {c}
      /\ AreaOf(q).ReciveY = GetAreaRecive(d) /\ AreaOf(q).PerteneceY = {d}
  BY <1>2, Recives, AreaOfType DEF AreaOf
<1>9. CASE GetAreaID(p) = GetAreaID(q)
  <2>1. a = c /\ b = d
    <3>1. CASE h \in {"EAST", "WEST"}
      BY <1>2, <1>4, <1>9, <3>1, Products
    <3>2. CASE h \in {"NORTH", "SOUTH"}
      <4> HIDE DEF a, b, c, d
      <4>1. (b + 1) * (a + 1) = (d + 1) * (a + 1)
        BY <1>2, <1>5, <1>9, <3>2
      <4> QED BY <1>2, <1>5, <3>2, <4>1, Products
    <3> QED BY <3>1, <3>2 DEF Headings
  <2>2. AreaOf(p) = AreaOf(q)
    BY <1>9, <2>1 DEF AreaOf
  <2>3. CheckUpdateNeeded(AreaOf(p), q, h) = AreaOf(p)
    BY <1>6, <1>9 DEF CheckUpdateNeeded
  <2> QED BY <2>2, <2>3
<1>10. CASE GetAreaID(p) # GetAreaID(q)
  <2> DEFINE w == Window(AreaOf(p), q, h)
             r == CheckUpdateNeeded(AreaOf(p), q, h)
  <2>1. \A k \in Nat : (k - 1) * Stripe + Stripe = (k + 1 - 1) * Stripe /\ (k - 1) * Stripe - Stripe = (k - 1 - 1) * Stripe
    BY <1>2, Z3T(20)
  <2>2. ~(a = c /\ b = d)
    BY <1>2, <1>10
  <2>3. w.MinX = (c - 1) * Stripe /\ w.MinY = (d - 1) * Stripe
    <3> DEFINE x == AreaOf(p).MinX
               y == AreaOf(p).MinY
    <3>1. x \in Int /\ y \in Int
      BY <1>6 DEF AreaType
    <3>2. x + Stripe \in Int /\ x - Stripe \in Int /\ y + Stripe \in Int /\ y - Stripe \in Int
      BY <1>2, <3>1
    <3>3. CASE h = "EAST"
      <4>1. c = a + 1 /\ d = b
        BY <1>4, <2>2, <3>3
      <4>2. x + Stripe = (c - 1) * Stripe /\ y = (d - 1) * Stripe
        BY <1>2, <1>6, <2>1, <4>1
      <4>3. w = [AreaOf(p) EXCEPT !.MinX = x + Stripe]
        BY <3>3 DEF Window
      <4> HIDE DEF w, a, b, c, d
      <4> QED BY <1>6, <3>2, <4>2, <4>3, WindowFields
    <3>4. CASE h = "WEST"
      <4>1. c = a - 1 /\ d = b
        BY <1>2, <1>4, <2>2, <3>4
      <4>2. x - Stripe = (c - 1) * Stripe /\ y = (d - 1) * Stripe
        BY <1>2, <1>6, <2>1, <4>1
      <4>3. w = [AreaOf(p) EXCEPT !.MinX = x - Stripe]
        BY <3>4 DEF Window
      <4> HIDE DEF w, a, b, c, d
      <4> QED BY <1>6, <3>2, <4>2, <4>3, WindowFields
    <3>5. CASE h = "SOUTH"
      <4>1. d = b + 1 /\ c = a
        BY <1>5, <2>2, <3>5
      <4>2. y + Stripe = (d - 1) * Stripe /\ x = (c - 1) * Stripe
        BY <1>2, <1>6, <2>1, <4>1
      <4>3. w = [AreaOf(p) EXCEPT !.MinY = y + Stripe]
        BY <3>5 DEF Window
      <4> HIDE DEF w, a, b, c, d
      <4> QED BY <1>6, <3>2, <4>2, <4>3, WindowFields
    <3>6. CASE h = "NORTH"
      <4>1. d = b - 1 /\ c = a
        BY <1>2, <1>5, <2>2, <3>6
      <4>2. y - Stripe = (d - 1) * Stripe /\ x = (c - 1) * Stripe
        BY <1>2, <1>6, <2>1, <4>1
      <4>3. w = [AreaOf(p) EXCEPT !.MinY = y - Stripe]
        BY <3>6 DEF Window
      <4> HIDE DEF w, a, b, c, d
      <4> QED BY <1>6, <3>2, <4>2, <4>3, WindowFields
    <3> QED BY <3>3, <3>4, <3>5, <3>6 DEF Headings
  <2>4. /\ r \in AreaType /\ r.MinX = w.MinX /\ r.MinY = w.MinY /\ r.AreaID = GetAreaID(q)
        /\ r.ReciveX = GetAreaRecive(c) /\ r.PerteneceX = {c}
        /\ r.ReciveY = GetAreaRecive(d) /\ r.PerteneceY = {d}
    BY <1>6, <1>10, StaysArea
  <2> HIDE DEF w, r, a, b, c, d
  <2>5. r = AreaOf(q)
    BY <1>6, <2>3, <2>4, SameArea
  <2> QED BY <2>5 DEF r
<1> QED BY <1>9, <1>10

\* Two tiles of users have two cells.
LEMMA UserCells ==
  ASSUME NEW p \in Tile, NEW q \in Tile, UserCell(p) = UserCell(q)
  PROVE  p = q
<1> DEFINE a == (p.map - 1) * Side + (p.y - 1)
           b == (q.map - 1) * Side + (q.y - 1)
<1>1. /\ p.map \in Nat \ {0} /\ q.map \in Nat \ {0} /\ Side \in Nat \ {0}
      /\ p.x \in 1..Side /\ p.y \in 1..Side /\ q.x \in 1..Side /\ q.y \in 1..Side
  <2>1. p.map \in Maps /\ q.map \in Maps
    BY DEF Tile
  <2>2. \A m \in Maps : m \in Nat \ {0}
    BY AreasAssumption
  <2> QED BY <2>1, <2>2, AreasAssumption DEF Tile
<1>2. ASSUME NEW k \in Nat, NEW l \in Nat, NEW c \in 0..(Side - 1), NEW d \in 0..(Side - 1),
             k * Side + c = l * Side + d
      PROVE  k = l /\ c = d
  <2>1. (k + 1) * Side > k * Side + c /\ (l + 1) * Side > l * Side + d
    BY <1>1, Z3T(20)
  <2>2. (k + 1) * Side > l * Side /\ (l + 1) * Side > k * Side
    BY <1>1, <1>2, <2>1
  <2>3. k + 1 > l /\ l + 1 > k
    BY <1>1, <2>2, Z3T(20)
  <2>4. k = l
    BY <2>3
  <2> QED BY <1>1, <1>2, <2>4
<1>3. UserCell(p) = a * Side + (p.x - 1) /\ UserCell(q) = b * Side + (q.x - 1)
  BY <1>1, Z3T(20) DEF UserCell
<1>4. a \in Nat /\ b \in Nat
  <2>1. \A k \in Nat \ {0} : (k - 1) * Side \in Nat
    BY <1>1, Z3T(20)
  <2>2. p.y - 1 \in Nat /\ q.y - 1 \in Nat
    BY <1>1
  <2>3. (p.map - 1) * Side \in Nat /\ (q.map - 1) * Side \in Nat
    BY <1>1, <2>1
  <2> QED BY <2>2, <2>3
<1>5. p.x - 1 \in 0..(Side - 1) /\ q.x - 1 \in 0..(Side - 1) /\ p.y - 1 \in 0..(Side - 1)
      /\ q.y - 1 \in 0..(Side - 1) /\ p.map - 1 \in Nat /\ q.map - 1 \in Nat
  BY <1>1
<1>6. a = b /\ p.x - 1 = q.x - 1
  <2> HIDE DEF a, b
  <2>1. a * Side + (p.x - 1) = b * Side + (q.x - 1)
    BY <1>3
  <2> QED BY <1>2, <1>4, <1>5, <2>1
<1>7. p.map - 1 = q.map - 1 /\ p.y - 1 = q.y - 1
  BY <1>2, <1>5, <1>6
<1>8. p.map = q.map /\ p.y = q.y
  BY <1>1, <1>7
<1>9. p.x = q.x
  BY <1>1, <1>6
<1> QED BY <1>8, <1>9 DEF Tile

-------------------------------------------------------------------------------
(* Worlds *)

\* A record of the fields World keeps in variables.
IsWorld(s) ==
  s \in [user : {s.user}, npc : {s.npc}, CharList : {s.CharList}, tileUser : {s.tileUser},
         tileNpc : {s.tileNpc}, group : {s.group}, NumUsers : {s.NumUsers},
         LastNPC : {s.LastNPC}, pushed : {s.pushed}]

MapPos == Tile \cup {NoPos}
Origins == {b.orig : b \in Births} \cup {NoPos}

NpcType ==
  [NPCActive : BOOLEAN, Numero : Kinds \cup {0}, Pos : MapPos, Orig : Origins,
   CharIndex : 0..(MAXCHARS + 1), Area : AreaType, MaestroUser : User \cup {0},
   Invocado : BOOLEAN, Respawn : BOOLEAN]

UserType ==
  [in : BOOLEAN, Pos : MapPos, CharIndex : 0..MAXCHARS, Area : AreaType, Muerto : BOOLEAN,
   AdminInvisible : BOOLEAN, NroMascotas : Int,
   MascotasIndex : [0..MAXMASCOTAS -> 0..MAXNPCS],
   MascotasType : [0..MAXMASCOTAS -> Kinds \cup {0}]]

\* An NPC in use is on a tile and knows its area; a pet is where pets may be.
Living(r) ==
  /\ r \in NpcType /\ r.NPCActive
  /\ r.Pos \in Tile /\ r.Area = AreaOf(r.Pos)
  /\ r.MaestroUser # 0 => r.Pos.map \in Pk

LastIs(npcs, last) ==
  /\ last \in 0..MAXNPCS
  /\ \A n \in Npc : npcs[n].NPCActive => n <= last
  /\ last # 0 => npcs[last].NPCActive

TilesAre(npcs, tiles) ==
  /\ tiles \in [Cells -> 0..MAXNPCS]
  /\ \A c \in Cells : tiles[c] # 0 => npcs[tiles[c]].NPCActive /\ c = WorldCell(npcs[tiles[c]].Pos)

\* The table of NPCs, its last entry and the tiles.
TableOK(npcs, tiles, last) ==
  /\ npcs \in [Npc -> NpcType]
  /\ \A n \in Npc : npcs[n] = NoNpc \/ Living(npcs[n])
  /\ LastIs(npcs, last) /\ TilesAre(npcs, tiles)

\* CharList and the indexes of the characters.
CharsOK(list, users, npcs) ==
  /\ list \in [1..MAXCHARS -> User \cup Npc \cup {0}]
  /\ \A c \in 1..MAXCHARS : list[c] # 0 =>
       \/ list[c] \in User /\ users[list[c]].CharIndex = c
       \/ list[c] \in Npc /\ npcs[list[c]].CharIndex = c
  /\ \A u \in User : users[u].CharIndex # 0 => list[users[u].CharIndex] = u
  /\ \A n \in Npc : npcs[n].CharIndex \in 1..MAXCHARS => list[npcs[n].CharIndex] = n
  /\ \A u \in User, n \in Npc : users[u].CharIndex # 0 => users[u].CharIndex # npcs[n].CharIndex

\* The types of users, and that tiles name those that are in the game.
UsersOK(users, tiles, groups, num) ==
  /\ users \in [User -> UserType]
  /\ \A u \in User : users[u].Pos \in IF users[u].in THEN Tile ELSE {NoPos}
  /\ tiles \in [Cells -> User \cup {0}]
  /\ \A c \in Cells : tiles[c] # 0 => users[tiles[c]].in
  /\ groups \in [Maps -> [User -> Nat]] /\ num \in [Maps -> Nat]

\* Tiles, areas, groups and counts agree on where the users are.
UsersSound(users, tiles, groups, num) ==
  /\ \A c \in Cells : tiles[c] # 0 => c = UserCell(users[tiles[c]].Pos)
  /\ \A u \in User : users[u].in => users[u].Area = AreaOf(users[u].Pos)
  /\ \A m \in Maps :
       /\ \A u \in User : groups[m][u] = IF users[u].in /\ users[u].Pos.map = m THEN 1 ELSE 0
       /\ num[m] = Cardinality({u \in User : users[u].in /\ users[u].Pos.map = m})

\* What is so of every world a handler is given and leaves.
WorldOK(s) ==
  /\ IsWorld(s) /\ s.pushed \in BOOLEAN
  /\ TableOK(s.npc, s.tileNpc, s.LastNPC)
  /\ CharsOK(s.CharList, s.user, s.npc)
  /\ UsersOK(s.user, s.tileUser, s.group, s.NumUsers)
  /\ s.pushed \/ UsersSound(s.user, s.tileUser, s.group, s.NumUsers)

\* The users of t are those of s.
SameUsers(t, s) ==
  /\ t.user = s.user /\ t.tileUser = s.tileUser /\ t.group = s.group
  /\ t.NumUsers = s.NumUsers /\ t.pushed = s.pushed

-------------------------------------------------------------------------------
(* NPCs *)

LEMMA NoTile == NoPos \notin Tile /\ NoPos.map = 0
<1>1. \A p \in Tile : p.map # 0
  <2>1. \A m \in Maps : m # 0
    BY AreasAssumption
  <2> QED BY <2>1 DEF Tile
<1>2. NoPos.map = 0
  BY DEF NoPos, At
<1> QED BY <1>1, <1>2

LEMMA NoNpcIs ==
  /\ NoNpc \in NpcType /\ ~NoNpc.NPCActive /\ NoNpc.CharIndex = 0 /\ NoNpc.Pos = NoPos
  /\ NoNpc.MaestroUser = 0 /\ NoNpc.Orig = NoPos /\ NoArea \in AreaType
<1>1. NoArea \in AreaType
  BY DEF NoArea, AreaType
<1>2. 0 \in 0..(MAXCHARS + 1)
  BY AreasAssumption
<1> HIDE DEF NoArea
<1>3. NoNpc \in NpcType
  BY <1>1, <1>2 DEF NoNpc, NpcType, MapPos, Origins
<1> QED BY <1>1, <1>3 DEF NoNpc

\* What a table in order says of one NPC.
LEMMA OfTable ==
  ASSUME NEW npcs, NEW tiles, NEW last, TableOK(npcs, tiles, last), NEW n \in Npc
  PROVE  /\ npcs[n] \in NpcType /\ npcs[n].NPCActive \in BOOLEAN
         /\ ~npcs[n].NPCActive => npcs[n] = NoNpc
         /\ npcs[n].NPCActive => Living(npcs[n])
         /\ npcs[n].CharIndex \in 0..(MAXCHARS + 1)
<1>1. npcs[n] \in NpcType
  BY DEF TableOK
<1>2. npcs[n].NPCActive \in BOOLEAN /\ npcs[n].CharIndex \in 0..(MAXCHARS + 1)
  BY <1>1 DEF NpcType
<1>3. npcs[n] = NoNpc \/ Living(npcs[n])
  BY DEF TableOK
<1> QED BY <1>1, <1>2, <1>3, NoNpcIs DEF Living

\* Cells of tiles are cells.
LEMMA CellsOf ==
  ASSUME NEW p \in Tile
  PROVE  UserCell(p) \in Cells /\ WorldCell(p) \in Cells
BY DEF Cells

\* The tiles after n left.
Cleared(tiles, p) == IF p \in Tile THEN [tiles EXCEPT ![WorldCell(p)] = 0] ELSE tiles

\* QuitarNPC, field by field.
LEMMA QuitarFields ==
  ASSUME NEW s, IsWorld(s), NEW n \in Npc, s.npc \in [Npc -> NpcType],
         DOMAIN s.CharList = 1..MAXCHARS, s.npc[n].Pos \in Tile \/ s.npc[n].CharIndex = 0
  PROVE  LET t == QuitarNPC(s, n)
         IN  /\ IsWorld(t) /\ SameUsers(t, s)
             /\ t.npc = [s.npc EXCEPT ![n] = NoNpc]
             /\ t.tileNpc = Cleared(s.tileNpc, s.npc[n].Pos)
             /\ t.CharList = ForgetChar(s.CharList, s.npc[n].CharIndex)
             /\ t.LastNPC = IF n = s.LastNPC THEN LastActive(t.npc, s.LastNPC) ELSE s.LastNPC
<1> DEFINE off == [s EXCEPT !.npc[n].NPCActive = FALSE]
           erased == IF InMapBounds(s.npc[n].Pos) THEN EraseNPCChar(off, n) ELSE off
           reset == [erased EXCEPT !.npc[n] = NoNpc]
           t == [reset EXCEPT !.LastNPC = IF n = @ THEN LastActive(reset.npc, @) ELSE @]
<1>1. QuitarNPC(s, n) = t
  BY DEF QuitarNPC
<1>2. /\ IsWorld(off) /\ SameUsers(off, s) /\ off.tileNpc = s.tileNpc
      /\ off.CharList = s.CharList /\ off.LastNPC = s.LastNPC
      /\ off.npc = [s.npc EXCEPT ![n] = [s.npc[n] EXCEPT !.NPCActive = FALSE]]
  BY DEF IsWorld, SameUsers
<1>3. off.npc[n].Pos = s.npc[n].Pos /\ off.npc[n].CharIndex = s.npc[n].CharIndex
  <2>1. s.npc[n] \in NpcType
    OBVIOUS
  <2> HIDE DEF off
  <2> QED BY <1>2, <2>1 DEF NpcType
<1> HIDE DEF off
<1>4. /\ IsWorld(erased) /\ SameUsers(erased, s) /\ erased.LastNPC = s.LastNPC
      /\ erased.tileNpc = Cleared(s.tileNpc, s.npc[n].Pos)
      /\ erased.CharList = ForgetChar(s.CharList, s.npc[n].CharIndex)
      /\ [erased.npc EXCEPT ![n] = NoNpc] = [off.npc EXCEPT ![n] = NoNpc]
  <2>1. CASE s.npc[n].Pos \in Tile
    <3>1. erased = EraseNPCChar(off, n)
      BY <2>1 DEF InMapBounds
    <3>2. /\ IsWorld(EraseNPCChar(off, n)) /\ SameUsers(EraseNPCChar(off, n), off)
          /\ EraseNPCChar(off, n).LastNPC = off.LastNPC
          /\ EraseNPCChar(off, n).tileNpc = [off.tileNpc EXCEPT ![WorldCell(s.npc[n].Pos)] = 0]
          /\ EraseNPCChar(off, n).CharList = ForgetChar(off.CharList, s.npc[n].CharIndex)
          /\ EraseNPCChar(off, n).npc = [off.npc EXCEPT ![n] = [off.npc[n] EXCEPT !.CharIndex = 0]]
      BY <1>2, <1>3, <2>1 DEF EraseNPCChar, IsWorld, SameUsers, InMapBounds
    <3> QED BY <1>2, <2>1, <3>1, <3>2 DEF Cleared, SameUsers
  <2>2. CASE s.npc[n].Pos \notin Tile
    <3>1. ForgetChar(s.CharList, s.npc[n].CharIndex) = s.CharList
      BY <2>2 DEF ForgetChar
    <3> QED BY <1>2, <2>2, <3>1 DEF Cleared, InMapBounds
  <2> QED BY <2>1, <2>2
<1> HIDE DEF erased
<1>5. /\ IsWorld(reset) /\ SameUsers(reset, s) /\ reset.LastNPC = s.LastNPC
      /\ reset.tileNpc = erased.tileNpc /\ reset.CharList = erased.CharList
      /\ reset.npc = [s.npc EXCEPT ![n] = NoNpc]
  BY <1>2, <1>4 DEF IsWorld, SameUsers
<1> HIDE DEF reset
<1>6. /\ IsWorld(t) /\ SameUsers(t, s)
      /\ t.tileNpc = erased.tileNpc /\ t.CharList = erased.CharList
      /\ t.npc = [s.npc EXCEPT ![n] = NoNpc]
      /\ t.LastNPC = IF n = s.LastNPC THEN LastActive(t.npc, s.LastNPC) ELSE s.LastNPC
  BY <1>5 DEF IsWorld, SameUsers
<1> HIDE DEF t
<1> QED BY <1>1, <1>4, <1>6

\* Worlds of the same fields are the same.
LEMMA SameWorld ==
  ASSUME NEW s, IsWorld(s), NEW t, IsWorld(t), SameUsers(t, s), t.npc = s.npc,
         t.CharList = s.CharList, t.tileNpc = s.tileNpc, t.LastNPC = s.LastNPC
  PROVE  t = s
BY DEF IsWorld, SameUsers

\* The highest NPC in use below the last.
LEMMA LastActiveIs ==
  ASSUME NEW npcs, NEW last \in 0..MAXNPCS, last # 0,
         \A n \in Npc : npcs[n].NPCActive => n < last
  PROVE  LastIs(npcs, LastActive(npcs, last))
<1> DEFINE active == {n \in 1..(last - 1) : npcs[n].NPCActive}
<1>0. MAXNPCS \in Nat /\ Npc = 1..MAXNPCS /\ last - 1 \in Nat
  BY AreasAssumption DEF Npc
<1>1. CASE active = {}
  <2>1. LastActive(npcs, last) = 0
    BY <1>1 DEF LastActive
  <2>2. ASSUME NEW n \in Npc, npcs[n].NPCActive PROVE FALSE
    <3>1. n \in 1..(last - 1)
      BY <1>0, <2>2
    <3> QED BY <1>1, <2>2, <3>1
  <2> QED BY <1>0, <2>1, <2>2 DEF LastIs
<1>2. CASE active # {}
  <2>1. active \in SUBSET (0..(last - 1))
    OBVIOUS
  <2>2. LastActive(npcs, last) = Max(active)
    BY <1>2 DEF LastActive
  <2> DEFINE m == Max(active)
  <2>3. m \in active /\ \A k \in active : k <= m
    <3> HIDE DEF active
    <3> QED BY <1>0, <1>2, <2>1, MaxIs
  <2> HIDE DEF m
  <2>4. m \in 1..(last - 1) /\ npcs[m].NPCActive
    BY <2>3
  <2>5. ASSUME NEW n \in Npc, npcs[n].NPCActive PROVE n <= m
    <3>1. n \in 1..(last - 1)
      BY <1>0, <2>5
    <3>2. n \in active
      BY <2>5, <3>1
    <3> QED BY <2>3, <3>2
  <2>6. LastIs(npcs, m)
    BY <1>0, <2>4, <2>5 DEF LastIs
  <2> QED BY <2>2, <2>6 DEF m
<1> QED BY <1>1, <1>2

\* The table without n.
LEMMA TableQuits ==
  ASSUME NEW npcs, NEW tiles, NEW last, TableOK(npcs, tiles, last), NEW n \in Npc
  PROVE  LET f == [npcs EXCEPT ![n] = NoNpc]
         IN  TableOK(f, Cleared(tiles, npcs[n].Pos),
                     IF n = last THEN LastActive(f, last) ELSE last)
<1> DEFINE f == [npcs EXCEPT ![n] = NoNpc]
           g == Cleared(tiles, npcs[n].Pos)
           l == IF n = last THEN LastActive(f, last) ELSE last
<1>0. npcs \in [Npc -> NpcType] /\ tiles \in [Cells -> 0..MAXNPCS] /\ last \in 0..MAXNPCS
      /\ MAXNPCS \in Nat /\ Npc = 1..MAXNPCS
  BY AreasAssumption DEF TableOK, TilesAre, LastIs, Npc
<1>1. f \in [Npc -> NpcType] /\ f[n] = NoNpc /\ \A m \in Npc \ {n} : f[m] = npcs[m]
  BY <1>0, NoNpcIs
<1> HIDE DEF f
<1>2. \A m \in Npc : f[m] = NoNpc \/ Living(f[m])
  BY <1>1 DEF TableOK
<1>3. \A m \in Npc : f[m].NPCActive => m # n /\ npcs[m].NPCActive
  BY <1>1, NoNpcIs
<1>4. LastIs(f, l)
  <2>1. CASE n = last
    <3>1. \A m \in Npc : f[m].NPCActive => m < last
      <4>1. ASSUME NEW m \in Npc, f[m].NPCActive PROVE m < last
        <5>1. m <= last /\ m # last
          BY <1>3, <2>1, <4>1 DEF TableOK, LastIs
        <5> QED BY <1>0, <5>1
      <4> QED BY <4>1
    <3>2. last # 0
      BY <1>0, <2>1
    <3> QED BY <1>0, <2>1, <3>1, <3>2, LastActiveIs
  <2>2. CASE n # last
    <3>1. last # 0 => last \in Npc
      BY <1>0
    <3> QED BY <1>1, <1>3, <2>2, <3>1 DEF TableOK, LastIs
  <2> QED BY <2>1, <2>2
<1> HIDE DEF l
<1>5. TilesAre(f, g)
  <2>1. g \in [Cells -> 0..MAXNPCS]
        /\ \A c \in Cells : g[c] # 0 => g[c] = tiles[c] /\ (npcs[n].Pos \in Tile => c # WorldCell(npcs[n].Pos))
    BY <1>0, CellsOf DEF Cleared
  <2> HIDE DEF g
  <2>2. ASSUME NEW c \in Cells, g[c] # 0
        PROVE  f[g[c]].NPCActive /\ c = WorldCell(f[g[c]].Pos)
    <3>1. g[c] = tiles[c] /\ g[c] \in Npc /\ npcs[g[c]].NPCActive /\ c = WorldCell(npcs[g[c]].Pos)
      BY <1>0, <2>1, <2>2 DEF TableOK, TilesAre
    <3>2. g[c] # n
      <4>1. ASSUME g[c] = n PROVE FALSE
        <5>1. npcs[n].Pos \in Tile
          BY <3>1, <4>1, OfTable DEF Living
        <5> QED BY <2>1, <2>2, <3>1, <4>1, <5>1
      <4> QED BY <4>1
    <3> QED BY <1>1, <3>1, <3>2
  <2> QED BY <2>1, <2>2 DEF TilesAre
<1> HIDE DEF g
<1>6. TableOK(f, g, l)
  BY <1>1, <1>2, <1>4, <1>5 DEF TableOK
<1> QED BY <1>6 DEF f, g, l

\* The list without the index of n.
LEMMA CharsQuit ==
  ASSUME NEW list, NEW users, NEW npcs, CharsOK(list, users, npcs),
         npcs \in [Npc -> NpcType], users \in [User -> UserType],
         NEW n \in Npc, NEW r \in NpcType, r.CharIndex = 0
  PROVE  CharsOK(ForgetChar(list, npcs[n].CharIndex), users, [npcs EXCEPT ![n] = r])
<1> DEFINE k == npcs[n].CharIndex
           g == ForgetChar(list, k)
           f == [npcs EXCEPT ![n] = r]
<1>0. /\ MAXCHARS \in Nat /\ list \in [1..MAXCHARS -> User \cup Npc \cup {0}]
      /\ \A m \in Npc : npcs[m].CharIndex \in 0..(MAXCHARS + 1)
      /\ \A u \in User : users[u].CharIndex \in 0..MAXCHARS
  <2>1. \A m \in Npc : npcs[m] \in NpcType
    OBVIOUS
  <2>2. \A u \in User : users[u] \in UserType
    OBVIOUS
  <2> QED BY <2>1, <2>2, AreasAssumption DEF CharsOK, NpcType, UserType
<1>1. f[n].CharIndex = 0 /\ \A m \in Npc \ {n} : f[m].CharIndex = npcs[m].CharIndex
  OBVIOUS
<1>2. /\ g \in [1..MAXCHARS -> User \cup Npc \cup {0}]
      /\ \A c \in 1..MAXCHARS : c # k => g[c] = list[c]
      /\ k \in 1..MAXCHARS => g[k] = 0
  BY <1>0 DEF ForgetChar
<1> HIDE DEF g, f
<1>3. ASSUME NEW c \in 1..MAXCHARS, g[c] # 0
      PROVE  \/ g[c] \in User /\ users[g[c]].CharIndex = c
             \/ g[c] \in Npc /\ f[g[c]].CharIndex = c
  <2>1. c # k /\ g[c] = list[c]
    BY <1>2, <1>3
  <2> QED BY <1>1, <1>3, <2>1 DEF CharsOK
<1>4. ASSUME NEW u \in User, users[u].CharIndex # 0 PROVE g[users[u].CharIndex] = u
  <2>1. users[u].CharIndex \in 1..MAXCHARS /\ users[u].CharIndex # k
    BY <1>0, <1>4 DEF CharsOK
  <2> QED BY <1>2, <1>4, <2>1 DEF CharsOK
<1>5. ASSUME NEW m \in Npc, f[m].CharIndex \in 1..MAXCHARS PROVE g[f[m].CharIndex] = m
  <2>1. m # n /\ f[m].CharIndex = npcs[m].CharIndex
    BY <1>1, <1>5
  <2>2. list[npcs[m].CharIndex] = m
    BY <1>5, <2>1 DEF CharsOK
  <2>3. npcs[m].CharIndex # k
    <3>1. ASSUME npcs[m].CharIndex = k PROVE FALSE
      <4>1. list[k] = n
        BY <1>5, <2>1, <3>1 DEF CharsOK
      <4> QED BY <2>1, <2>2, <3>1, <4>1
    <3> QED BY <3>1
  <2> QED BY <1>2, <1>5, <2>1, <2>2, <2>3
<1>6. ASSUME NEW u \in User, NEW m \in Npc, users[u].CharIndex # 0
      PROVE  users[u].CharIndex # f[m].CharIndex
  BY <1>1, <1>6 DEF CharsOK
<1>7. CharsOK(g, users, f)
  BY <1>2, <1>3, <1>4, <1>5, <1>6 DEF CharsOK
<1> QED BY <1>7 DEF f, g

\* An NPC is removed, and its place is empty.
LEMMA Quits ==
  ASSUME NEW s, WorldOK(s), NEW n \in Npc
  PROVE  /\ WorldOK(QuitarNPC(s, n)) /\ SameUsers(QuitarNPC(s, n), s)
         /\ QuitarNPC(s, n).npc = [s.npc EXCEPT ![n] = NoNpc]
<1> DEFINE t == QuitarNPC(s, n)
<1>1. /\ IsWorld(s) /\ TableOK(s.npc, s.tileNpc, s.LastNPC) /\ CharsOK(s.CharList, s.user, s.npc)
      /\ s.npc \in [Npc -> NpcType] /\ s.user \in [User -> UserType]
      /\ DOMAIN s.CharList = 1..MAXCHARS
  BY DEF WorldOK, TableOK, CharsOK, UsersOK
<1>2. s.npc[n].Pos \in Tile \/ s.npc[n].CharIndex = 0
  BY <1>1, NoNpcIs DEF TableOK, Living
<1>3. /\ IsWorld(t) /\ SameUsers(t, s)
      /\ t.npc = [s.npc EXCEPT ![n] = NoNpc]
      /\ t.tileNpc = Cleared(s.tileNpc, s.npc[n].Pos)
      /\ t.CharList = ForgetChar(s.CharList, s.npc[n].CharIndex)
      /\ t.LastNPC = IF n = s.LastNPC THEN LastActive(t.npc, s.LastNPC) ELSE s.LastNPC
  BY <1>1, <1>2, QuitarFields
<1> HIDE DEF t
<1>4. TableOK(t.npc, t.tileNpc, t.LastNPC)
  BY <1>1, <1>3, TableQuits
<1>5. CharsOK(t.CharList, t.user, t.npc)
  BY <1>1, <1>3, CharsQuit, NoNpcIs DEF SameUsers
<1>6. WorldOK(t)
  BY <1>3, <1>4, <1>5 DEF WorldOK, SameUsers
<1> QED BY <1>3, <1>6 DEF t

\* The first place in the table that is free, if there is one.
LEMMA NextOpens ==
  ASSUME NEW s, WorldOK(s)
  PROVE  LET n == NextOpenNPC(s)
         IN  n > MAXNPCS \/ (n \in Npc /\ s.npc[n] = NoNpc)
<1> DEFINE free == {n \in Npc : ~s.npc[n].NPCActive}
           n == NextOpenNPC(s)
<1>0. MAXNPCS \in Nat /\ Npc = 1..MAXNPCS
  BY AreasAssumption DEF Npc
<1>1. free \in SUBSET Nat /\ n = Lowest(free, MAXNPCS + 1)
  BY <1>0 DEF NextOpenNPC
<1>2. CASE free = {}
  <2> HIDE DEF free
  <2> QED BY <1>0, <1>1, <1>2, LowestIs
<1>3. CASE free # {}
  <2>1. n \in free
    <3> HIDE DEF free
    <3> QED BY <1>1, <1>3, LowestIs
  <2>2. n \in Npc /\ ~s.npc[n].NPCActive
    BY <2>1
  <2> QED BY <2>2, OfTable DEF WorldOK
<1> QED BY <1>2, <1>3

\* The first index that is free, or the one after the last.
LEMMA NextIndex ==
  ASSUME NEW s
  PROVE  LET c == NextOpenCharIndex(s)
         IN  c = MAXCHARS + 1 \/ (c \in 1..MAXCHARS /\ s.CharList[c] = 0)
<1> DEFINE free == {c \in 1..MAXCHARS : s.CharList[c] = 0}
           c == NextOpenCharIndex(s)
<1>1. free \in SUBSET Nat /\ c = Lowest(free, MAXCHARS + 1)
  BY DEF NextOpenCharIndex
<1>2. CASE free = {}
  <2> HIDE DEF free
  <2> QED BY <1>1, <1>2, LowestIs
<1>3. CASE free # {}
  <2>1. c \in free
    <3> HIDE DEF free
    <3> QED BY <1>1, <1>3, LowestIs
  <2> QED BY <2>1
<1> QED BY <1>2, <1>3

\* A world d is s with the place n taken by the record r.
Taken(d, s, n, r) ==
  /\ IsWorld(d) /\ SameUsers(d, s) /\ d.CharList = s.CharList /\ d.tileNpc = s.tileNpc
  /\ d.npc = [s.npc EXCEPT ![n] = r]
  /\ d.LastNPC = IF n > s.LastNPC THEN n ELSE s.LastNPC

\* The record of an NPC that is opened.
Opened(r, kind, b) == [r EXCEPT !.NPCActive = TRUE, !.Numero = kind, !.Respawn = b]

LEMMA OpenFields ==
  ASSUME NEW s, IsWorld(s), NEW kind, NEW respawn
  PROVE  LET n == NextOpenNPC(s)
         IN  Taken(OpenNPC(s, kind, respawn), s, n,
                   Opened(s.npc[n], kind, respawn /\ kind \in Respawns))
<1> DEFINE n == NextOpenNPC(s)
           r == Opened(s.npc[n], kind, respawn /\ kind \in Respawns)
           t == OpenNPC(s, kind, respawn)
<1>1. t = [s EXCEPT !.npc[n] = r, !.LastNPC = IF n > s.LastNPC THEN n ELSE s.LastNPC]
  BY DEF OpenNPC, IsWorld, Opened
<1> HIDE DEF n, r, t
<1>2. Taken(t, s, n, r)
  BY <1>1 DEF IsWorld, SameUsers, Taken
<1> QED BY <1>2 DEF n, r, t

\* What an NPC that is opened is.
Newborn(r, p) ==
  /\ r \in NpcType /\ r.NPCActive /\ r.Pos = p /\ r.CharIndex = 0 /\ r.MaestroUser = 0
  /\ r.Invocado = FALSE

LEMMA OpenedIs ==
  ASSUME NEW kind \in Kinds \cup {0}, NEW b \in BOOLEAN
  PROVE  Newborn(Opened(NoNpc, kind, b), NoPos)
<1> DEFINE q == Opened(NoNpc, kind, b)
<1>1. NoNpc \in NpcType
  BY NoNpcIs
<1>2. ASSUME NEW d \in BOOLEAN
      PROVE  [NoNpc EXCEPT !.NPCActive = d, !.Numero = kind, !.Respawn = b] \in NpcType
  BY <1>1 DEF NpcType
<1>3. q \in NpcType
  BY <1>2 DEF Opened
<1>4. /\ q.NPCActive /\ q.Pos = NoPos /\ q.CharIndex = 0 /\ q.MaestroUser = 0
      /\ q.Invocado = FALSE
  BY DEF NoNpc, Opened
<1> QED BY <1>3, <1>4 DEF Newborn

\* It is put on a tile, with an origin or without.
LEMMA Placing ==
  ASSUME NEW q, Newborn(q, NoPos), NEW p \in MapPos, NEW o \in Origins
  PROVE  Newborn([q EXCEPT !.Pos = p], p) /\ Newborn([[q EXCEPT !.Orig = o] EXCEPT !.Pos = p], p)
<1>1. q \in NpcType
  BY DEF Newborn
<1> DEFINE e == [q EXCEPT !.Orig = o]
<1>2. e \in NpcType
  BY <1>1 DEF NpcType
<1>3. /\ e.NPCActive /\ e.CharIndex = 0 /\ e.MaestroUser = 0 /\ e.Invocado = FALSE
  BY <1>1 DEF Newborn, NpcType
<1> HIDE DEF e
<1>4. Newborn([e EXCEPT !.Pos = p], p)
  BY <1>2, <1>3 DEF Newborn, NpcType
<1>5. Newborn([q EXCEPT !.Pos = p], p)
  BY <1>1 DEF Newborn, NpcType
<1> QED BY <1>4, <1>5 DEF e

\* MakeNPCChar of an NPC without a character, field by field.
Made(t, s, n, p) ==
  LET c == NextOpenCharIndex(s)
  IN  /\ IsWorld(t) /\ SameUsers(t, s) /\ t.LastNPC = s.LastNPC
      /\ t.tileNpc = [s.tileNpc EXCEPT ![WorldCell(p)] = n]
      /\ t.CharList = IF c > MAXCHARS THEN s.CharList ELSE [s.CharList EXCEPT ![c] = n]
      /\ t.npc = [s.npc EXCEPT ![n] =
           [[s.npc[n] EXCEPT !.CharIndex = c] EXCEPT
              !.Area = Agregar(s.npc[n].Area, s.npc[n].Pos)]]

LEMMA MakeFields ==
  ASSUME NEW s, IsWorld(s), NEW n \in Npc, s.npc \in [Npc -> NpcType],
         s.npc[n].CharIndex = 0, NEW p \in Tile
  PROVE  Made(MakeNPCChar(s, n, p), s, n, p)
<1> DEFINE c == NextOpenCharIndex(s)
           t == MakeNPCChar(s, n, p)
           r == [s.npc[n] EXCEPT !.CharIndex = c]
           Drawn == IF c > MAXCHARS THEN [s EXCEPT !.npc[n].CharIndex = c]
                    ELSE [s EXCEPT !.npc[n].CharIndex = c, !.CharList[c] = n]
           Placed == [Drawn EXCEPT !.tileNpc[WorldCell(p)] = n]
<1>1. t = [Placed EXCEPT !.npc[n].Area = Agregar(@, Placed.npc[n].Pos)]
  BY DEF MakeNPCChar, InMapBounds
<1>2. /\ IsWorld(Drawn) /\ SameUsers(Drawn, s) /\ Drawn.LastNPC = s.LastNPC
      /\ Drawn.tileNpc = s.tileNpc
      /\ Drawn.CharList = IF c > MAXCHARS THEN s.CharList ELSE [s.CharList EXCEPT ![c] = n]
      /\ Drawn.npc = [s.npc EXCEPT ![n] = r]
  <2> HIDE DEF c
  <2>1. CASE c > MAXCHARS
    BY <2>1 DEF IsWorld, SameUsers
  <2>2. CASE ~(c > MAXCHARS)
    BY <2>2 DEF IsWorld, SameUsers
  <2> QED BY <2>1, <2>2
<1> HIDE DEF Drawn
<1>3. /\ IsWorld(Placed) /\ SameUsers(Placed, s) /\ Placed.LastNPC = s.LastNPC
      /\ Placed.tileNpc = [s.tileNpc EXCEPT ![WorldCell(p)] = n]
      /\ Placed.CharList = Drawn.CharList /\ Placed.npc = [s.npc EXCEPT ![n] = r]
  BY <1>2 DEF IsWorld, SameUsers
<1> HIDE DEF Placed
<1>4. Placed.npc[n] = r /\ r.Pos = s.npc[n].Pos /\ r.Area = s.npc[n].Area
  <2>1. s.npc[n] \in NpcType
    OBVIOUS
  <2> HIDE DEF c
  <2> QED BY <1>3, <2>1 DEF NpcType
<1>5. t = [Placed EXCEPT !.npc = [Placed.npc EXCEPT ![n] =
              [Placed.npc[n] EXCEPT !.Area = Agregar(Placed.npc[n].Area, Placed.npc[n].Pos)]]]
  BY <1>1
<1> HIDE DEF t, r, c
<1>6. /\ IsWorld(t) /\ SameUsers(t, s) /\ t.LastNPC = s.LastNPC
      /\ t.tileNpc = Placed.tileNpc /\ t.CharList = Placed.CharList
      /\ t.npc = [s.npc EXCEPT ![n] = [r EXCEPT !.Area = Agregar(r.Area, r.Pos)]]
  BY <1>3, <1>4, <1>5 DEF IsWorld, SameUsers
<1> QED BY <1>2, <1>3, <1>4, <1>6 DEF t, r, c, Made

\* A free place of the table is taken by r, on the tile p.
LEMMA TableTakes ==
  ASSUME NEW npcs, NEW tiles, NEW last, TableOK(npcs, tiles, last), NEW n \in Npc,
         npcs[n] = NoNpc, NEW r, Living(r)
  PROVE  TableOK([npcs EXCEPT ![n] = r], [tiles EXCEPT ![WorldCell(r.Pos)] = n],
                 IF n > last THEN n ELSE last)
<1> DEFINE f == [npcs EXCEPT ![n] = r]
           w == WorldCell(r.Pos)
           g == [tiles EXCEPT ![w] = n]
           l == IF n > last THEN n ELSE last
<1>0. /\ npcs \in [Npc -> NpcType] /\ tiles \in [Cells -> 0..MAXNPCS] /\ last \in 0..MAXNPCS
      /\ MAXNPCS \in Nat /\ Npc = 1..MAXNPCS
      /\ r \in NpcType /\ r.NPCActive /\ r.Pos \in Tile /\ w \in Cells
  BY AreasAssumption, CellsOf DEF TableOK, TilesAre, LastIs, Npc, Living
<1>1. f \in [Npc -> NpcType] /\ f[n] = r /\ \A m \in Npc \ {n} : f[m] = npcs[m]
  BY <1>0
<1> HIDE DEF f
<1>2. \A m \in Npc : f[m] = NoNpc \/ Living(f[m])
  BY <1>1 DEF TableOK
<1>3. \A m \in Npc : npcs[m].NPCActive => m # n
  BY NoNpcIs
<1>4. LastIs(f, l)
  <2>1. l \in 0..MAXNPCS /\ last <= l /\ n <= l /\ (l = n \/ l = last)
    BY <1>0
  <2>2. ASSUME NEW m \in Npc, f[m].NPCActive PROVE m <= l
    <3>1. m = n \/ m <= last
      BY <1>1, <2>2 DEF TableOK, LastIs
    <3> QED BY <1>0, <2>1, <3>1
  <2>3. ASSUME l # 0 PROVE f[l].NPCActive
    <3>1. l \in Npc
      BY <1>0, <2>1, <2>3
    <3>2. l = n \/ npcs[l].NPCActive
      BY <2>1, <2>3 DEF TableOK, LastIs
    <3> QED BY <1>0, <1>1, <3>1, <3>2
  <2> QED BY <2>1, <2>2, <2>3 DEF LastIs
<1> HIDE DEF l
<1>5. TilesAre(f, g)
  <2>1. /\ g \in [Cells -> 0..MAXNPCS] /\ g[w] = n /\ n # 0
        /\ \A c \in Cells : c # w => g[c] = tiles[c]
    BY <1>0
  <2> HIDE DEF g, w
  <2>2. ASSUME NEW c \in Cells, g[c] # 0
        PROVE  f[g[c]].NPCActive /\ c = WorldCell(f[g[c]].Pos)
    <3>1. CASE c = w
      BY <1>0, <1>1, <2>1, <3>1 DEF w
    <3>2. CASE c # w
      <4>1. g[c] = tiles[c] /\ g[c] \in Npc
            /\ npcs[g[c]].NPCActive /\ c = WorldCell(npcs[g[c]].Pos)
        BY <1>0, <2>1, <2>2, <3>2 DEF TableOK, TilesAre
      <4> QED BY <1>1, <1>3, <4>1
    <3> QED BY <3>1, <3>2
  <2> QED BY <2>1, <2>2 DEF TilesAre
<1> HIDE DEF g, w
<1>6. TableOK(f, g, l)
  BY <1>1, <1>2, <1>4, <1>5 DEF TableOK
<1> QED BY <1>6 DEF f, g, l, w

\* An index nobody has is given to n, which has none.
LEMMA CharsTake ==
  ASSUME NEW list, NEW users, NEW npcs, CharsOK(list, users, npcs),
         npcs \in [Npc -> NpcType], users \in [User -> UserType],
         NEW n \in Npc, npcs[n].CharIndex = 0, NEW r \in NpcType,
         r.CharIndex = MAXCHARS + 1 \/ (r.CharIndex \in 1..MAXCHARS /\ list[r.CharIndex] = 0)
  PROVE  CharsOK(IF r.CharIndex > MAXCHARS THEN list ELSE [list EXCEPT ![r.CharIndex] = n],
                 users, [npcs EXCEPT ![n] = r])
<1> DEFINE k == r.CharIndex
           g == IF k > MAXCHARS THEN list ELSE [list EXCEPT ![k] = n]
           f == [npcs EXCEPT ![n] = r]
<1>0. /\ MAXCHARS \in Nat /\ list \in [1..MAXCHARS -> User \cup Npc \cup {0}]
      /\ \A u \in User : users[u].CharIndex \in 0..MAXCHARS
  <2>1. \A u \in User : users[u] \in UserType
    OBVIOUS
  <2> QED BY <2>1, AreasAssumption DEF CharsOK, UserType
<1>1. f[n].CharIndex = k /\ \A m \in Npc \ {n} : f[m].CharIndex = npcs[m].CharIndex
  OBVIOUS
<1>2. /\ g \in [1..MAXCHARS -> User \cup Npc \cup {0}]
      /\ \A c \in 1..MAXCHARS : c # k => g[c] = list[c]
      /\ k \in 1..MAXCHARS => g[k] = n /\ list[k] = 0
  BY <1>0
<1>3. 0 \notin User /\ 0 \notin Npc
  BY DEF User, Npc
<1> HIDE DEF g, f
<1>4. ASSUME NEW c \in 1..MAXCHARS, g[c] # 0
      PROVE  \/ g[c] \in User /\ users[g[c]].CharIndex = c
             \/ g[c] \in Npc /\ f[g[c]].CharIndex = c
  <2>1. CASE c = k
    BY <1>1, <1>2, <2>1
  <2>2. CASE c # k
    <3>1. /\ g[c] = list[c]
          /\ \/ g[c] \in User /\ users[g[c]].CharIndex = c
             \/ g[c] \in Npc /\ npcs[g[c]].CharIndex = c
      BY <1>2, <1>4, <2>2 DEF CharsOK
    <3>2. c # 0
      OBVIOUS
    <3> QED BY <1>1, <3>1, <3>2
  <2> QED BY <2>1, <2>2
<1>5. ASSUME NEW u \in User, users[u].CharIndex # 0 PROVE g[users[u].CharIndex] = u
  <2>1. users[u].CharIndex \in 1..MAXCHARS /\ list[users[u].CharIndex] = u /\ u # 0
    BY <1>0, <1>3, <1>5 DEF CharsOK
  <2>2. users[u].CharIndex # k
    BY <1>2, <2>1
  <2> QED BY <1>2, <2>1, <2>2
<1>6. ASSUME NEW m \in Npc, f[m].CharIndex \in 1..MAXCHARS PROVE g[f[m].CharIndex] = m
  <2>1. CASE m = n
    BY <1>1, <1>2, <1>6, <2>1
  <2>2. CASE m # n
    <3>1. f[m].CharIndex = npcs[m].CharIndex /\ list[npcs[m].CharIndex] = m /\ m # 0
      BY <1>1, <1>3, <1>6, <2>2 DEF CharsOK
    <3>2. f[m].CharIndex # k
      BY <1>2, <1>6, <3>1
    <3> QED BY <1>2, <1>6, <3>1, <3>2
  <2> QED BY <2>1, <2>2
<1>7. ASSUME NEW u \in User, NEW m \in Npc, users[u].CharIndex # 0
      PROVE  users[u].CharIndex # f[m].CharIndex
  <2>1. CASE m = n
    <3>1. users[u].CharIndex \in 1..MAXCHARS /\ list[users[u].CharIndex] = u /\ u # 0
      BY <1>0, <1>3, <1>7 DEF CharsOK
    <3>2. k = MAXCHARS + 1 \/ (k \in 1..MAXCHARS /\ list[k] = 0)
      OBVIOUS
    <3>3. users[u].CharIndex # k
      BY <1>0, <3>1, <3>2
    <3> QED BY <1>1, <2>1, <3>3
  <2>2. CASE m # n
    BY <1>1, <1>7, <2>2 DEF CharsOK
  <2> QED BY <2>1, <2>2
<1>8. CharsOK(g, users, f)
  BY <1>2, <1>4, <1>5, <1>6, <1>7 DEF CharsOK
<1> QED BY <1>8 DEF f, g

\* An NPC on the tile p, as one that was born there.
BornAt(r, p) ==
  Living(r) /\ r.Pos = p /\ r.MaestroUser = 0 /\ r.Invocado = FALSE

\* An NPC that was opened gets its character, on the tile where it is.
LEMMA Makes ==
  ASSUME NEW s, WorldOK(s), NEW n \in Npc, s.npc[n] = NoNpc, NEW r, Newborn(r, r.Pos),
         r.Pos \in Tile, NEW d, Taken(d, s, n, r)
  PROVE  LET t == MakeNPCChar(d, n, r.Pos)
         IN  /\ WorldOK(t) /\ SameUsers(t, s)
             /\ BornAt(t.npc[n], r.Pos) /\ t.npc = [s.npc EXCEPT ![n] = t.npc[n]]
<1> DEFINE t == MakeNPCChar(d, n, r.Pos)
           c == NextOpenCharIndex(d)
           q == [r EXCEPT !.CharIndex = c]
           e == [q EXCEPT !.Area = Agregar(r.Area, r.Pos)]
<1>0. /\ r \in NpcType /\ r.NPCActive /\ r.CharIndex = 0 /\ r.MaestroUser = 0
      /\ r.Invocado = FALSE
  BY DEF Newborn
<1>1. /\ IsWorld(s) /\ TableOK(s.npc, s.tileNpc, s.LastNPC) /\ CharsOK(s.CharList, s.user, s.npc)
      /\ s.npc \in [Npc -> NpcType] /\ s.user \in [User -> UserType]
  BY DEF WorldOK, TableOK, CharsOK, UsersOK
<1>2. /\ IsWorld(d) /\ SameUsers(d, s) /\ d.CharList = s.CharList /\ d.tileNpc = s.tileNpc
      /\ d.npc = [s.npc EXCEPT ![n] = r] /\ d.npc[n] = r /\ d.npc \in [Npc -> NpcType]
      /\ d.LastNPC = IF n > s.LastNPC THEN n ELSE s.LastNPC
  BY <1>0, <1>1 DEF Taken
<1>3. /\ IsWorld(t) /\ SameUsers(t, d) /\ t.LastNPC = d.LastNPC
      /\ t.tileNpc = [d.tileNpc EXCEPT ![WorldCell(r.Pos)] = n]
      /\ t.CharList = IF c > MAXCHARS THEN d.CharList ELSE [d.CharList EXCEPT ![c] = n]
      /\ t.npc = [d.npc EXCEPT ![n] = e]
  <2> DEFINE v == [[d.npc[n] EXCEPT !.CharIndex = c] EXCEPT
                     !.Area = Agregar(d.npc[n].Area, d.npc[n].Pos)]
  <2>1. v = e
    BY <1>2
  <2>2. /\ IsWorld(t) /\ SameUsers(t, d) /\ t.LastNPC = d.LastNPC
        /\ t.tileNpc = [d.tileNpc EXCEPT ![WorldCell(r.Pos)] = n]
        /\ t.CharList = IF c > MAXCHARS THEN d.CharList ELSE [d.CharList EXCEPT ![c] = n]
        /\ t.npc = [d.npc EXCEPT ![n] = v]
    <3>1. d.npc[n].CharIndex = 0 /\ r.Pos \in Tile /\ n \in Npc
      BY <1>0, <1>2
    <3>2. Made(MakeNPCChar(d, n, r.Pos), d, n, r.Pos)
      BY <1>2, <3>1, MakeFields
    <3> QED BY <3>2 DEF Made
  <2> HIDE DEF v, e, t, c
  <2> QED BY <2>1, <2>2
<1> HIDE DEF t
<1>4. c = MAXCHARS + 1 \/ (c \in 1..MAXCHARS /\ s.CharList[c] = 0)
  BY <1>2, NextIndex
<1> HIDE DEF c
<1>5. c \in 0..(MAXCHARS + 1)
  BY <1>4, AreasAssumption
<1>6. q \in NpcType /\ q.CharIndex = c /\ q.Pos = r.Pos /\ q.NPCActive /\ q.MaestroUser = 0
      /\ q.Invocado = FALSE
  BY <1>0, <1>5 DEF NpcType
<1>7. Agregar(r.Area, r.Pos) = AreaOf(r.Pos) /\ AreaOf(r.Pos) \in AreaType
  BY <1>0, Added DEF NpcType
<1> HIDE DEF q
<1>8. e \in NpcType /\ e.CharIndex = c /\ e.Pos = r.Pos /\ e.NPCActive /\ e.MaestroUser = 0
      /\ e.Invocado = FALSE /\ e.Area = AreaOf(r.Pos)
  BY <1>6, <1>7 DEF NpcType
<1> HIDE DEF e
<1>9. BornAt(e, r.Pos)
  BY <1>8 DEF BornAt, Living
<1>10. t.npc = [s.npc EXCEPT ![n] = e] /\ t.npc[n] = e
  BY <1>1, <1>2, <1>3
<1>11. TableOK(t.npc, t.tileNpc, t.LastNPC)
  BY <1>1, <1>2, <1>3, <1>8, <1>9, <1>10, TableTakes DEF BornAt
<1>12. CharsOK(t.CharList, t.user, t.npc)
  <2>1. s.npc[n].CharIndex = 0
    BY NoNpcIs
  <2>2. e.CharIndex = MAXCHARS + 1 \/ (e.CharIndex \in 1..MAXCHARS /\ s.CharList[e.CharIndex] = 0)
    BY <1>4, <1>8
  <2>3. CharsOK(IF e.CharIndex > MAXCHARS THEN s.CharList ELSE [s.CharList EXCEPT ![e.CharIndex] = n],
                s.user, [s.npc EXCEPT ![n] = e])
    BY <1>1, <1>8, <2>1, <2>2, CharsTake
  <2>4. t.CharList = IF e.CharIndex > MAXCHARS THEN s.CharList
                     ELSE [s.CharList EXCEPT ![e.CharIndex] = n]
    BY <1>2, <1>3, <1>8
  <2>5. t.user = s.user
    BY <1>2, <1>3 DEF SameUsers
  <2> QED BY <1>10, <2>3, <2>4, <2>5
<1>13. SameUsers(t, s)
  BY <1>2, <1>3 DEF SameUsers
<1>14. WorldOK(t)
  BY <1>3, <1>11, <1>12, <1>13 DEF WorldOK, SameUsers
<1> QED BY <1>9, <1>10, <1>13, <1>14 DEF t

-------------------------------------------------------------------------------
(* Births *)

LEMMA RingIs ==
  ASSUME NEW p, NEW q, p.x \in Int, p.y \in Int, q.x \in Int, q.y \in Int
  PROVE  Ring(p, q) \in Nat
<1> DEFINE a == p.x - q.x
           b == p.y - q.y
           T == {a, 0 - a, b, 0 - b}
<1>1. a \in Int /\ b \in Int /\ q.x - p.x = 0 - a /\ q.y - p.y = 0 - b
  OBVIOUS
<1>2. Ring(p, q) = Max(T)
  BY <1>1 DEF Ring
<1> HIDE DEF a, b
<1>3. \E x \in T : \A y \in T : x >= y
  BY <1>1
<1>4. Max(T) \in T /\ \A y \in T : Max(T) >= y
  <2> HIDE DEF T
  <2> QED BY <1>3 DEF Max
<1>5. Max(T) \in Int /\ Max(T) >= a /\ Max(T) >= 0 - a
  BY <1>1, <1>4
<1> HIDE DEF T
<1> QED BY <1>1, <1>2, <1>5

\* The nearest legal tile is a tile of that map: of those in the nearest ring and its
\* first row there is a first one.
LEMMA Closest ==
  ASSUME NEW s, NEW p, p.x \in Int, p.y \in Int
  PROVE  LET q == ClosestLegalPos(s, p)
         IN  q = NoPos \/ (q \in Tile /\ q.map = p.map)
<1> DEFINE legal == {q \in Tile : q.map = p.map /\ Ring(p, q) <= 12 /\ LegalPos(s, q)}
<1>0. \A q \in legal : q \in Tile /\ q.map = p.map /\ q.x \in Nat /\ q.y \in Nat
  BY DEF Tile
<1>1. CASE legal = {}
  BY <1>1 DEF ClosestLegalPos
<1>2. CASE legal # {}
  <2> HIDE DEF legal
  <2> DEFINE rings == {Ring(p, q) : q \in legal}
  <2>1. \A q \in legal : Ring(p, q) \in Nat
    BY <1>0, RingIs
  <2>2. PICK q1 \in legal : \A r \in legal : Ring(p, q1) <= Ring(p, r)
    <3>1. rings \in SUBSET Nat /\ rings # {}
      BY <1>2, <2>1
    <3>2. PICK m \in rings : \A k \in rings : m <= k
      <4> HIDE DEF rings
      <4> QED BY <3>1, LeastOf
    <3> QED BY <3>2
  <2> DEFINE near == {q \in legal : Ring(p, q) = Ring(p, q1)}
             rows == {q.y : q \in near}
  <2>3. PICK q2 \in near : \A r \in near : q2.y <= r.y
    <3>1. rows \in SUBSET Nat /\ rows # {}
      BY <1>0
    <3>2. PICK m \in rows : \A k \in rows : m <= k
      <4> HIDE DEF rows
      <4> QED BY <3>1, LeastOf
    <3> QED BY <3>2
  <2> DEFINE row == {q \in near : q.y = q2.y}
             cols == {q.x : q \in row}
  <2>4. PICK q3 \in row : \A r \in row : q3.x <= r.x
    <3>1. cols \in SUBSET Nat /\ cols # {}
      BY <1>0, <2>3
    <3>2. PICK m \in cols : \A k \in cols : m <= k
      <4> HIDE DEF cols
      <4> QED BY <3>1, LeastOf
    <3> QED BY <3>2
  <2>5. q3 \in legal /\ Ring(p, q3) = Ring(p, q1) /\ q3.y = q2.y
    BY <2>4
  <2>6. ASSUME NEW r \in legal PROVE Before(p, q3, r)
    <3>1. Ring(p, q3) <= Ring(p, r) /\ Ring(p, q3) \in Nat /\ Ring(p, r) \in Nat
      BY <2>1, <2>2, <2>5
    <3>2. CASE Ring(p, q3) < Ring(p, r)
      BY <3>2 DEF Before
    <3>3. CASE Ring(p, q3) = Ring(p, r)
      <4>1. r \in near
        BY <2>5, <3>3
      <4>2. q3.y <= r.y /\ q3.y \in Nat /\ r.y \in Nat /\ q3.x \in Nat /\ r.x \in Nat
        BY <1>0, <2>3, <2>5, <4>1
      <4>3. q3.y = r.y => q3.x <= r.x
        <5>1. ASSUME q3.y = r.y PROVE r \in row
          BY <2>5, <4>1, <5>1
        <5> QED BY <2>4, <5>1
      <4>4. q3.y < r.y \/ (q3.y = r.y /\ q3.x <= r.x)
        BY <4>2, <4>3
      <4> QED BY <3>3, <4>4 DEF Before
    <3> QED BY <3>1, <3>2, <3>3
  <2>7. (CHOOSE q \in legal : \A r \in legal : Before(p, q, r)) \in legal
    BY <2>5, <2>6
  <2>8. ClosestLegalPos(s, p) = CHOOSE q \in legal : \A r \in legal : Before(p, q, r)
    BY <1>2 DEF ClosestLegalPos, legal
  <2> QED BY <1>0, <2>7, <2>8
<1> QED BY <1>1, <1>2

\* An NPC that is opened where there was none, and what becomes of it on its tile.
LEMMA Opens ==
  ASSUME NEW s, WorldOK(s), NEW kind \in Kinds \cup {0}, NEW respawn \in BOOLEAN,
         NextOpenNPC(s) \in Npc
  PROVE  LET n == NextOpenNPC(s)
             q == Opened(NoNpc, kind, respawn /\ kind \in Respawns)
         IN  Taken(OpenNPC(s, kind, respawn), s, n, q) /\ s.npc[n] = NoNpc /\ Newborn(q, NoPos)
<1> DEFINE n == NextOpenNPC(s)
<1>1. s.npc[n] = NoNpc
  <2>1. n <= MAXNPCS /\ MAXNPCS \in Nat /\ n \in Nat
    BY AreasAssumption DEF Npc
  <2>2. ~(n > MAXNPCS)
    BY <2>1
  <2> QED BY <2>2, NextOpens
<1>2. IsWorld(s)
  BY DEF WorldOK
<1>3. Newborn(Opened(NoNpc, kind, respawn /\ kind \in Respawns), NoPos)
  <2>1. (respawn /\ kind \in Respawns) \in BOOLEAN
    OBVIOUS
  <2> QED BY <2>1, OpenedIs
<1> QED BY <1>1, <1>2, <1>3, OpenFields

\* Without a tile it is removed, as if it had never been.
LEMMA NotBorn ==
  ASSUME NEW s, WorldOK(s), NEW kind \in Kinds \cup {0}, NEW respawn \in BOOLEAN,
         NextOpenNPC(s) \in Npc
  PROVE  QuitarNPC(OpenNPC(s, kind, respawn), NextOpenNPC(s)) = s
<1> DEFINE n == NextOpenNPC(s)
           b == (respawn /\ kind \in Respawns)
           q == Opened(NoNpc, kind, b)
           d == OpenNPC(s, kind, respawn)
           t == QuitarNPC(d, n)
<1>1. Taken(d, s, n, q) /\ s.npc[n] = NoNpc /\ n \in Npc
  BY Opens
<1>2. q \in NpcType /\ q.Pos = NoPos /\ q.CharIndex = 0 /\ q.NPCActive
  BY Opens DEF Newborn
<1> HIDE DEF q, n, d
<1>3. /\ IsWorld(s) /\ TableOK(s.npc, s.tileNpc, s.LastNPC)
      /\ s.npc \in [Npc -> NpcType] /\ DOMAIN s.CharList = 1..MAXCHARS
  BY DEF WorldOK, TableOK, CharsOK
<1>4. /\ IsWorld(d) /\ SameUsers(d, s) /\ d.CharList = s.CharList /\ d.tileNpc = s.tileNpc
      /\ d.npc = [s.npc EXCEPT ![n] = q] /\ d.npc[n] = q /\ d.npc \in [Npc -> NpcType]
      /\ d.LastNPC = IF n > s.LastNPC THEN n ELSE s.LastNPC
  BY <1>1, <1>2, <1>3 DEF Taken
<1>5. /\ IsWorld(t) /\ SameUsers(t, d)
      /\ t.npc = [d.npc EXCEPT ![n] = NoNpc]
      /\ t.tileNpc = Cleared(d.tileNpc, d.npc[n].Pos)
      /\ t.CharList = ForgetChar(d.CharList, d.npc[n].CharIndex)
      /\ t.LastNPC = IF n = d.LastNPC THEN LastActive(t.npc, d.LastNPC) ELSE d.LastNPC
  BY <1>1, <1>2, <1>3, <1>4, QuitarFields
<1> HIDE DEF t
<1>6. t.npc = s.npc
  BY <1>1, <1>3, <1>4, <1>5
<1>7. t.tileNpc = s.tileNpc /\ t.CharList = s.CharList
  BY <1>2, <1>3, <1>4, <1>5, NoTile DEF Cleared, ForgetChar
<1>8. t.LastNPC = s.LastNPC
  <2>0. MAXNPCS \in Nat /\ Npc = 1..MAXNPCS /\ s.LastNPC \in 0..MAXNPCS
        /\ LastIs(s.npc, s.LastNPC) /\ ~s.npc[n].NPCActive
    BY <1>1, <1>3, AreasAssumption, NoNpcIs DEF TableOK, LastIs, Npc
  <2>1. CASE n = d.LastNPC
    <3>1. n \in 0..MAXNPCS /\ n # 0 /\ s.LastNPC <= n
      BY <1>1, <1>4, <2>0, <2>1
    <3>2. \A m \in Npc : s.npc[m].NPCActive => m < n
      <4>1. ASSUME NEW m \in Npc, s.npc[m].NPCActive PROVE m < n
        <5>1. m <= s.LastNPC
          BY <1>3, <4>1 DEF TableOK, LastIs
        <5>2. m # n
          BY <2>0, <4>1
        <5> QED BY <2>0, <3>1, <5>1, <5>2
      <4> QED BY <4>1
    <3>3. LastIs(s.npc, t.LastNPC)
      BY <1>5, <1>6, <2>1, <3>1, <3>2, LastActiveIs
    <3> QED BY <2>0, <3>3 DEF LastIs
  <2>2. CASE n # d.LastNPC
    BY <1>4, <1>5, <2>2
  <2> QED BY <2>1, <2>2
<1>9. SameUsers(t, s)
  BY <1>4, <1>5 DEF SameUsers
<1>10. t = s
  BY <1>3, <1>5, <1>6, <1>7, <1>8, <1>9, SameWorld
<1> QED BY <1>10 DEF t, d, n

\* An opened NPC is put on a tile and gets its character there.
LEMMA Births1 ==
  ASSUME NEW s, WorldOK(s), NEW n \in Npc, s.npc[n] = NoNpc, NEW q, Newborn(q, NoPos),
         NEW d, Taken(d, s, n, q), NEW p \in Tile, NEW o \in Origins
  PROVE  LET a == [d EXCEPT !.npc[n].Pos = p]
             b == [d EXCEPT !.npc[n].Orig = o, !.npc[n].Pos = p]
         IN  /\ Taken(a, s, n, [q EXCEPT !.Pos = p])
             /\ Taken(b, s, n, [[q EXCEPT !.Orig = o] EXCEPT !.Pos = p])
<1> DEFINE a == [d EXCEPT !.npc[n].Pos = p]
           b == [d EXCEPT !.npc[n].Orig = o, !.npc[n].Pos = p]
           e == [q EXCEPT !.Pos = p]
           f == [[q EXCEPT !.Orig = o] EXCEPT !.Pos = p]
<1>1. s.npc \in [Npc -> NpcType]
  BY DEF WorldOK, TableOK
<1>2. /\ IsWorld(d) /\ SameUsers(d, s) /\ d.CharList = s.CharList /\ d.tileNpc = s.tileNpc
      /\ d.npc = [s.npc EXCEPT ![n] = q] /\ d.npc[n] = q
      /\ d.LastNPC = IF n > s.LastNPC THEN n ELSE s.LastNPC
  BY <1>1 DEF Taken
<1>3. a = [d EXCEPT !.npc = [d.npc EXCEPT ![n] = e]]
  BY <1>2
<1>4. b = [d EXCEPT !.npc = [d.npc EXCEPT ![n] = f]]
  <2>1. b = [d EXCEPT !.npc = [[d.npc EXCEPT ![n] = [d.npc[n] EXCEPT !.Orig = o]] EXCEPT
                                  ![n] = [[d.npc[n] EXCEPT !.Orig = o] EXCEPT !.Pos = p]]]
    BY <1>1, <1>2 DEF IsWorld
  <2> QED BY <1>1, <1>2, <2>1
<1> HIDE DEF a, b, e, f
<1>5. ASSUME NEW r, NEW t, t = [d EXCEPT !.npc = [d.npc EXCEPT ![n] = r]]
      PROVE  Taken(t, s, n, r)
  <2>1. /\ IsWorld(t) /\ SameUsers(t, d) /\ t.CharList = d.CharList /\ t.tileNpc = d.tileNpc
        /\ t.npc = [d.npc EXCEPT ![n] = r] /\ t.LastNPC = d.LastNPC
    BY <1>2, <1>5 DEF IsWorld, SameUsers
  <2>2. t.npc = [s.npc EXCEPT ![n] = r]
    BY <1>1, <1>2, <2>1
  <2> QED BY <1>2, <2>1, <2>2 DEF Taken, SameUsers
<1> QED BY <1>3, <1>4, <1>5 DEF a, b, e, f

\* A world t is s with an NPC born in the free place n, on a tile of map m.
Birthed(t, s, n, m) ==
  /\ n \in Npc /\ s.npc[n] = NoNpc
  /\ t.npc = [s.npc EXCEPT ![n] = t.npc[n]]
  /\ Living(t.npc[n]) /\ t.npc[n].Pos.map = m /\ t.npc[n].MaestroUser = 0

\* SpawnNpc: an NPC is born on the map it was to be born on, or none is.
LEMMA Spawns ==
  ASSUME NEW s, WorldOK(s), NEW kind \in Kinds \cup {0}, NEW p, p.x \in Int, p.y \in Int,
         NEW respawn \in BOOLEAN
  PROVE  LET b == SpawnNpc(s, kind, p, respawn)
         IN  /\ WorldOK(b.world) /\ SameUsers(b.world, s)
             /\ \/ b.npc = 0 /\ b.world = s
                \/ b.npc \in Npc /\ Birthed(b.world, s, b.npc, p.map)
<1> DEFINE b == SpawnNpc(s, kind, p, respawn)
           n == NextOpenNPC(s)
           d == OpenNPC(s, kind, respawn)
           q == ClosestLegalPos(d, p)
           e == [d EXCEPT !.npc[n].Pos = q]
<1>1. b = IF n > MAXNPCS THEN [world |-> s, npc |-> 0]
          ELSE IF q = NoPos THEN [world |-> QuitarNPC(d, n), npc |-> 0]
          ELSE [world |-> MakeNPCChar(e, n, q), npc |-> n]
  BY DEF SpawnNpc
<1>2. SameUsers(s, s)
  BY DEF SameUsers
<1>3. CASE n > MAXNPCS
  BY <1>1, <1>2, <1>3
<1>4. CASE ~(n > MAXNPCS) /\ q = NoPos
  <2>1. n \in Npc
    BY <1>4, NextOpens
  <2>2. QuitarNPC(d, n) = s
    BY <2>1, NotBorn
  <2> QED BY <1>1, <1>2, <1>4, <2>2
<1>5. CASE ~(n > MAXNPCS) /\ q # NoPos
  <2>1. n \in Npc
    BY <1>5, NextOpens
  <2>2. q \in Tile /\ q.map = p.map
    BY <1>5, Closest
  <2> DEFINE r == Opened(NoNpc, kind, respawn /\ kind \in Respawns)
             v == [r EXCEPT !.Pos = q]
  <2>3. Taken(d, s, n, r) /\ s.npc[n] = NoNpc /\ Newborn(r, NoPos)
    BY <2>1, Opens
  <2> HIDE DEF r, d, q, n
  <2>4. Taken(e, s, n, v)
    <3>1. NoPos \in Origins
      BY DEF Origins
    <3> QED BY <2>1, <2>2, <2>3, <3>1, Births1
  <2>5. Newborn(v, q)
    <3>1. q \in MapPos /\ NoPos \in Origins
      BY <2>2 DEF MapPos, Origins
    <3> QED BY <2>3, <3>1, Placing
  <2>6. v.Pos = q
    BY <2>5 DEF Newborn
  <2> HIDE DEF v, e
  <2> DEFINE t == MakeNPCChar(e, n, q)
  <2>7. /\ WorldOK(t) /\ SameUsers(t, s)
        /\ BornAt(t.npc[n], q) /\ t.npc = [s.npc EXCEPT ![n] = t.npc[n]]
    BY <2>1, <2>2, <2>3, <2>4, <2>5, <2>6, Makes
  <2>8. b.world = t /\ b.npc = n
    BY <1>1, <1>5
  <2> HIDE DEF t, b
  <2>9. Birthed(t, s, n, p.map)
    BY <2>1, <2>2, <2>3, <2>7 DEF Birthed, BornAt
  <2> QED BY <2>1, <2>7, <2>8, <2>9 DEF b
<1> QED BY <1>3, <1>4, <1>5

\* CrearNPC: wherever the tries come to, or near the middle of the map.
LEMMA Crears ==
  ASSUME NEW s, WorldOK(s), NEW kind \in Kinds \cup {0}, NEW m \in Maps, NEW orig \in Origins,
         NEW t \in CrearNPC(s, kind, m, orig)
  PROVE  WorldOK(t) /\ SameUsers(t, s)
<1> DEFINE n == NextOpenNPC(s)
           d == OpenNPC(s, kind, TRUE)
           r == Opened(NoNpc, kind, TRUE /\ kind \in Respawns)
<1>0. SameUsers(s, s)
  BY DEF SameUsers
<1>1. CASE orig = NoPos
  <2> DEFINE c == At(m, Side \div 2, Side \div 2)
             q == ClosestLegalPos(d, c)
             e == [d EXCEPT !.npc[n].Pos = q]
  <2>1. t = IF n > MAXNPCS THEN s ELSE IF q = NoPos THEN QuitarNPC(d, n)
            ELSE MakeNPCChar(e, n, q)
    BY <1>1 DEF CrearNPC, CrearNPCMiddle
  <2>2. CASE n > MAXNPCS
    BY <1>0, <2>1, <2>2
  <2>3. CASE ~(n > MAXNPCS) /\ q = NoPos
    <3>1. n \in Npc
      BY <2>3, NextOpens
    <3>2. QuitarNPC(d, n) = s
      BY <3>1, NotBorn
    <3> QED BY <1>0, <2>1, <2>3, <3>2
  <2>4. CASE ~(n > MAXNPCS) /\ q # NoPos
    <3>1. n \in Npc
      BY <2>4, NextOpens
    <3>2. c.x \in Int /\ c.y \in Int
      BY AreasAssumption DEF At
    <3>3. q \in Tile
      BY <2>4, <3>2, Closest
    <3> DEFINE v == [r EXCEPT !.Pos = q]
    <3>4. Taken(d, s, n, r) /\ s.npc[n] = NoNpc /\ Newborn(r, NoPos)
      BY <3>1, Opens
    <3>5. NoPos \in Origins /\ q \in MapPos
      BY <3>3 DEF Origins, MapPos
    <3> HIDE DEF r, d, q, n, c
    <3>6. Taken(e, s, n, v)
      BY <3>1, <3>3, <3>4, <3>5, Births1
    <3>7. Newborn(v, q)
      BY <3>4, <3>5, Placing
    <3>8. v.Pos = q
      BY <3>7 DEF Newborn
    <3> HIDE DEF v, e
    <3>9. WorldOK(MakeNPCChar(e, n, q)) /\ SameUsers(MakeNPCChar(e, n, q), s)
      BY <3>1, <3>3, <3>4, <3>6, <3>7, <3>8, Makes
    <3> QED BY <2>1, <2>4, <3>9
  <2> QED BY <2>2, <2>3, <2>4
<1>2. CASE orig # NoPos
  <2>1. PICK p0 \in CrearPos(s, orig) : t = CrearNPCAt(s, kind, orig, [p0 EXCEPT !.map = m])
    BY <1>2 DEF CrearNPC
  <2> DEFINE p == [p0 EXCEPT !.map = m]
             e == [d EXCEPT !.npc[n].Orig = orig, !.npc[n].Pos = p]
  <2>2. p \in Tile
    <3>1. PICK b \in Births : orig = b.orig
      BY <1>2 DEF Origins
    <3>2. p0 \in Around(b.orig) /\ Around(b.orig) \subseteq Tile
      BY <3>1, WorldAssumption DEF CrearPos
    <3>3. p0 \in Tile
      BY <3>2
    <3> QED BY <3>3 DEF Tile
  <2>3. t = IF n > MAXNPCS THEN s ELSE MakeNPCChar(e, n, p)
    BY <2>1 DEF CrearNPCAt
  <2>4. CASE n > MAXNPCS
    BY <1>0, <2>3, <2>4
  <2>5. CASE ~(n > MAXNPCS)
    <3>1. n \in Npc
      BY <2>5, NextOpens
    <3> DEFINE v == [[r EXCEPT !.Orig = orig] EXCEPT !.Pos = p]
    <3>4. Taken(d, s, n, r) /\ s.npc[n] = NoNpc /\ Newborn(r, NoPos)
      BY <3>1, Opens
    <3>5. p \in MapPos
      BY <2>2 DEF MapPos
    <3> HIDE DEF r, d, p, n
    <3>6. Taken(e, s, n, v)
      BY <2>2, <3>1, <3>4, Births1
    <3>7. Newborn(v, p)
      BY <3>4, <3>5, Placing
    <3>8. v.Pos = p
      BY <3>7 DEF Newborn
    <3> HIDE DEF v, e
    <3>9. WorldOK(MakeNPCChar(e, n, p)) /\ SameUsers(MakeNPCChar(e, n, p), s)
      BY <2>2, <3>1, <3>4, <3>6, <3>7, <3>8, Makes
    <3> QED BY <2>3, <2>5, <3>9
  <2> QED BY <2>4, <2>5
<1> QED BY <1>1, <1>2

\* ReSpawnNpc of an NPC that was in use.
LEMMA ReSpawns ==
  ASSUME NEW s, WorldOK(s), NEW copy, Living(copy), NEW t \in ReSpawnNpc(s, copy)
  PROVE  WorldOK(t) /\ SameUsers(t, s)
<1>1. copy.Numero \in Kinds \cup {0} /\ copy.Orig \in Origins /\ copy.Pos.map \in Maps
  BY DEF Living, NpcType, Tile
<1>2. SameUsers(s, s)
  BY DEF SameUsers
<1> QED BY <1>1, <1>2, Crears DEF ReSpawnNpc

-------------------------------------------------------------------------------
(* Steps of NPCs *)

\* A user that a tile names is in the game, on a tile.
LEMMA OnTile ==
  ASSUME NEW s, WorldOK(s), NEW c \in Cells, s.tileUser[c] # 0
  PROVE  /\ s.tileUser[c] \in User /\ s.user[s.tileUser[c]].in
         /\ s.user[s.tileUser[c]].Pos \in Tile
<1>1. s.tileUser[c] \in User /\ s.user[s.tileUser[c]].in
  BY DEF WorldOK, UsersOK
<1> QED BY <1>1 DEF WorldOK, UsersOK

\* Displace, field by field: the rest of the world does not see it.
Displaced(t, s, u, p) ==
  LET q == At(s.user[u].Pos.map, p.x, p.y)
  IN  /\ IsWorld(t) /\ t.npc = s.npc /\ t.tileNpc = s.tileNpc
      /\ t.CharList = s.CharList /\ t.LastNPC = s.LastNPC
      /\ t.group = s.group /\ t.NumUsers = s.NumUsers /\ t.pushed = TRUE
      /\ t.user = [s.user EXCEPT ![u] = [s.user[u] EXCEPT !.Pos = q]]
      /\ t.tileUser = [[s.tileUser EXCEPT ![WorldCell(s.user[u].Pos)] = 0] EXCEPT
                          ![WorldCell(q)] = u]

LEMMA DisplaceFields ==
  ASSUME NEW s, IsWorld(s), NEW u \in User, s.user \in [User -> UserType], NEW p \in Tile,
         s.user[u].Pos \in Tile
  PROVE  Displaced(Displace(s, u, p), s, u, p)
<1> DEFINE q == At(s.user[u].Pos.map, p.x, p.y)
           r == [s.user[u] EXCEPT !.Pos = q]
           off == [s EXCEPT !.tileUser = [s.tileUser EXCEPT ![WorldCell(s.user[u].Pos)] = 0],
                            !.user[u].Pos = q, !.pushed = TRUE]
           t == Displace(s, u, p)
<1>1. t = [off EXCEPT !.tileUser[WorldCell(off.user[u].Pos)] = u]
  BY DEF Displace, InMapBounds
<1>2. /\ IsWorld(off) /\ off.npc = s.npc /\ off.tileNpc = s.tileNpc
      /\ off.CharList = s.CharList /\ off.LastNPC = s.LastNPC
      /\ off.group = s.group /\ off.NumUsers = s.NumUsers /\ off.pushed = TRUE
      /\ off.user = [s.user EXCEPT ![u] = r]
      /\ off.tileUser = [s.tileUser EXCEPT ![WorldCell(s.user[u].Pos)] = 0]
  BY DEF IsWorld
<1> HIDE DEF off, t
<1>3. off.user[u].Pos = q
  <2>1. s.user[u] \in UserType
    OBVIOUS
  <2> HIDE DEF q
  <2> QED BY <1>2, <2>1 DEF UserType
<1> HIDE DEF q, r
<1>4. /\ IsWorld(t) /\ t.npc = off.npc /\ t.tileNpc = off.tileNpc
      /\ t.CharList = off.CharList /\ t.LastNPC = off.LastNPC
      /\ t.group = off.group /\ t.NumUsers = off.NumUsers /\ t.pushed = off.pushed
      /\ t.user = off.user
      /\ t.tileUser = [off.tileUser EXCEPT ![WorldCell(q)] = u]
  BY <1>1, <1>2, <1>3 DEF IsWorld
<1> QED BY <1>2, <1>4 DEF t, q, r, Displaced

\* Changes of a user that leave its character's index as it was.
LEMMA CharsSame ==
  ASSUME NEW list, NEW users, NEW npcs, CharsOK(list, users, npcs), NEW vsers, NEW mpcs,
         \A u \in User : vsers[u].CharIndex = users[u].CharIndex,
         \A n \in Npc : mpcs[n].CharIndex = npcs[n].CharIndex
  PROVE  CharsOK(list, vsers, mpcs)
BY DEF CharsOK

\* A user is pushed: what is so of worlds is so of the one after.
LEMMA Displaces ==
  ASSUME NEW s, WorldOK(s), NEW u \in User, s.user[u].in, NEW p \in Tile
  PROVE  LET t == Displace(s, u, p)
         IN  /\ WorldOK(t) /\ t.npc = s.npc /\ t.tileNpc = s.tileNpc
             /\ t.LastNPC = s.LastNPC
             /\ \A v \in User : t.user[v].in = s.user[v].in
<1> DEFINE t == Displace(s, u, p)
           q == At(s.user[u].Pos.map, p.x, p.y)
           r == [s.user[u] EXCEPT !.Pos = q]
<1>1. /\ IsWorld(s) /\ s.user \in [User -> UserType] /\ s.user[u] \in UserType
      /\ s.user[u].Pos \in Tile /\ s.tileUser \in [Cells -> User \cup {0}]
      /\ CharsOK(s.CharList, s.user, s.npc)
  BY DEF WorldOK, UsersOK
<1>2. q \in Tile
  BY <1>1 DEF Tile, At
<1>3. /\ IsWorld(t) /\ t.npc = s.npc /\ t.tileNpc = s.tileNpc
      /\ t.CharList = s.CharList /\ t.LastNPC = s.LastNPC
      /\ t.group = s.group /\ t.NumUsers = s.NumUsers /\ t.pushed = TRUE
      /\ t.user = [s.user EXCEPT ![u] = r]
      /\ t.tileUser = [[s.tileUser EXCEPT ![WorldCell(s.user[u].Pos)] = 0] EXCEPT
                          ![WorldCell(q)] = u]
  <2>1. Displaced(Displace(s, u, p), s, u, p)
    BY <1>1, DisplaceFields
  <2> QED BY <2>1 DEF Displaced
<1> HIDE DEF t, q
<1>4. r \in UserType /\ r.Pos = q /\ r.in = s.user[u].in /\ r.CharIndex = s.user[u].CharIndex
  BY <1>1, <1>2 DEF UserType, MapPos
<1> HIDE DEF r
<1>5. /\ t.user \in [User -> UserType] /\ t.user[u] = r
      /\ \A v \in User \ {u} : t.user[v] = s.user[v]
  BY <1>1, <1>3, <1>4
<1>6. /\ \A v \in User : t.user[v].in = s.user[v].in
      /\ \A v \in User : t.user[v].CharIndex = s.user[v].CharIndex
  BY <1>4, <1>5
<1>7. UsersOK(t.user, t.tileUser, t.group, t.NumUsers)
  <2>1. t.tileUser \in [Cells -> User \cup {0}]
    BY <1>1, <1>3
  <2>2. ASSUME NEW c \in Cells, t.tileUser[c] # 0 PROVE t.user[t.tileUser[c]].in
    <3>1. t.tileUser[c] = u \/ t.tileUser[c] = s.tileUser[c]
      BY <1>1, <1>3, <2>2
    <3>2. CASE t.tileUser[c] = u
      BY <1>6, <3>2
    <3>3. CASE t.tileUser[c] = s.tileUser[c]
      BY <1>6, <2>2, <3>3, OnTile
    <3> QED BY <3>1, <3>2, <3>3
  <2>3. \A v \in User : t.user[v].Pos \in IF t.user[v].in THEN Tile ELSE {NoPos}
    BY <1>2, <1>4, <1>5 DEF WorldOK, UsersOK
  <2> QED BY <1>3, <1>5, <2>1, <2>2, <2>3 DEF UsersOK, WorldOK
<1>8. CharsOK(t.CharList, t.user, t.npc)
  BY <1>1, <1>3, <1>6, CharsSame
<1>9. WorldOK(t)
  BY <1>3, <1>7, <1>8 DEF WorldOK
<1> QED BY <1>3, <1>6, <1>9 DEF t

\* The table when n went from the tile p to the tile of r.
LEMMA TableMoves ==
  ASSUME NEW npcs, NEW tiles, NEW last, TableOK(npcs, tiles, last), NEW n \in Npc,
         npcs[n].NPCActive, NEW r, Living(r)
  PROVE  TableOK([npcs EXCEPT ![n] = r],
                 [[tiles EXCEPT ![WorldCell(npcs[n].Pos)] = 0] EXCEPT ![WorldCell(r.Pos)] = n],
                 last)
<1> DEFINE f == [npcs EXCEPT ![n] = r]
           v == WorldCell(npcs[n].Pos)
           w == WorldCell(r.Pos)
           g == [[tiles EXCEPT ![v] = 0] EXCEPT ![w] = n]
<1>0. /\ npcs \in [Npc -> NpcType] /\ tiles \in [Cells -> 0..MAXNPCS] /\ last \in 0..MAXNPCS
      /\ MAXNPCS \in Nat /\ Npc = 1..MAXNPCS
      /\ r \in NpcType /\ r.NPCActive /\ r.Pos \in Tile /\ w \in Cells
  BY AreasAssumption, CellsOf DEF TableOK, TilesAre, LastIs, Npc, Living
<1>1. v \in Cells
  BY OfTable, CellsOf DEF Living
<1>2. f \in [Npc -> NpcType] /\ f[n] = r /\ \A m \in Npc \ {n} : f[m] = npcs[m]
  BY <1>0
<1> HIDE DEF f
<1>3. \A m \in Npc : f[m] = NoNpc \/ Living(f[m])
  BY <1>2 DEF TableOK
<1>4. LastIs(f, last)
  <2>1. \A m \in Npc : f[m].NPCActive = npcs[m].NPCActive \/ m = n
    BY <1>2
  <2>2. last # 0 => last \in Npc
    BY <1>0
  <2> QED BY <1>0, <1>2, <2>1, <2>2 DEF TableOK, LastIs
<1>5. TilesAre(f, g)
  <2>1. /\ g \in [Cells -> 0..MAXNPCS] /\ g[w] = n /\ n # 0
        /\ \A c \in Cells : c # w => g[c] = IF c = v THEN 0 ELSE tiles[c]
    BY <1>0, <1>1
  <2> HIDE DEF g, w, v
  <2>2. ASSUME NEW c \in Cells, g[c] # 0
        PROVE  f[g[c]].NPCActive /\ c = WorldCell(f[g[c]].Pos)
    <3>1. CASE c = w
      BY <1>0, <1>2, <2>1, <3>1 DEF w
    <3>2. CASE c # w
      <4>1. c # v /\ g[c] = tiles[c] /\ g[c] \in Npc
            /\ npcs[g[c]].NPCActive /\ c = WorldCell(npcs[g[c]].Pos)
        BY <1>0, <2>1, <2>2, <3>2 DEF TableOK, TilesAre
      <4>2. g[c] # n
        BY <4>1 DEF v
      <4> QED BY <1>2, <4>1, <4>2
    <3> QED BY <3>1, <3>2
  <2> QED BY <2>1, <2>2 DEF TilesAre
<1> HIDE DEF g, w, v
<1>6. TableOK(f, g, last)
  BY <1>0, <1>2, <1>3, <1>4, <1>5 DEF TableOK
<1> QED BY <1>6 DEF f, g, v, w

\* An NPC takes a step, and may push a user.
LEMMA Moves ==
  ASSUME NEW s, WorldOK(s), NEW n \in Npc, s.npc[n].NPCActive, NEW h \in Headings
  PROVE  WorldOK(MoveNPCChar(s, n, h))
<1> DEFINE from == s.npc[n].Pos
           to == Step(from, h)
           u == s.tileUser[WorldCell(to)]
           a == IF u = 0 THEN s ELSE Displace(s, u, from)
           q == [s.npc[n] EXCEPT !.Pos = to]
           e == [q EXCEPT !.Area = CheckUpdateNeeded(q.Area, to, h)]
           moved == [a EXCEPT !.tileNpc = [[@ EXCEPT ![WorldCell(from)] = 0] EXCEPT ![WorldCell(to)] = n],
                              !.npc[n].Pos = to]
           t == [moved EXCEPT !.npc[n].Area = CheckUpdateNeeded(@, to, h)]
<1>1. MoveNPCChar(s, n, h) = IF ~LegalPosNPC(s, to) THEN s ELSE t
  BY DEF MoveNPCChar
<1>2. CASE ~LegalPosNPC(s, to)
  BY <1>1, <1>2
<1>3. CASE LegalPosNPC(s, to)
  <2>1. to \in Tile
    BY <1>3 DEF LegalPosNPC, InMapBounds
  <2>2. Living(s.npc[n])
    BY OfTable DEF WorldOK
  <2>3. from \in Tile /\ s.npc[n] \in NpcType /\ s.npc[n].Area = AreaOf(from)
        /\ (s.npc[n].MaestroUser # 0 => from.map \in Pk)
    BY <2>2 DEF Living
  <2>4. to.map = from.map
    BY <2>1, <2>3, StepIs
  <2>5. CheckUpdateNeeded(s.npc[n].Area, to, h) = AreaOf(to) /\ AreaOf(to) \in AreaType
    BY <2>1, <2>3, Stepped, AreaOfType
  <2>6. WorldOK(a) /\ a.npc = s.npc /\ a.tileNpc = s.tileNpc /\ a.LastNPC = s.LastNPC
    <3>1. CASE u = 0
      BY <3>1
    <3>2. CASE u # 0
      <4>1. u \in User /\ s.user[u].in
        BY <2>1, <3>2, CellsOf, OnTile
      <4> HIDE DEF u, from
      <4> QED BY <2>3, <3>2, <4>1, Displaces
    <3> QED BY <3>1, <3>2
  <2> HIDE DEF a, from, to
  <2>7. IsWorld(a) /\ s.npc \in [Npc -> NpcType]
    BY <2>6 DEF WorldOK, TableOK
  <2>8. /\ q \in NpcType /\ q.Pos = to /\ q.Area = s.npc[n].Area /\ q.NPCActive = s.npc[n].NPCActive
        /\ q.MaestroUser = s.npc[n].MaestroUser /\ q.CharIndex = s.npc[n].CharIndex
    BY <2>1, <2>3 DEF NpcType, MapPos
  <2>9. /\ IsWorld(moved) /\ SameUsers(moved, a) /\ moved.CharList = a.CharList
        /\ moved.LastNPC = s.LastNPC /\ moved.npc = [s.npc EXCEPT ![n] = q]
        /\ moved.tileNpc = [[s.tileNpc EXCEPT ![WorldCell(from)] = 0] EXCEPT ![WorldCell(to)] = n]
    BY <2>6, <2>7 DEF IsWorld, SameUsers
  <2>10. moved.npc[n] = q
    BY <2>7, <2>9
  <2>11. t = [moved EXCEPT !.npc = [moved.npc EXCEPT ![n] =
                 [moved.npc[n] EXCEPT !.Area = CheckUpdateNeeded(moved.npc[n].Area, to, h)]]]
    OBVIOUS
  <2> HIDE DEF moved, t, q
  <2>12. /\ IsWorld(t) /\ SameUsers(t, a) /\ t.CharList = a.CharList
         /\ t.LastNPC = s.LastNPC /\ t.npc = [s.npc EXCEPT ![n] = e]
         /\ t.tileNpc = [[s.tileNpc EXCEPT ![WorldCell(from)] = 0] EXCEPT ![WorldCell(to)] = n]
    BY <2>7, <2>9, <2>10, <2>11 DEF IsWorld, SameUsers
  <2>13. /\ e \in NpcType /\ e.Pos = to /\ e.Area = AreaOf(to) /\ e.NPCActive = s.npc[n].NPCActive
         /\ e.MaestroUser = s.npc[n].MaestroUser /\ e.CharIndex = s.npc[n].CharIndex
    BY <2>5, <2>8 DEF NpcType
  <2> HIDE DEF e
  <2>14. Living(e)
    BY <2>1, <2>3, <2>4, <2>13 DEF Living
  <2>15. TableOK(t.npc, t.tileNpc, t.LastNPC)
    BY <2>12, <2>13, <2>14, TableMoves DEF WorldOK, from
  <2>16. CharsOK(t.CharList, t.user, t.npc)
    <3>1. \A m \in Npc : t.npc[m].CharIndex = a.npc[m].CharIndex
      BY <2>6, <2>7, <2>12, <2>13
    <3>2. CharsOK(a.CharList, a.user, a.npc) /\ t.CharList = a.CharList /\ t.user = a.user
      BY <2>6, <2>12 DEF WorldOK, SameUsers
    <3> QED BY <3>1, <3>2, CharsSame
  <2>17. WorldOK(t)
    BY <2>6, <2>12, <2>15, <2>16 DEF WorldOK, SameUsers
  <2> QED BY <1>1, <1>3, <2>17
<1> QED BY <1>2, <1>3

-------------------------------------------------------------------------------
(* Pets *)

\* A user whose pets alone changed.
Petted(r, o) ==
  /\ r \in UserType
  /\ r.in = o.in /\ r.Pos = o.Pos /\ r.CharIndex = o.CharIndex /\ r.Area = o.Area

\* An NPC in use that changed its master.
Mastered(r, o) ==
  o.NPCActive /\ Living(r) /\ r.Pos = o.Pos /\ r.CharIndex = o.CharIndex

\* What is so of worlds stays so when pets and masters change.
LEMMA Edits ==
  ASSUME NEW s, WorldOK(s), NEW t, IsWorld(t), t.tileUser = s.tileUser, t.group = s.group,
         t.NumUsers = s.NumUsers, t.pushed = s.pushed, t.CharList = s.CharList,
         t.tileNpc = s.tileNpc, t.LastNPC = s.LastNPC,
         t.user \in [User -> UserType], \A u \in User : Petted(t.user[u], s.user[u]),
         t.npc \in [Npc -> NpcType],
         \A n \in Npc : t.npc[n] = s.npc[n] \/ Mastered(t.npc[n], s.npc[n])
  PROVE  WorldOK(t)
<1>1. \A u \in User : /\ t.user[u].in = s.user[u].in /\ t.user[u].Pos = s.user[u].Pos
                      /\ t.user[u].CharIndex = s.user[u].CharIndex
                      /\ t.user[u].Area = s.user[u].Area
  BY DEF Petted
<1>2. /\ \A n \in Npc : t.npc[n] = NoNpc \/ Living(t.npc[n])
      /\ \A n \in Npc : t.npc[n].CharIndex = s.npc[n].CharIndex /\ t.npc[n].Pos = s.npc[n].Pos
  BY DEF Mastered, WorldOK, TableOK
<1>3. \A n \in Npc : t.npc[n].NPCActive <=> s.npc[n].NPCActive
  BY DEF Mastered, Living
<1>4. TableOK(t.npc, t.tileNpc, t.LastNPC)
  <2>0. s.LastNPC \in 0..MAXNPCS /\ s.tileNpc \in [Cells -> 0..MAXNPCS] /\ Npc = 1..MAXNPCS
        /\ MAXNPCS \in Nat
    BY AreasAssumption DEF WorldOK, TableOK, LastIs, TilesAre, Npc
  <2>1. LastIs(t.npc, s.LastNPC)
    <3>1. s.LastNPC # 0 => s.LastNPC \in Npc
      BY <2>0
    <3> QED BY <1>3, <3>1 DEF WorldOK, TableOK, LastIs
  <2>2. TilesAre(t.npc, s.tileNpc)
    <3>1. \A c \in Cells : s.tileNpc[c] # 0 => s.tileNpc[c] \in Npc
      BY <2>0
    <3> QED BY <1>2, <1>3, <3>1 DEF WorldOK, TableOK, TilesAre
  <2> QED BY <1>2, <2>1, <2>2 DEF TableOK
<1>5. CharsOK(t.CharList, t.user, t.npc)
  <2>1. CharsOK(s.CharList, s.user, s.npc)
    BY DEF WorldOK
  <2> QED BY <1>1, <1>2, <2>1, CharsSame
<1>6. UsersOK(t.user, t.tileUser, t.group, t.NumUsers)
  <2>1. \A c \in Cells : s.tileUser[c] # 0 => s.tileUser[c] \in User
    BY DEF WorldOK, UsersOK
  <2> QED BY <1>1, <2>1 DEF WorldOK, UsersOK
<1>7. UsersSound(s.user, s.tileUser, s.group, s.NumUsers)
        => UsersSound(t.user, t.tileUser, t.group, t.NumUsers)
  <2>1. \A c \in Cells : s.tileUser[c] # 0 => s.tileUser[c] \in User
    BY DEF WorldOK, UsersOK
  <2>2. \A m \in Maps : {u \in User : t.user[u].in /\ t.user[u].Pos.map = m}
                         = {u \in User : s.user[u].in /\ s.user[u].Pos.map = m}
    BY <1>1
  <2> SUFFICES ASSUME UsersSound(s.user, s.tileUser, s.group, s.NumUsers)
               PROVE  UsersSound(t.user, t.tileUser, t.group, t.NumUsers)
    OBVIOUS
  <2>3. ASSUME NEW m \in Maps
        PROVE  \A u \in User : t.group[m][u] = IF t.user[u].in /\ t.user[u].Pos.map = m THEN 1 ELSE 0
    <3>1. \A u \in User : s.group[m][u] = IF s.user[u].in /\ s.user[u].Pos.map = m THEN 1 ELSE 0
      BY DEF UsersSound
    <3> QED BY <1>1, <3>1
  <2>4. ASSUME NEW m \in Maps
        PROVE  t.NumUsers[m] = Cardinality({u \in User : t.user[u].in /\ t.user[u].Pos.map = m})
    <3>1. s.NumUsers[m] = Cardinality({u \in User : s.user[u].in /\ s.user[u].Pos.map = m})
      BY DEF UsersSound
    <3> QED BY <2>2, <3>1
  <2>5. \A c \in Cells : t.tileUser[c] # 0 => c = UserCell(t.user[t.tileUser[c]].Pos)
    BY <1>1, <2>1 DEF UsersSound
  <2>6. \A u \in User : t.user[u].in => t.user[u].Area = AreaOf(t.user[u].Pos)
    BY <1>1 DEF UsersSound
  <2> QED BY <2>3, <2>4, <2>5, <2>6 DEF UsersSound
<1> QED BY <1>4, <1>5, <1>6, <1>7 DEF WorldOK

\* What a handler of pets does with worlds: users stay where they are.
Keeps(t, s) ==
  /\ WorldOK(t)
  /\ \A v \in User : t.user[v].in = s.user[v].in /\ t.user[v].Pos = s.user[v].Pos

LEMMA SameKeeps ==
  ASSUME NEW t, NEW s, WorldOK(t), SameUsers(t, s)
  PROVE  Keeps(t, s)
BY DEF Keeps, SameUsers

LEMMA KeepsKeeps ==
  ASSUME NEW t, NEW s, NEW r, Keeps(s, r), Keeps(t, s)
  PROVE  Keeps(t, r)
BY DEF Keeps

\* The records of pets a user may have.
LEMMA PetEdits ==
  ASSUME NEW o \in UserType
  PROVE  /\ \A k \in Int : Petted([o EXCEPT !.NroMascotas = k], o)
         /\ \A i \in 0..MAXMASCOTAS, n \in 0..MAXNPCS :
              Petted([o EXCEPT !.MascotasIndex = [o.MascotasIndex EXCEPT ![i] = n]], o)
         /\ \A i \in 0..MAXMASCOTAS, kind \in Kinds \cup {0} :
              Petted([o EXCEPT !.MascotasType = [o.MascotasType EXCEPT ![i] = kind]], o)
<1>1. \A k \in Int : Petted([o EXCEPT !.NroMascotas = k], o)
  BY DEF Petted, UserType
<1>2. o.MascotasIndex \in [0..MAXMASCOTAS -> 0..MAXNPCS]
      /\ o.MascotasType \in [0..MAXMASCOTAS -> Kinds \cup {0}]
  BY DEF UserType
<1>3. ASSUME NEW f \in [0..MAXMASCOTAS -> 0..MAXNPCS]
      PROVE  Petted([o EXCEPT !.MascotasIndex = f], o)
  BY DEF Petted, UserType
<1>4. ASSUME NEW f \in [0..MAXMASCOTAS -> Kinds \cup {0}]
      PROVE  Petted([o EXCEPT !.MascotasType = f], o)
  BY DEF Petted, UserType
<1>5. ASSUME NEW i \in 0..MAXMASCOTAS
      PROVE  /\ \A n \in 0..MAXNPCS :
                  [o.MascotasIndex EXCEPT ![i] = n] \in [0..MAXMASCOTAS -> 0..MAXNPCS]
             /\ \A kind \in Kinds \cup {0} :
                  [o.MascotasType EXCEPT ![i] = kind] \in [0..MAXMASCOTAS -> Kinds \cup {0}]
  BY <1>2
<1> QED BY <1>1, <1>3, <1>4, <1>5

LEMMA PettedTwice ==
  ASSUME NEW r, NEW q, NEW o, Petted(q, o), Petted(r, q)
  PROVE  Petted(r, o)
BY DEF Petted

\* A user's pets are written.
LEMMA EditsUser ==
  ASSUME NEW s, WorldOK(s), NEW u \in User, NEW r, Petted(r, s.user[u])
  PROVE  LET t == [s EXCEPT !.user = [s.user EXCEPT ![u] = r]]
         IN  Keeps(t, s) /\ t.npc = s.npc /\ t.user[u] = r
<1> DEFINE f == [s.user EXCEPT ![u] = r]
           t == [s EXCEPT !.user = f]
<1>1. /\ IsWorld(s) /\ s.user \in [User -> UserType] /\ s.npc \in [Npc -> NpcType]
  BY DEF WorldOK, UsersOK, TableOK
<1>2. f \in [User -> UserType] /\ f[u] = r /\ \A v \in User \ {u} : f[v] = s.user[v]
  BY <1>1 DEF Petted
<1>3. \A v \in User : Petted(f[v], s.user[v])
  BY <1>1, <1>2 DEF Petted
<1> HIDE DEF f
<1>4. /\ IsWorld(t) /\ t.user = f /\ t.npc = s.npc
      /\ t.tileUser = s.tileUser /\ t.group = s.group
      /\ t.NumUsers = s.NumUsers /\ t.pushed = s.pushed /\ t.CharList = s.CharList
      /\ t.tileNpc = s.tileNpc /\ t.LastNPC = s.LastNPC
  BY <1>1 DEF IsWorld
<1> HIDE DEF t
<1>5. WorldOK(t)
  BY <1>1, <1>2, <1>3, <1>4, Edits
<1>6. Keeps(t, s)
  BY <1>3, <1>4, <1>5 DEF Keeps, Petted
<1> QED BY <1>2, <1>4, <1>6 DEF t, f

\* An NPC gets a master.
LEMMA EditsNpc ==
  ASSUME NEW s, WorldOK(s), NEW n \in Npc, NEW r, Mastered(r, s.npc[n])
  PROVE  LET t == [s EXCEPT !.npc = [s.npc EXCEPT ![n] = r]]
         IN  Keeps(t, s) /\ t.user = s.user /\ t.npc[n] = r
<1> DEFINE f == [s.npc EXCEPT ![n] = r]
           t == [s EXCEPT !.npc = f]
<1>1. /\ IsWorld(s) /\ s.user \in [User -> UserType] /\ s.npc \in [Npc -> NpcType]
  BY DEF WorldOK, UsersOK, TableOK
<1>2. f \in [Npc -> NpcType] /\ f[n] = r /\ \A m \in Npc \ {n} : f[m] = s.npc[m]
  BY <1>1 DEF Mastered, Living
<1>3. \A m \in Npc : f[m] = s.npc[m] \/ Mastered(f[m], s.npc[m])
  BY <1>2
<1> HIDE DEF f
<1>4. /\ IsWorld(t) /\ t.user = s.user /\ t.npc = f
      /\ t.tileUser = s.tileUser /\ t.group = s.group
      /\ t.NumUsers = s.NumUsers /\ t.pushed = s.pushed /\ t.CharList = s.CharList
      /\ t.tileNpc = s.tileNpc /\ t.LastNPC = s.LastNPC
  BY <1>1 DEF IsWorld
<1> HIDE DEF t
<1>5. \A v \in User : Petted(t.user[v], s.user[v])
  BY <1>1, <1>4 DEF Petted
<1>6. WorldOK(t)
  BY <1>1, <1>2, <1>3, <1>4, <1>5, Edits
<1>7. Keeps(t, s)
  BY <1>4, <1>6 DEF Keeps
<1> QED BY <1>2, <1>4, <1>7 DEF t, f

\* Masters an NPC may get where it is.
LEMMA Masters ==
  ASSUME NEW o, Living(o), NEW u \in User, o.Pos.map \in Pk, NEW b \in BOOLEAN
  PROVE  LET q == [o EXCEPT !.MaestroUser = u]
         IN  Mastered(q, o) /\ Mastered([q EXCEPT !.Invocado = b], o)
<1> DEFINE q == [o EXCEPT !.MaestroUser = u]
<1>1. o \in NpcType
  BY DEF Living
<1>2. Mastered(q, o) /\ q \in NpcType
  BY <1>1 DEF Mastered, Living, NpcType
<1> HIDE DEF q
<1>3. Mastered([q EXCEPT !.Invocado = b], o)
  BY <1>2 DEF Mastered, Living, NpcType
<1> QED BY <1>2, <1>3 DEF q

\* The writes of the handlers of pets, one by one.
LEMMA WritesIndex ==
  ASSUME NEW s, WorldOK(s), NEW u \in User, NEW i \in 0..MAXMASCOTAS, NEW n \in 0..MAXNPCS
  PROVE  LET t == [s EXCEPT !.user[u].MascotasIndex[i] = n]
         IN  Keeps(t, s) /\ t.npc = s.npc
<1> DEFINE o == s.user[u]
           r == [o EXCEPT !.MascotasIndex = [o.MascotasIndex EXCEPT ![i] = n]]
           t == [s EXCEPT !.user[u].MascotasIndex[i] = n]
<1>1. o \in UserType
  BY DEF WorldOK, UsersOK
<1>2. Petted(r, o)
  <2> HIDE DEF o
  <2> QED BY <1>1, PetEdits
<1>3. t = [s EXCEPT !.user = [s.user EXCEPT ![u] = r]]
  OBVIOUS
<1> HIDE DEF r, t
<1>4. Keeps(t, s) /\ t.npc = s.npc
  <2>1. LET w == [s EXCEPT !.user = [s.user EXCEPT ![u] = r]] IN Keeps(w, s) /\ w.npc = s.npc
    BY <1>2, EditsUser
  <2> QED BY <1>3, <2>1
<1> QED BY <1>4 DEF t

LEMMA WritesType ==
  ASSUME NEW s, WorldOK(s), NEW u \in User, NEW i \in 0..MAXMASCOTAS, NEW kind \in Kinds \cup {0}
  PROVE  LET t == [s EXCEPT !.user[u].MascotasType[i] = kind]
         IN  Keeps(t, s) /\ t.npc = s.npc
<1> DEFINE o == s.user[u]
           r == [o EXCEPT !.MascotasType = [o.MascotasType EXCEPT ![i] = kind]]
           t == [s EXCEPT !.user[u].MascotasType[i] = kind]
<1>1. o \in UserType
  BY DEF WorldOK, UsersOK
<1>2. Petted(r, o)
  <2> HIDE DEF o
  <2> QED BY <1>1, PetEdits
<1>3. t = [s EXCEPT !.user = [s.user EXCEPT ![u] = r]]
  OBVIOUS
<1> HIDE DEF r, t
<1>4. Keeps(t, s) /\ t.npc = s.npc
  <2>1. LET w == [s EXCEPT !.user = [s.user EXCEPT ![u] = r]] IN Keeps(w, s) /\ w.npc = s.npc
    BY <1>2, EditsUser
  <2> QED BY <1>3, <2>1
<1> QED BY <1>4 DEF t

LEMMA WritesCount ==
  ASSUME NEW s, WorldOK(s), NEW u \in User, NEW k \in Int
  PROVE  LET t == [s EXCEPT !.user[u].NroMascotas = k]
         IN  Keeps(t, s) /\ t.npc = s.npc
<1> DEFINE o == s.user[u]
           r == [o EXCEPT !.NroMascotas = k]
           t == [s EXCEPT !.user[u].NroMascotas = k]
<1>1. o \in UserType
  BY DEF WorldOK, UsersOK
<1>2. Petted(r, o)
  <2> HIDE DEF o
  <2> QED BY <1>1, PetEdits
<1>3. t = [s EXCEPT !.user = [s.user EXCEPT ![u] = r]]
  OBVIOUS
<1> HIDE DEF r, t
<1>4. Keeps(t, s) /\ t.npc = s.npc
  <2>1. LET w == [s EXCEPT !.user = [s.user EXCEPT ![u] = r]] IN Keeps(w, s) /\ w.npc = s.npc
    BY <1>2, EditsUser
  <2> QED BY <1>3, <2>1
<1> QED BY <1>4 DEF t

LEMMA WritesMaster ==
  ASSUME NEW s, WorldOK(s), NEW u \in User, NEW n \in Npc, s.npc[n].NPCActive,
         s.npc[n].Pos.map \in Pk, NEW b \in BOOLEAN
  PROVE  LET t == [s EXCEPT !.npc[n].MaestroUser = u]
             v == [t EXCEPT !.npc[n].Invocado = b]
         IN  /\ Keeps(t, s) /\ t.user = s.user
             /\ Keeps(v, s) /\ v.user = s.user
<1> DEFINE o == s.npc[n]
           q == [o EXCEPT !.MaestroUser = u]
           r == [q EXCEPT !.Invocado = b]
           t == [s EXCEPT !.npc[n].MaestroUser = u]
           v == [t EXCEPT !.npc[n].Invocado = b]
<1>1. Living(o) /\ s.npc \in [Npc -> NpcType] /\ IsWorld(s)
  BY OfTable DEF WorldOK, TableOK
<1>2. Mastered(q, o) /\ Mastered(r, o)
  <2> HIDE DEF o
  <2> QED BY <1>1, Masters DEF o
<1>3. t = [s EXCEPT !.npc = [s.npc EXCEPT ![n] = q]]
  OBVIOUS
<1> HIDE DEF q
<1>4. v = [s EXCEPT !.npc = [s.npc EXCEPT ![n] = r]]
  <2> HIDE DEF t
  <2>1. IsWorld(t) /\ t.npc = [s.npc EXCEPT ![n] = q] /\ t.npc[n] = q
    BY <1>1, <1>3 DEF IsWorld
  <2>2. v = [t EXCEPT !.npc = [t.npc EXCEPT ![n] = [t.npc[n] EXCEPT !.Invocado = b]]]
    OBVIOUS
  <2>3. v = [t EXCEPT !.npc = [s.npc EXCEPT ![n] = r]]
    <3>1. [t.npc EXCEPT ![n] = r] = [s.npc EXCEPT ![n] = r]
      <4> HIDE DEF r
      <4> QED BY <1>1, <2>1
    <3> QED BY <2>1, <2>2, <3>1
  <2> QED BY <1>1, <1>3, <2>3 DEF IsWorld
<1> HIDE DEF r, t, v
<1>5. Keeps(t, s) /\ t.user = s.user
  BY <1>2, <1>3, EditsNpc
<1>6. Keeps(v, s) /\ v.user = s.user
  BY <1>2, <1>4, EditsNpc
<1> QED BY <1>5, <1>6 DEF t, v

\* A pet that was born at a tile of a map for pets gets its master.
LEMMA Born ==
  ASSUME NEW s, WorldOK(s), NEW t, WorldOK(t), NEW n \in Npc, NEW m \in Pk, Birthed(t, s, n, m)
  PROVE  t.npc[n].NPCActive /\ t.npc[n].Pos.map = m
BY DEF Birthed, BornAt, Living

\* The pet at a place is taken along.
LEMMA WarpsPlace ==
  ASSUME NEW s, WorldOK(s), NEW u \in User, s.user[u].in, NEW i \in Pets
  PROVE  Keeps(WarpPlace(s, u, i), s)
<1> DEFINE n == s.user[u].MascotasIndex[i]
           here == s.user[u].Pos
           summoned == n > 0 /\ s.npc[n].Invocado
           kind == IF summoned THEN 0 ELSE s.user[u].MascotasType[i]
           q == QuitarNPC(s, n)
           q1 == [q EXCEPT !.user[u].MascotasIndex[i] = 0]
           q2 == [q1 EXCEPT !.user[u].NroMascotas = q1.user[u].NroMascotas - 1]
           lost == [q EXCEPT !.user[u].MascotasIndex[i] = 0, !.user[u].NroMascotas = @ - 1]
           left == IF n = 0 THEN s ELSE IF summoned THEN lost ELSE q
           respawn == (n = 0)
           born == SpawnNpc(left, kind, here, respawn)
           new == born.npc
           b1 == [born.world EXCEPT !.user[u].MascotasIndex[i] = new]
           b2 == [b1 EXCEPT !.npc[new].MaestroUser = u]
           b3 == [b2 EXCEPT !.npc[new].Invocado = FALSE]
           given == [born.world EXCEPT !.user[u].MascotasIndex[i] = new,
                                       !.npc[new].MaestroUser = u, !.npc[new].Invocado = FALSE]
<1>0. /\ s.user[u] \in UserType /\ here \in Tile /\ here.x \in Int /\ here.y \in Int
      /\ i \in 0..MAXMASCOTAS /\ 0 \in 0..MAXNPCS
      /\ \A m \in 0..MAXNPCS : m # 0 => m \in Npc /\ m > 0
  <2>1. s.user[u] \in UserType /\ here \in Tile
    BY DEF WorldOK, UsersOK
  <2> QED BY <2>1, AreasAssumption DEF Pets, Npc, Tile
<1>1. n \in 0..MAXNPCS /\ kind \in Kinds \cup {0}
  BY <1>0 DEF UserType
<1>2. WarpPlace(s, u, i) = IF kind = 0 \/ ~(here.map \in Pk) THEN left
                           ELSE IF new = 0 THEN born.world ELSE given
  BY Zenon DEF WarpPlace
<1> HIDE DEF left, born
<1>2a. given = b3
  OBVIOUS
<1> USE DEF left
<1> HIDE DEF given
<1>3. Keeps(left, s)
  <2>1. CASE n = 0
    BY <2>1 DEF Keeps
  <2>2. CASE n # 0
    <3>1. n \in Npc
      BY <1>0, <1>1, <2>2
    <3> HIDE DEF n
    <3>2. Keeps(q, s)
      BY <3>1, Quits, SameKeeps
    <3> HIDE DEF q
    <3>2a. lost = q2
      OBVIOUS
    <3> HIDE DEF lost
    <3>3. Keeps(q1, q)
      BY <1>0, <3>2, WritesIndex DEF Keeps
    <3> HIDE DEF q1
    <3>4. q1.user[u].NroMascotas - 1 \in Int
      <4>1. q1.user[u] \in UserType
        BY <3>3 DEF Keeps, WorldOK, UsersOK
      <4> QED BY <4>1 DEF UserType
    <3>5. Keeps(q2, q1)
      BY <3>3, <3>4, WritesCount DEF Keeps
    <3>6. Keeps(q2, s)
      <4> HIDE DEF q2
      <4> QED BY <3>2, <3>3, <3>5, KeepsKeeps
    <3> QED BY <2>2, <3>2, <3>6, <3>2a DEF n
  <2> QED BY <2>1, <2>2
<1> HIDE DEF left, kind, respawn
<1>4. /\ WorldOK(left) /\ respawn \in BOOLEAN
      /\ left.user[u].Pos = here
  BY <1>3 DEF Keeps, respawn
<1> HIDE DEF here
<1>5. /\ WorldOK(born.world) /\ SameUsers(born.world, left)
      /\ \/ new = 0
         \/ new \in Npc /\ Birthed(born.world, left, new, here.map)
  BY <1>0, <1>1, <1>4, Spawns DEF born
<1>6. Keeps(born.world, left)
  BY <1>5, SameKeeps
<1> HIDE DEF born, new
<1>7. ASSUME new \in Npc, Birthed(born.world, left, new, here.map), here.map \in Pk
      PROVE  Keeps(b3, born.world)
  <2>1. born.world.npc[new].NPCActive /\ born.world.npc[new].Pos.map = here.map
    BY <1>4, <1>5, <1>7, Born
  <2>2. new \in 0..MAXNPCS
    BY <1>7 DEF Npc
  <2>3. Keeps(b1, born.world) /\ b1.npc = born.world.npc
    BY <1>0, <1>5, <2>2, WritesIndex
  <2> HIDE DEF b1
  <2>4. Keeps(b3, b1)
    <3>1. WorldOK(b1) /\ b1.npc[new].NPCActive /\ b1.npc[new].Pos.map \in Pk /\ FALSE \in BOOLEAN
      BY <1>7, <2>1, <2>3 DEF Keeps
    <3> QED BY <1>7, <3>1, WritesMaster
  <2> HIDE DEF b3
  <2> QED BY <2>3, <2>4, KeepsKeeps
<1> HIDE DEF b3
<1>8. CASE kind = 0 \/ ~(here.map \in Pk)
  BY <1>2, <1>3, <1>8
<1>9. CASE ~(kind = 0 \/ ~(here.map \in Pk)) /\ new = 0
  BY <1>2, <1>3, <1>6, <1>9, KeepsKeeps
<1>10. CASE ~(kind = 0 \/ ~(here.map \in Pk)) /\ new # 0
  <2>1. Keeps(b3, born.world)
    BY <1>5, <1>7, <1>10
  <2>2. Keeps(b3, left)
    BY <1>6, <2>1, KeepsKeeps
  <2> QED BY <1>2, <1>3, <1>10, <1>2a, <2>2, KeepsKeeps
<1> QED BY <1>8, <1>9, <1>10

\* The places are taken along one after the other.
LEMMA WarpsPets ==
  ASSUME NEW s, WorldOK(s), NEW u \in User, s.user[u].in
  PROVE  Keeps(WarpMascotas(s, u), s)
<1> DEFINE F(w, i) == IF i = 0 THEN s ELSE WarpPlace(w, u, i)
           Fits(h, k) == h = [i \in 0..k |-> F(h[i - 1], i)]
<1>0. MAXMASCOTAS \in Nat
  BY AreasAssumption
<1>1. \A k \in Nat : \E h : Fits(h, k)
  <2> DEFINE S == {k \in Nat : \E h : Fits(h, k)}
  <2>1. 0 \in S
    <3> DEFINE h == [i \in 0..0 |-> s]
    <3>1. \A i \in 0..0 : F(h[i - 1], i) = s
      OBVIOUS
    <3> HIDE DEF F
    <3>2. h = [i \in 0..0 |-> F(h[i - 1], i)]
      BY <3>1
    <3> QED BY <3>2
  <2>2. ASSUME NEW k \in S PROVE k + 1 \in S
    <3> HIDE DEF F
    <3>1. PICK h : Fits(h, k)
      OBVIOUS
    <3> DEFINE g == [i \in 0..(k + 1) |-> IF i <= k THEN h[i] ELSE F(h[k], i)]
    <3>2. h = [i \in 0..k |-> F(h[i - 1], i)] /\ k \in Nat
      BY <3>1
    <3>3. ASSUME NEW i \in 0..(k + 1) PROVE g[i] = F(g[i - 1], i)
      <4>1. CASE i = 0
        <5>1. g[i] = h[i] /\ h[i] = F(h[i - 1], i)
          BY <3>2, <4>1
        <5> QED BY <4>1, <5>1 DEF F
      <4>2. CASE i # 0 /\ i <= k
        <5>1. g[i] = h[i] /\ g[i - 1] = h[i - 1]
          BY <3>2, <4>2
        <5>2. i \in 0..k
          BY <3>2, <4>2
        <5>3. h[i] = F(h[i - 1], i)
          BY <3>2, <5>2
        <5> QED BY <5>1, <5>3
      <4>3. CASE i = k + 1
        <5>1. g[i] = F(h[k], i) /\ g[i - 1] = h[k] /\ i - 1 = k
          BY <3>2, <4>3
        <5> QED BY <5>1
      <4> QED BY <3>2, <4>1, <4>2, <4>3
    <3>4. Fits(g, k + 1)
      <4>1. g = [i \in 0..(k + 1) |-> g[i]]
        OBVIOUS
      <4>2. g = [i \in 0..(k + 1) |-> F(g[i - 1], i)]
        <5> HIDE DEF g
        <5> QED BY <3>3, <4>1
      <4> QED BY <4>2
    <3>5. k + 1 \in Nat /\ \E h2 : Fits(h2, k + 1)
      <4> HIDE DEF Fits, g
      <4> QED BY <3>2, <3>4
    <3> QED BY <3>5
  <2> HIDE DEF S
  <2>3. \A k \in Nat : k \in S
    BY <2>1, <2>2, AllNaturals DEF S
  <2> QED BY <2>3 DEF S
<1> DEFINE after == CHOOSE h : Fits(h, MAXMASCOTAS)
<1>2. Fits(after, MAXMASCOTAS)
  BY <1>0, <1>1
<1>3. WarpMascotas(s, u) = after[MAXMASCOTAS]
  BY DEF WarpMascotas
<1> HIDE DEF after
<1>4. \A i \in 0..MAXMASCOTAS : after[i] = F(after[i - 1], i)
  <2> HIDE DEF F
  <2> QED BY <1>2
<1> DEFINE S == {i \in Nat : i <= MAXMASCOTAS => Keeps(after[i], s)}
<1>5. 0 \in S
  <2>1. after[0] = s
    BY <1>0, <1>4
  <2> QED BY <2>1 DEF Keeps
<1>6. ASSUME NEW i \in S PROVE i + 1 \in S
  <2> SUFFICES ASSUME i + 1 <= MAXMASCOTAS PROVE Keeps(after[i + 1], s)
    OBVIOUS
  <2>1. i \in Nat /\ Keeps(after[i], s) /\ i + 1 \in Pets /\ i + 1 \in 0..MAXMASCOTAS
    BY <1>0 DEF Pets
  <2>2. after[i + 1] = WarpPlace(after[i], u, i + 1)
    <3>1. after[i + 1] = F(after[(i + 1) - 1], i + 1)
      BY <1>4, <2>1
    <3>2. (i + 1) - 1 = i /\ i + 1 # 0
      BY <2>1
    <3> QED BY <3>1, <3>2
  <2>3. WorldOK(after[i]) /\ after[i].user[u].in
    BY <2>1 DEF Keeps
  <2>4. Keeps(WarpPlace(after[i], u, i + 1), after[i])
    BY <2>1, <2>3, WarpsPlace
  <2> QED BY <2>1, <2>2, <2>4, KeepsKeeps
<1> HIDE DEF S
<1>7. MAXMASCOTAS \in S
  BY <1>0, <1>5, <1>6, AllNaturals DEF S
<1> QED BY <1>0, <1>3, <1>7 DEF S

\* The places the handlers of pets choose.
LEMMA Places ==
  ASSUME NEW T \in SUBSET Pets
  PROVE  /\ Lowest(T, 0) \in 0..MAXMASCOTAS
         /\ Lowest(T, 0) > 0 => Lowest(T, 0) \in T
<1>1. MAXMASCOTAS \in Nat /\ T \in SUBSET Nat /\ T \in SUBSET (0..MAXMASCOTAS)
  BY AreasAssumption DEF Pets
<1>2. CASE T = {}
  BY <1>1, <1>2, LowestIs
<1>3. CASE T # {}
  <2>1. Lowest(T, 0) \in T
    BY <1>1, <1>3, LowestIs
  <2> QED BY <1>1, <2>1
<1> QED BY <1>2, <1>3

\* A pet is born again at the target.
LEMMA WarpsPet ==
  ASSUME NEW s, WorldOK(s), NEW u \in User, NEW i \in 0..MAXMASCOTAS, NEW target \in Tile,
         target.map \in Pk
  PROVE  WorldOK(WarpMascota(s, u, i, target))
<1> DEFINE n == s.user[u].MascotasIndex[i]
           q == IF n > 0 THEN QuitarNPC(s, n) ELSE s
           counted == [q EXCEPT !.user[u].NroMascotas = q.user[u].NroMascotas + 1]
           kind == s.user[u].MascotasType[i]
           born == SpawnNpc(counted, kind, target, FALSE)
           new == born.npc
           b1 == [born.world EXCEPT !.user[u].MascotasIndex[i] = new]
           b2 == [b1 EXCEPT !.npc[new].MaestroUser = u]
           given == [born.world EXCEPT !.user[u].MascotasIndex[i] = new, !.npc[new].MaestroUser = u]
<1>0. /\ s.user[u] \in UserType /\ target.x \in Int /\ target.y \in Int /\ FALSE \in BOOLEAN
      /\ \A m \in 0..MAXNPCS : m > 0 => m \in Npc
  BY AreasAssumption DEF WorldOK, UsersOK, Npc, Tile
<1>1. n \in 0..MAXNPCS /\ kind \in Kinds \cup {0}
  BY <1>0 DEF UserType
<1>2. WarpMascota(s, u, i, target) = IF new = 0 THEN born.world ELSE given
  BY Zenon DEF WarpMascota
<1>3. WorldOK(q)
  <2> HIDE DEF n
  <2> QED BY <1>0, <1>1, Quits
<1> HIDE DEF q, kind
<1>4. WorldOK(counted)
  <2>1. q.user[u].NroMascotas + 1 \in Int
    <3>1. q.user[u] \in UserType
      BY <1>3 DEF WorldOK, UsersOK
    <3> QED BY <3>1 DEF UserType
  <2> QED BY <1>3, <2>1, WritesCount DEF Keeps
<1> HIDE DEF counted
<1>5. /\ WorldOK(born.world)
      /\ \/ new = 0
         \/ new \in Npc /\ Birthed(born.world, counted, new, target.map)
  BY <1>0, <1>1, <1>4, Spawns
<1> HIDE DEF born
<1>6. given = b2
  OBVIOUS
<1> HIDE DEF given, new
<1>7. ASSUME new # 0 PROVE WorldOK(b2)
  <2>1. new \in Npc /\ born.world.npc[new].NPCActive /\ born.world.npc[new].Pos.map = target.map
    BY <1>4, <1>5, <1>7, Born
  <2>2. new \in 0..MAXNPCS
    BY <2>1 DEF Npc
  <2>3. Keeps(b1, born.world) /\ b1.npc = born.world.npc
    BY <1>5, <2>2, WritesIndex
  <2> HIDE DEF b1
  <2>4. WorldOK(b1) /\ b1.npc[new].NPCActive /\ b1.npc[new].Pos.map \in Pk
    BY <2>1, <2>3 DEF Keeps
  <2> QED BY <1>0, <2>1, <2>4, WritesMaster DEF Keeps
<1> QED BY <1>2, <1>5, <1>6, <1>7

\* A user tames an NPC where it may stay, or drives it off the map.
LEMMA Tames ==
  ASSUME NEW s, WorldOK(s), NEW u \in User, NEW n \in Npc, s.npc[n].NPCActive,
         NEW i \in 0..MAXMASCOTAS, NEW k \in Int
  PROVE  LET tamed == [s EXCEPT !.user[u].NroMascotas = k, !.user[u].MascotasIndex[i] = n,
                                !.user[u].MascotasType[i] = s.npc[n].Numero,
                                !.npc[n].MaestroUser = u]
         IN  /\ s.npc[n].Pos.map \in Pk => WorldOK(tamed)
             /\ WorldOK(QuitarNPC(tamed, n))
<1> DEFINE tamed == [s EXCEPT !.user[u].NroMascotas = k, !.user[u].MascotasIndex[i] = n,
                              !.user[u].MascotasType[i] = s.npc[n].Numero,
                              !.npc[n].MaestroUser = u]
           a1 == [s EXCEPT !.user[u].NroMascotas = k]
           a2 == [a1 EXCEPT !.user[u].MascotasIndex[i] = n]
           a3 == [a2 EXCEPT !.user[u].MascotasType[i] = s.npc[n].Numero]
           a4 == [a3 EXCEPT !.npc[n].MaestroUser = u]
<1>1. tamed = a4
  OBVIOUS
<1> HIDE DEF tamed
<1>2. /\ s.npc \in [Npc -> NpcType] /\ s.npc[n] \in NpcType /\ Living(s.npc[n])
      /\ s.npc[n].Numero \in Kinds \cup {0} /\ n \in 0..MAXNPCS
      /\ s.npc[n].Pos \in Tile
  <2>1. s.npc \in [Npc -> NpcType] /\ Living(s.npc[n])
    BY OfTable DEF WorldOK, TableOK
  <2>2. s.npc[n] \in NpcType /\ s.npc[n].Pos \in Tile
    BY <2>1 DEF Living
  <2> QED BY <2>1, <2>2, AreasAssumption DEF NpcType, Npc
<1>3. WorldOK(a1) /\ a1.npc = s.npc
  BY WritesCount DEF Keeps
<1> HIDE DEF a1
<1>4. WorldOK(a2) /\ a2.npc = s.npc
  BY <1>2, <1>3, WritesIndex DEF Keeps
<1> HIDE DEF a2
<1>5. WorldOK(a3) /\ a3.npc = s.npc
  BY <1>2, <1>4, WritesType DEF Keeps
<1> HIDE DEF a3
<1>6. ASSUME s.npc[n].Pos.map \in Pk PROVE WorldOK(a4)
  <2>1. a3.npc[n].NPCActive /\ a3.npc[n].Pos.map \in Pk /\ FALSE \in BOOLEAN
    BY <1>2, <1>5, <1>6
  <2> QED BY <1>5, <2>1, WritesMaster DEF Keeps
<1>7. QuitarNPC(a4, n) = QuitarNPC(a3, n)
  <2> DEFINE r == [s.npc[n] EXCEPT !.MaestroUser = u]
  <2>1. IsWorld(a3) /\ a3.npc = s.npc /\ DOMAIN a3.CharList = 1..MAXCHARS
    BY <1>5 DEF WorldOK, CharsOK
  <2>2. a4 = [a3 EXCEPT !.npc = [s.npc EXCEPT ![n] = r]]
    BY <2>1
  <2>3. r \in NpcType /\ r.Pos = s.npc[n].Pos /\ r.CharIndex = s.npc[n].CharIndex
    BY <1>2 DEF NpcType
  <2> HIDE DEF a4, r
  <2>4. /\ IsWorld(a4) /\ SameUsers(a4, a3) /\ a4.CharList = a3.CharList
        /\ a4.tileNpc = a3.tileNpc /\ a4.LastNPC = a3.LastNPC
        /\ a4.npc = [s.npc EXCEPT ![n] = r]
    BY <2>1, <2>2 DEF IsWorld, SameUsers
  <2>5. a4.npc \in [Npc -> NpcType] /\ a4.npc[n] = r
        /\ [a4.npc EXCEPT ![n] = NoNpc] = [s.npc EXCEPT ![n] = NoNpc]
    BY <1>2, <2>3, <2>4
  <2> DEFINE x == QuitarNPC(a4, n)
             y == QuitarNPC(a3, n)
  <2>6. /\ IsWorld(x) /\ SameUsers(x, a4) /\ x.npc = [a4.npc EXCEPT ![n] = NoNpc]
        /\ x.tileNpc = Cleared(a4.tileNpc, a4.npc[n].Pos)
        /\ x.CharList = ForgetChar(a4.CharList, a4.npc[n].CharIndex)
        /\ x.LastNPC = IF n = a4.LastNPC THEN LastActive(x.npc, a4.LastNPC) ELSE a4.LastNPC
    BY <1>2, <2>1, <2>3, <2>4, <2>5, QuitarFields
  <2>7. /\ IsWorld(y) /\ SameUsers(y, a3) /\ y.npc = [a3.npc EXCEPT ![n] = NoNpc]
        /\ y.tileNpc = Cleared(a3.tileNpc, a3.npc[n].Pos)
        /\ y.CharList = ForgetChar(a3.CharList, a3.npc[n].CharIndex)
        /\ y.LastNPC = IF n = a3.LastNPC THEN LastActive(y.npc, a3.LastNPC) ELSE a3.LastNPC
    BY <1>2, <2>1, QuitarFields
  <2> HIDE DEF x, y
  <2>8. SameUsers(x, y)
    BY <2>4, <2>6, <2>7 DEF SameUsers
  <2>9. x.npc = y.npc /\ x.CharList = y.CharList /\ x.tileNpc = y.tileNpc
    BY <2>1, <2>3, <2>4, <2>5, <2>6, <2>7
  <2>10. x.LastNPC = y.LastNPC
    BY <2>4, <2>6, <2>7, <2>9
  <2>11. x = y
    BY <2>6, <2>7, <2>8, <2>9, <2>10, SameWorld
  <2> QED BY <2>11 DEF x, y
<1>8. WorldOK(QuitarNPC(a3, n))
  BY <1>5, Quits
<1> HIDE DEF a4
<1>9. (s.npc[n].Pos.map \in Pk => WorldOK(tamed)) /\ WorldOK(QuitarNPC(tamed, n))
  BY <1>1, <1>6, <1>7, <1>8
<1> QED BY <1>9 DEF tamed

\* A user releases a pet.
LEMMA Releases ==
  ASSUME NEW s, WorldOK(s), NEW u \in User, NEW n \in Npc,
         NEW i \in 0..MAXMASCOTAS, NEW k \in Int
  PROVE  WorldOK(QuitarNPC([s EXCEPT !.user[u].NroMascotas = k, !.user[u].MascotasIndex[i] = 0,
                                     !.user[u].MascotasType[i] = 0], n))
<1> DEFINE freed == [s EXCEPT !.user[u].NroMascotas = k, !.user[u].MascotasIndex[i] = 0,
                              !.user[u].MascotasType[i] = 0]
           a1 == [s EXCEPT !.user[u].NroMascotas = k]
           a2 == [a1 EXCEPT !.user[u].MascotasIndex[i] = 0]
           a3 == [a2 EXCEPT !.user[u].MascotasType[i] = 0]
<1>1. freed = a3
  OBVIOUS
<1> HIDE DEF freed
<1>2. 0 \in 0..MAXNPCS /\ 0 \in Kinds \cup {0}
  BY AreasAssumption
<1>3. WorldOK(a1)
  BY WritesCount DEF Keeps
<1> HIDE DEF a1
<1>4. WorldOK(a2)
  BY <1>2, <1>3, WritesIndex DEF Keeps
<1> HIDE DEF a2
<1>5. WorldOK(a3)
  BY <1>2, <1>4, WritesType DEF Keeps
<1> HIDE DEF a3
<1>6. WorldOK(QuitarNPC(freed, n))
  BY <1>1, <1>5, Quits
<1> QED BY <1>6 DEF freed

\* A summoned NPC gets its master, with a place or without.
LEMMA Summons ==
  ASSUME NEW s, WorldOK(s), NEW u \in User, NEW n \in Npc, s.npc[n].NPCActive,
         s.npc[n].Pos.map \in Pk, NEW i \in 0..MAXMASCOTAS, NEW kind \in Kinds, NEW k \in Int
  PROVE  LET taken == [s EXCEPT !.user[u].NroMascotas = k, !.npc[n].MaestroUser = u,
                                !.npc[n].Invocado = TRUE]
         IN  /\ WorldOK(taken)
             /\ WorldOK([taken EXCEPT !.user[u].MascotasIndex[i] = n,
                                      !.user[u].MascotasType[i] = kind])
<1> DEFINE taken == [s EXCEPT !.user[u].NroMascotas = k, !.npc[n].MaestroUser = u,
                              !.npc[n].Invocado = TRUE]
           placed == [taken EXCEPT !.user[u].MascotasIndex[i] = n,
                                   !.user[u].MascotasType[i] = kind]
           a1 == [s EXCEPT !.user[u].NroMascotas = k]
           a2 == [a1 EXCEPT !.npc[n].MaestroUser = u]
           a3 == [a2 EXCEPT !.npc[n].Invocado = TRUE]
           p1 == [taken EXCEPT !.user[u].MascotasIndex[i] = n]
           p2 == [p1 EXCEPT !.user[u].MascotasType[i] = kind]
<1>1. taken = a3
  OBVIOUS
<1> HIDE DEF taken
<1>2. placed = p2
  OBVIOUS
<1> HIDE DEF placed
<1>3. n \in 0..MAXNPCS /\ TRUE \in BOOLEAN
  BY DEF Npc
<1>4. WorldOK(a1) /\ a1.npc = s.npc
  BY WritesCount DEF Keeps
<1> HIDE DEF a1
<1>5. WorldOK(a3)
  <2>1. a1.npc[n].NPCActive /\ a1.npc[n].Pos.map \in Pk
    BY <1>4
  <2> QED BY <1>3, <1>4, <2>1, WritesMaster DEF Keeps
<1> HIDE DEF a2, a3
<1>6. WorldOK(p1)
  BY <1>1, <1>3, <1>5, WritesIndex DEF Keeps
<1> HIDE DEF p1
<1>7. WorldOK(p2)
  BY <1>6, WritesType DEF Keeps
<1> HIDE DEF p2
<1>8. WorldOK(taken) /\ WorldOK(placed)
  BY <1>1, <1>2, <1>5, <1>7
<1> QED BY <1>8 DEF taken, placed

-------------------------------------------------------------------------------
(* Users *)

\* The list without the index of a user.
LEMMA UserCharsQuit ==
  ASSUME NEW list, NEW users, NEW npcs, CharsOK(list, users, npcs),
         npcs \in [Npc -> NpcType], users \in [User -> UserType],
         NEW u \in User, NEW r \in UserType, r.CharIndex = 0
  PROVE  CharsOK(ForgetChar(list, users[u].CharIndex), [users EXCEPT ![u] = r], npcs)
<1> DEFINE k == users[u].CharIndex
           g == ForgetChar(list, k)
           f == [users EXCEPT ![u] = r]
<1>0. /\ MAXCHARS \in Nat /\ list \in [1..MAXCHARS -> User \cup Npc \cup {0}]
      /\ \A v \in User : users[v].CharIndex \in 0..MAXCHARS
  <2>1. \A v \in User : users[v] \in UserType
    OBVIOUS
  <2> QED BY <2>1, AreasAssumption DEF CharsOK, UserType
<1>1. f[u].CharIndex = 0 /\ \A v \in User \ {u} : f[v].CharIndex = users[v].CharIndex
  OBVIOUS
<1>2. /\ g \in [1..MAXCHARS -> User \cup Npc \cup {0}]
      /\ \A c \in 1..MAXCHARS : c # k => g[c] = list[c]
      /\ k \in 1..MAXCHARS => g[k] = 0
  BY <1>0 DEF ForgetChar
<1> HIDE DEF g, f
<1>3. ASSUME NEW c \in 1..MAXCHARS, g[c] # 0
      PROVE  \/ g[c] \in User /\ f[g[c]].CharIndex = c
             \/ g[c] \in Npc /\ npcs[g[c]].CharIndex = c
  <2>1. c # k /\ g[c] = list[c]
    BY <1>2, <1>3
  <2> QED BY <1>1, <1>3, <2>1 DEF CharsOK
<1>4. ASSUME NEW v \in User, f[v].CharIndex # 0 PROVE g[f[v].CharIndex] = v
  <2>1. v # u /\ f[v].CharIndex = users[v].CharIndex /\ f[v].CharIndex \in 1..MAXCHARS
    BY <1>0, <1>1, <1>4
  <2>2. list[users[v].CharIndex] = v
    BY <1>4, <2>1 DEF CharsOK
  <2>3. users[v].CharIndex # k
    <3>1. ASSUME users[v].CharIndex = k PROVE FALSE
      <4>1. list[k] = u
        BY <1>4, <2>1, <3>1 DEF CharsOK
      <4> QED BY <2>1, <2>2, <3>1, <4>1
    <3> QED BY <3>1
  <2> QED BY <1>2, <2>1, <2>2, <2>3
<1>5. ASSUME NEW n \in Npc, npcs[n].CharIndex \in 1..MAXCHARS PROVE g[npcs[n].CharIndex] = n
  <2>1. npcs[n].CharIndex # k
    BY <1>5 DEF CharsOK
  <2> QED BY <1>2, <1>5, <2>1 DEF CharsOK
<1>6. ASSUME NEW v \in User, NEW n \in Npc, f[v].CharIndex # 0
      PROVE  f[v].CharIndex # npcs[n].CharIndex
  BY <1>1, <1>6 DEF CharsOK
<1>7. CharsOK(g, f, npcs)
  BY <1>2, <1>3, <1>4, <1>5, <1>6 DEF CharsOK
<1> QED BY <1>7 DEF f, g

\* A user without a character gets an index that is free.
LEMMA UserCharsTake ==
  ASSUME NEW list, NEW users, NEW npcs, CharsOK(list, users, npcs),
         npcs \in [Npc -> NpcType], users \in [User -> UserType],
         NEW u \in User, users[u].CharIndex = 0, NEW r \in UserType,
         r.CharIndex \in 1..MAXCHARS, list[r.CharIndex] = 0
  PROVE  CharsOK([list EXCEPT ![r.CharIndex] = u], [users EXCEPT ![u] = r], npcs)
<1> DEFINE k == r.CharIndex
           g == [list EXCEPT ![k] = u]
           f == [users EXCEPT ![u] = r]
<1>0. /\ MAXCHARS \in Nat /\ list \in [1..MAXCHARS -> User \cup Npc \cup {0}] /\ u # 0
      /\ \A v \in User : users[v].CharIndex \in 0..MAXCHARS
  <2>1. \A v \in User : users[v] \in UserType
    OBVIOUS
  <2>2. u # 0
    BY DEF User
  <2> QED BY <2>1, <2>2, AreasAssumption DEF CharsOK, UserType
<1>1. f[u].CharIndex = k /\ \A v \in User \ {u} : f[v].CharIndex = users[v].CharIndex
  OBVIOUS
<1>2. /\ g \in [1..MAXCHARS -> User \cup Npc \cup {0}] /\ g[k] = u /\ k # 0
      /\ \A c \in 1..MAXCHARS : c # k => g[c] = list[c]
  BY <1>0
<1>3. (\A v \in User : users[v].CharIndex # k) /\ (\A n \in Npc : npcs[n].CharIndex # k)
  <2>1. ASSUME NEW v \in User, users[v].CharIndex = k PROVE FALSE
    <3>1. list[k] = v /\ v # 0
      BY <1>2, <2>1 DEF CharsOK, User
    <3> QED BY <3>1
  <2>2. ASSUME NEW n \in Npc, npcs[n].CharIndex = k PROVE FALSE
    <3>1. list[k] = n /\ n # 0
      BY <1>2, <2>2 DEF CharsOK, Npc
    <3> QED BY <3>1
  <2> QED BY <2>1, <2>2
<1> HIDE DEF g, f, k
<1>4. ASSUME NEW c \in 1..MAXCHARS, g[c] # 0
      PROVE  \/ g[c] \in User /\ f[g[c]].CharIndex = c
             \/ g[c] \in Npc /\ npcs[g[c]].CharIndex = c
  <2>1. CASE c = k
    BY <1>1, <1>2, <2>1
  <2>2. CASE c # k
    <3>1. g[c] = list[c]
      BY <1>2, <2>2
    <3>2. list[c] # u \/ list[c] \in Npc
      BY <1>0, <1>4, <3>1 DEF CharsOK
    <3>3. \/ list[c] \in User /\ users[list[c]].CharIndex = c
          \/ list[c] \in Npc /\ npcs[list[c]].CharIndex = c
      BY <1>4, <3>1 DEF CharsOK
    <3>4. c # 0
      BY <1>0
    <3> QED BY <1>1, <3>1, <3>3, <3>4
  <2> QED BY <2>1, <2>2
<1>5. ASSUME NEW v \in User, f[v].CharIndex # 0 PROVE g[f[v].CharIndex] = v
  <2>1. CASE v = u
    BY <1>1, <1>2, <2>1
  <2>2. CASE v # u
    <3>1. f[v].CharIndex = users[v].CharIndex /\ f[v].CharIndex # k /\ f[v].CharIndex \in 1..MAXCHARS
      BY <1>0, <1>1, <1>3, <1>5, <2>2
    <3> QED BY <1>2, <1>5, <3>1 DEF CharsOK
  <2> QED BY <2>1, <2>2
<1>6. ASSUME NEW n \in Npc, npcs[n].CharIndex \in 1..MAXCHARS PROVE g[npcs[n].CharIndex] = n
  BY <1>2, <1>3, <1>6 DEF CharsOK
<1>7. ASSUME NEW v \in User, NEW n \in Npc, f[v].CharIndex # 0
      PROVE  f[v].CharIndex # npcs[n].CharIndex
  BY <1>1, <1>3, <1>7 DEF CharsOK
<1>8. CharsOK(g, f, npcs)
  BY <1>2, <1>4, <1>5, <1>6, <1>7 DEF CharsOK
<1> QED BY <1>8 DEF f, g, k

\* The users of a map are counted right when one of them goes or comes.
LEMMA Counts ==
  ASSUME NEW A \in SUBSET User, NEW B \in SUBSET User, NEW u \in User, A \ {u} = B \ {u}
  PROVE  /\ Cardinality(A) \in Nat /\ Cardinality(B) \in Nat
         /\ u \in A => Cardinality(A) > 0
         /\ Cardinality(B) = Cardinality(A) - (IF u \in A THEN 1 ELSE 0) + (IF u \in B THEN 1 ELSE 0)
<1>1. IsFiniteSet(User)
  BY AreasAssumption, FS_Interval DEF User
<1>2. IsFiniteSet(A) /\ IsFiniteSet(B) /\ IsFiniteSet(A \ {u})
  BY <1>1, FS_Subset
<1>3. Cardinality(A) \in Nat /\ Cardinality(B) \in Nat /\ Cardinality(A \ {u}) \in Nat
  BY <1>2, FS_CardinalityType
<1>4. u \in A => Cardinality(A \ {u}) = Cardinality(A) - 1
  BY <1>2, FS_RemoveElement
<1>5. u \in B => Cardinality(B \ {u}) = Cardinality(B) - 1
  BY <1>2, FS_RemoveElement
<1>6. (u \notin A => A \ {u} = A) /\ (u \notin B => B \ {u} = B)
  OBVIOUS
<1>7. Cardinality(A \ {u}) = Cardinality(B \ {u})
  OBVIOUS
<1> QED BY <1>3, <1>4, <1>5, <1>6, <1>7

\* One user is somewhere else: what is so of all stays so.
LEMMA TypesGo ==
  ASSUME NEW users, NEW tiles, NEW groups, NEW num, UsersOK(users, tiles, groups, num),
         NEW u \in User, NEW r \in UserType, r.in, r.Pos \in Tile,
         NEW tiles2 \in [Cells -> User \cup {0}],
         \A c \in Cells : tiles2[c] \in {0, u, tiles[c]},
         NEW groups2 \in [Maps -> [User -> Nat]], NEW num2 \in [Maps -> Nat]
  PROVE  UsersOK([users EXCEPT ![u] = r], tiles2, groups2, num2)
<1> DEFINE f == [users EXCEPT ![u] = r]
<1>1. users \in [User -> UserType]
  BY DEF UsersOK
<1>2. f \in [User -> UserType] /\ f[u] = r /\ \A v \in User \ {u} : f[v] = users[v]
  BY <1>1
<1> HIDE DEF f
<1>3. ASSUME NEW c \in Cells, tiles2[c] # 0 PROVE f[tiles2[c]].in
  BY <1>2, <1>3 DEF UsersOK
<1>4. \A v \in User : f[v].Pos \in IF f[v].in THEN Tile ELSE {NoPos}
  BY <1>2 DEF UsersOK
<1>5. UsersOK(f, tiles2, groups2, num2)
  BY <1>2, <1>3, <1>4 DEF UsersOK
<1> QED BY <1>5 DEF f

\* The tiles, the groups and the counts when u came to be where r says.
Gone(users, tiles, groups, num, u, r, tiles2, groups2, num2) ==
  /\ \A c \in Cells : tiles2[c] # 0 =>
       (tiles2[c] = u /\ c = UserCell(r.Pos)) \/ (tiles2[c] # u /\ tiles2[c] = tiles[c])
  /\ \A m \in Maps, v \in User :
       groups2[m][v] = IF v = u THEN (IF m = r.Pos.map THEN 1 ELSE 0) ELSE groups[m][v]
  /\ \A m \in Maps :
       num2[m] = num[m] - (IF users[u].in /\ users[u].Pos.map = m THEN 1 ELSE 0)
                        + (IF r.Pos.map = m THEN 1 ELSE 0)

LEMMA Goes ==
  ASSUME NEW users, NEW tiles, NEW groups, NEW num, UsersOK(users, tiles, groups, num),
         UsersSound(users, tiles, groups, num),
         NEW u \in User, NEW r \in UserType, r.in, r.Pos \in Tile, r.Area = AreaOf(r.Pos),
         NEW tiles2 \in [Cells -> User \cup {0}], NEW groups2, NEW num2,
         Gone(users, tiles, groups, num, u, r, tiles2, groups2, num2)
  PROVE  UsersSound([users EXCEPT ![u] = r], tiles2, groups2, num2)
<1>0. /\ \A c \in Cells : tiles2[c] # 0 =>
           (tiles2[c] = u /\ c = UserCell(r.Pos)) \/ (tiles2[c] # u /\ tiles2[c] = tiles[c])
      /\ \A m \in Maps, v \in User :
           groups2[m][v] = IF v = u THEN (IF m = r.Pos.map THEN 1 ELSE 0) ELSE groups[m][v]
      /\ \A m \in Maps :
           num2[m] = num[m] - (IF users[u].in /\ users[u].Pos.map = m THEN 1 ELSE 0)
                            + (IF r.Pos.map = m THEN 1 ELSE 0)
  BY DEF Gone
<1> DEFINE f == [users EXCEPT ![u] = r]
<1>1. users \in [User -> UserType]
  BY DEF UsersOK
<1>2. f \in [User -> UserType] /\ f[u] = r /\ \A v \in User \ {u} : f[v] = users[v]
  BY <1>1
<1> HIDE DEF f
<1>3. ASSUME NEW c \in Cells, tiles2[c] # 0 PROVE c = UserCell(f[tiles2[c]].Pos)
  BY <1>0, <1>2, <1>3 DEF UsersSound
<1>4. \A v \in User : f[v].in => f[v].Area = AreaOf(f[v].Pos)
  BY <1>2 DEF UsersSound
<1>5. ASSUME NEW m \in Maps, NEW v \in User
      PROVE  groups2[m][v] = IF f[v].in /\ f[v].Pos.map = m THEN 1 ELSE 0
  <2>1. groups[m][v] = IF users[v].in /\ users[v].Pos.map = m THEN 1 ELSE 0
    BY DEF UsersSound
  <2> QED BY <1>0, <1>2, <2>1
<1>6. ASSUME NEW m \in Maps
      PROVE  num2[m] = Cardinality({v \in User : f[v].in /\ f[v].Pos.map = m})
  <2> DEFINE A == {v \in User : users[v].in /\ users[v].Pos.map = m}
             B == {v \in User : f[v].in /\ f[v].Pos.map = m}
  <2>1. A \ {u} = B \ {u}
    BY <1>2
  <2>2. (u \in A <=> users[u].in /\ users[u].Pos.map = m) /\ (u \in B <=> r.Pos.map = m)
    BY <1>2
  <2>3. num[m] = Cardinality(A)
    BY DEF UsersSound
  <2>4. A \in SUBSET User /\ B \in SUBSET User
    OBVIOUS
  <2> HIDE DEF A, B
  <2>5. Cardinality(B) = Cardinality(A) - (IF u \in A THEN 1 ELSE 0) + (IF u \in B THEN 1 ELSE 0)
    BY <2>1, <2>4, Counts
  <2>6. Cardinality(B) = num2[m]
    BY <1>0, <2>2, <2>3, <2>5
  <2> QED BY <2>6 DEF B
<1>7. UsersSound(f, tiles2, groups2, num2)
  BY <1>3, <1>4, <1>5, <1>6 DEF UsersSound
<1> QED BY <1>7 DEF f

\* The tiles when u left the one at p.
Left(left, tiles, u, p) ==
  /\ left \in [Cells -> User \cup {0}]
  /\ \A c \in Cells : left[c] \in {0, tiles[c]}
  /\ p \in Tile /\ (\A c \in Cells : tiles[c] = u => c = UserCell(p))
       => \A c \in Cells : left[c] # u

LEMMA Leaves ==
  ASSUME NEW tiles \in [Cells -> User \cup {0}], NEW u \in User, NEW p
  PROVE  Left(LeaveTile(tiles, u, p), tiles, u, p)
<1>1. u # 0
  BY DEF User
<1>2. CASE InMapBounds(p) /\ tiles[UserCell(p)] = u
  <2>1. LeaveTile(tiles, u, p) = [tiles EXCEPT ![UserCell(p)] = 0] /\ UserCell(p) \in Cells
    BY <1>2, CellsOf DEF LeaveTile, InMapBounds
  <2> QED BY <1>1, <2>1 DEF Left
<1>3. CASE ~(InMapBounds(p) /\ tiles[UserCell(p)] = u)
  <2>1. LeaveTile(tiles, u, p) = tiles
    BY <1>3 DEF LeaveTile
  <2> QED BY <1>3, <2>1 DEF InMapBounds, Left
<1> QED BY <1>2, <1>3

\* The entries of a group.
LEMMA Entries ==
  ASSUME NEW groups \in [Maps -> [User -> Nat]], NEW u \in User, NEW m
  PROVE  LET more == AgregarEntry(groups, u, m)
             less == QuitarEntry(groups, u, m)
         IN  /\ more \in [Maps -> [User -> Nat]] /\ less \in [Maps -> [User -> Nat]]
             /\ \A k \in Maps, v \in User :
                  /\ more[k][v] = IF k = m /\ v = u /\ groups[k][v] = 0 THEN 1 ELSE groups[k][v]
                  /\ less[k][v] = IF k = m /\ v = u /\ groups[k][v] > 0
                                  THEN groups[k][v] - 1 ELSE groups[k][v]
<1> DEFINE more == AgregarEntry(groups, u, m)
           less == QuitarEntry(groups, u, m)
<1>1. /\ more \in [Maps -> [User -> Nat]]
      /\ \A k \in Maps, v \in User :
           more[k][v] = IF k = m /\ v = u /\ groups[k][v] = 0 THEN 1 ELSE groups[k][v]
  <2>1. CASE m \in Maps /\ groups[m][u] = 0
    <3> DEFINE g == [groups[m] EXCEPT ![u] = groups[m][u] + 1]
    <3>1. more = [groups EXCEPT ![m] = g]
      BY <2>1 DEF AgregarEntry, EsNuevo
    <3>2. g \in [User -> Nat] /\ g[u] = 1 /\ \A v \in User \ {u} : g[v] = groups[m][v]
      BY <2>1
    <3> HIDE DEF g, more
    <3> QED BY <2>1, <3>1, <3>2
  <2>2. CASE ~(m \in Maps /\ groups[m][u] = 0)
    <3>1. more = groups
      BY <2>2 DEF AgregarEntry, EsNuevo
    <3> QED BY <2>2, <3>1
  <2> QED BY <2>1, <2>2
<1>2. /\ less \in [Maps -> [User -> Nat]]
      /\ \A k \in Maps, v \in User :
           less[k][v] = IF k = m /\ v = u /\ groups[k][v] > 0 THEN groups[k][v] - 1 ELSE groups[k][v]
  <2>1. CASE m \in Maps /\ groups[m][u] > 0
    <3> DEFINE g == [groups[m] EXCEPT ![u] = groups[m][u] - 1]
    <3>1. less = [groups EXCEPT ![m] = g]
      BY <2>1 DEF QuitarEntry
    <3>2. g \in [User -> Nat] /\ g[u] = groups[m][u] - 1 /\ \A v \in User \ {u} : g[v] = groups[m][v]
      BY <2>1
    <3> HIDE DEF g, less
    <3> QED BY <2>1, <3>1, <3>2
  <2>2. CASE ~(m \in Maps /\ groups[m][u] > 0)
    <3>1. less = groups
      BY <2>2 DEF QuitarEntry
    <3> QED BY <2>2, <3>1
  <2> QED BY <2>1, <2>2
<1> QED BY <1>1, <1>2

\* AgregarUser, field by field.
Listed(t, s, u, m) ==
  /\ IsWorld(t) /\ t.npc = s.npc /\ t.CharList = s.CharList /\ t.tileNpc = s.tileNpc
  /\ t.tileUser = s.tileUser /\ t.NumUsers = s.NumUsers /\ t.LastNPC = s.LastNPC
  /\ t.pushed = s.pushed /\ t.group = AgregarEntry(s.group, u, m)
  /\ t.user = [s.user EXCEPT ![u] =
       [s.user[u] EXCEPT !.Area = Agregar(s.user[u].Area, s.user[u].Pos)]]

LEMMA AgregarFields ==
  ASSUME NEW s, IsWorld(s), NEW u \in User, NEW m \in Maps
  PROVE  Listed(AgregarUser(s, u, m), s, u, m)
<1> DEFINE t == AgregarUser(s, u, m)
           r == [s.user[u] EXCEPT !.Area = Agregar(s.user[u].Area, s.user[u].Pos)]
<1>1. t = [s EXCEPT !.group = AgregarEntry(s.group, u, m), !.user = [s.user EXCEPT ![u] = r]]
  BY DEF AgregarUser
<1> HIDE DEF t, r
<1> QED BY <1>1 DEF IsWorld, t, r, Listed

\* The first index that is free, or 0.
LEMMA UserIndex ==
  ASSUME NEW s
  PROVE  UserCharIndex(s) = 0
           \/ (UserCharIndex(s) \in 1..MAXCHARS /\ s.CharList[UserCharIndex(s)] = 0)
<1> DEFINE free == {c \in 1..MAXCHARS : s.CharList[c] = 0}
           c == UserCharIndex(s)
<1>1. free \in SUBSET Nat /\ c = Lowest(free, 0)
  BY DEF UserCharIndex
<1>2. CASE free = {}
  <2> HIDE DEF free
  <2> QED BY <1>1, <1>2, LowestIs
<1>3. CASE free # {}
  <2>1. c \in free
    <3> HIDE DEF free
    <3> QED BY <1>1, <1>3, LowestIs
  <2> QED BY <2>1
<1> QED BY <1>2, <1>3

\* MakeUserChar, field by field, when the user got the index k.
Shown(t, s, u, p, k) ==
  /\ IsWorld(t) /\ t.npc = s.npc /\ t.tileNpc = s.tileNpc /\ t.LastNPC = s.LastNPC
  /\ t.NumUsers = s.NumUsers /\ t.pushed = s.pushed
  /\ t.tileUser = [s.tileUser EXCEPT ![UserCell(p)] = u]
  /\ t.group = AgregarEntry(s.group, u, p.map)
  /\ t.user = [s.user EXCEPT ![u] =
                 [[s.user[u] EXCEPT !.CharIndex = k] EXCEPT !.Area = Agregar(s.user[u].Area, p)]]
  /\ \/ k = s.user[u].CharIndex /\ t.CharList = s.CharList
     \/ /\ s.user[u].CharIndex = 0 /\ k \in 1..MAXCHARS /\ s.CharList[k] = 0
        /\ t.CharList = [s.CharList EXCEPT ![k] = u]

LEMMA ShowFields ==
  ASSUME NEW s, IsWorld(s), NEW u \in User, s.user \in [User -> UserType],
         s.user[u].Pos \in Tile
  PROVE  LET p == s.user[u].Pos
         IN  \E k \in 0..MAXCHARS : Shown(MakeUserChar(s, u, p), s, u, p, k)
<1> DEFINE p == s.user[u].Pos
           o == s.user[u]
           c == UserCharIndex(s)
           k == IF s.user[u].CharIndex # 0 \/ c = 0 THEN s.user[u].CharIndex ELSE c
           named == IF s.user[u].CharIndex # 0 \/ c = 0 THEN s
                    ELSE [s EXCEPT !.user[u].CharIndex = c, !.CharList[c] = u]
           r == [o EXCEPT !.CharIndex = k]
           laid == [named EXCEPT !.tileUser[UserCell(p)] = u]
           t == AgregarUser(laid, u, p.map)
<1>0. o \in UserType /\ p.map \in Maps /\ o.CharIndex \in 0..MAXCHARS
  BY DEF UserType, Tile
<1>1. MakeUserChar(s, u, p) = t
  BY DEF MakeUserChar, InMapBounds
<1>2. k \in 0..MAXCHARS
  BY <1>0, UserIndex
<1>3. /\ IsWorld(named) /\ named.npc = s.npc /\ named.tileNpc = s.tileNpc
      /\ named.LastNPC = s.LastNPC /\ named.NumUsers = s.NumUsers /\ named.pushed = s.pushed
      /\ named.tileUser = s.tileUser /\ named.group = s.group
      /\ named.user = [s.user EXCEPT ![u] = r]
      /\ \/ k = s.user[u].CharIndex /\ named.CharList = s.CharList
         \/ /\ s.user[u].CharIndex = 0 /\ k \in 1..MAXCHARS /\ s.CharList[k] = 0
            /\ named.CharList = [s.CharList EXCEPT ![k] = u]
  <2>1. CASE s.user[u].CharIndex # 0 \/ c = 0
    <3>1. named = s /\ k = s.user[u].CharIndex
      BY <2>1
    <3>2. [o EXCEPT !.CharIndex = o.CharIndex] = o
      BY <1>0 DEF UserType
    <3>3. [s.user EXCEPT ![u] = o] = s.user
      OBVIOUS
    <3> QED BY <3>1, <3>2, <3>3
  <2>2. CASE ~(s.user[u].CharIndex # 0 \/ c = 0)
    <3>1. k = c /\ named = [s EXCEPT !.user[u].CharIndex = c, !.CharList[c] = u]
      BY <2>2
    <3>2. c \in 1..MAXCHARS /\ s.CharList[c] = 0
      BY <2>2, UserIndex
    <3> HIDE DEF c, k, named
    <3> QED BY <2>2, <3>1, <3>2 DEF IsWorld
  <2> QED BY <2>1, <2>2
<1> HIDE DEF named, k
<1>4. /\ IsWorld(laid) /\ laid.npc = s.npc /\ laid.tileNpc = s.tileNpc
      /\ laid.LastNPC = s.LastNPC /\ laid.NumUsers = s.NumUsers /\ laid.pushed = s.pushed
      /\ laid.tileUser = [s.tileUser EXCEPT ![UserCell(p)] = u] /\ laid.group = s.group
      /\ laid.user = [s.user EXCEPT ![u] = r] /\ laid.CharList = named.CharList
  BY <1>3 DEF IsWorld
<1> HIDE DEF laid
<1>5. r.Pos = p /\ r.Area = o.Area
  BY <1>0 DEF UserType
<1> HIDE DEF r, p, o
<1>6. laid.user[u] = r
  BY <1>4
<1>7. /\ IsWorld(t) /\ t.npc = laid.npc /\ t.CharList = laid.CharList /\ t.tileNpc = laid.tileNpc
      /\ t.tileUser = laid.tileUser /\ t.NumUsers = laid.NumUsers /\ t.LastNPC = laid.LastNPC
      /\ t.pushed = laid.pushed /\ t.group = AgregarEntry(laid.group, u, p.map)
      /\ t.user = [laid.user EXCEPT ![u] =
           [laid.user[u] EXCEPT !.Area = Agregar(laid.user[u].Area, laid.user[u].Pos)]]
  <2>1. Listed(t, laid, u, p.map)
    BY <1>0, <1>4, AgregarFields
  <2> QED BY <2>1 DEF Listed
<1> HIDE DEF t
<1>8. t.user = [s.user EXCEPT ![u] = [r EXCEPT !.Area = Agregar(s.user[u].Area, p)]]
  <2>1. t.user = [laid.user EXCEPT ![u] = [r EXCEPT !.Area = Agregar(r.Area, r.Pos)]]
    BY <1>6, <1>7
  <2>2. r.Area = s.user[u].Area
    BY <1>5 DEF o
  <2> QED BY <1>4, <1>5, <2>1, <2>2
<1>9. Shown(t, s, u, p, k)
  BY <1>3, <1>4, <1>7, <1>8 DEF Shown, r, o
<1> QED BY <1>1, <1>2, <1>9 DEF p

\* A user gets its character on the tile where it is, by whichever way it came there.
LEMMA Arrives ==
  ASSUME NEW s, WorldOK(s), NEW x, IsWorld(x), x.npc = s.npc, x.tileNpc = s.tileNpc,
         x.LastNPC = s.LastNPC, x.pushed = s.pushed,
         NEW u \in User, NEW r \in UserType, r.in, r.Pos \in Tile,
         x.user = [s.user EXCEPT ![u] = r],
         CharsOK(x.CharList, x.user, x.npc),
         x.tileUser \in [Cells -> User \cup {0}],
         \A c \in Cells : x.tileUser[c] \in {0, s.tileUser[c]},
         x.group \in [Maps -> [User -> Nat]], x.NumUsers \in [Maps -> Nat],
         ~s.pushed =>
           /\ \A c \in Cells : x.tileUser[c] # u
           /\ \A m \in Maps, v \in User :
                IF v # u THEN x.group[m][v] = s.group[m][v]
                ELSE x.group[m][v] \in IF m = r.Pos.map THEN {0, 1} ELSE {0}
           /\ \A m \in Maps :
                x.NumUsers[m] = s.NumUsers[m]
                                - (IF s.user[u].in /\ s.user[u].Pos.map = m THEN 1 ELSE 0)
                                + (IF r.Pos.map = m THEN 1 ELSE 0)
  PROVE  LET t == MakeUserChar(x, u, r.Pos)
         IN  WorldOK(t) /\ t.user[u].in
<1> DEFINE p == r.Pos
           t == MakeUserChar(x, u, p)
<1>0. /\ IsWorld(s) /\ s.user \in [User -> UserType] /\ s.npc \in [Npc -> NpcType]
      /\ x.user \in [User -> UserType] /\ x.user[u] = r /\ s.pushed \in BOOLEAN
      /\ UsersOK(s.user, s.tileUser, s.group, s.NumUsers)
  <2>1. IsWorld(s) /\ s.user \in [User -> UserType] /\ s.npc \in [Npc -> NpcType] /\ s.pushed \in BOOLEAN
        /\ UsersOK(s.user, s.tileUser, s.group, s.NumUsers)
    BY DEF WorldOK, UsersOK, TableOK
  <2> QED BY <2>1
<1>1. PICK k \in 0..MAXCHARS : Shown(t, x, u, p, k)
  BY <1>0, ShowFields
<1> HIDE DEF t
<1> DEFINE q == [r EXCEPT !.CharIndex = k]
           e == [q EXCEPT !.Area = Agregar(r.Area, p)]
<1>2. /\ IsWorld(t) /\ t.npc = s.npc /\ t.tileNpc = s.tileNpc /\ t.LastNPC = s.LastNPC
      /\ t.NumUsers = x.NumUsers /\ t.pushed = s.pushed
      /\ t.tileUser = [x.tileUser EXCEPT ![UserCell(p)] = u]
      /\ t.group = AgregarEntry(x.group, u, p.map)
      /\ t.user = [x.user EXCEPT ![u] = e]
      /\ \/ k = r.CharIndex /\ t.CharList = x.CharList
         \/ /\ r.CharIndex = 0 /\ k \in 1..MAXCHARS /\ x.CharList[k] = 0
            /\ t.CharList = [x.CharList EXCEPT ![k] = u]
  BY <1>0, <1>1 DEF Shown
<1>3. r.Area \in AreaType
  BY DEF UserType
<1>4. Agregar(r.Area, p) = AreaOf(p) /\ AreaOf(p) \in AreaType
  BY <1>3, Added
<1>5. q \in UserType /\ q.Pos = p /\ q.in /\ q.CharIndex = k
  BY DEF UserType
<1> HIDE DEF q
<1>6. e \in UserType /\ e.Pos = p /\ e.in /\ e.CharIndex = k /\ e.Area = AreaOf(p)
  BY <1>4, <1>5 DEF UserType
<1> HIDE DEF e
<1>7. t.user = [s.user EXCEPT ![u] = e] /\ t.user[u] = e
  BY <1>0, <1>2
<1>8. CharsOK(t.CharList, t.user, t.npc)
  <2>1. CASE k = r.CharIndex /\ t.CharList = x.CharList
    <3>1. \A v \in User : t.user[v].CharIndex = x.user[v].CharIndex
      BY <1>0, <1>2, <1>6, <2>1
    <3> QED BY <1>2, <2>1, <3>1, CharsSame
  <2>2. CASE /\ r.CharIndex = 0 /\ k \in 1..MAXCHARS /\ x.CharList[k] = 0
             /\ t.CharList = [x.CharList EXCEPT ![k] = u]
    BY <1>0, <1>2, <1>6, <2>2, UserCharsTake
  <2> QED BY <1>2, <2>1, <2>2
<1>9. UserCell(p) \in Cells /\ u # 0
  BY CellsOf DEF User
<1>10. /\ t.tileUser \in [Cells -> User \cup {0}]
       /\ \A c \in Cells : t.tileUser[c] = IF c = UserCell(p) THEN u ELSE x.tileUser[c]
  BY <1>2, <1>9
<1>11. /\ t.group \in [Maps -> [User -> Nat]]
       /\ \A m \in Maps, v \in User :
            t.group[m][v] = IF m = p.map /\ v = u /\ x.group[m][v] = 0 THEN 1 ELSE x.group[m][v]
  BY <1>2, Entries
<1>12. UsersOK(t.user, t.tileUser, t.group, t.NumUsers)
  <2>1. \A c \in Cells : t.tileUser[c] \in {0, u, s.tileUser[c]}
    BY <1>10
  <2>2. t.NumUsers \in [Maps -> Nat] /\ e.Pos \in Tile
    BY <1>2, <1>6
  <2>3. UsersOK([s.user EXCEPT ![u] = e], t.tileUser, t.group, t.NumUsers)
    BY <1>0, <1>6, <1>10, <1>11, <2>1, <2>2, TypesGo
  <2> QED BY <1>7, <2>3
<1>13. t.pushed \/ UsersSound(t.user, t.tileUser, t.group, t.NumUsers)
  <2> SUFFICES ASSUME ~s.pushed
               PROVE  UsersSound(t.user, t.tileUser, t.group, t.NumUsers)
    BY <1>2
  <2>1. UsersSound(s.user, s.tileUser, s.group, s.NumUsers)
    BY DEF WorldOK
  <2>2. ASSUME NEW c \in Cells, t.tileUser[c] # 0
        PROVE  \/ t.tileUser[c] = u /\ c = UserCell(e.Pos)
               \/ t.tileUser[c] # u /\ t.tileUser[c] = s.tileUser[c]
    BY <1>6, <1>9, <1>10, <2>2
  <2>3. ASSUME NEW m \in Maps, NEW v \in User
        PROVE  t.group[m][v] = IF v = u THEN (IF m = e.Pos.map THEN 1 ELSE 0) ELSE s.group[m][v]
    <3>1. t.group[m][v] = IF m = p.map /\ v = u /\ x.group[m][v] = 0 THEN 1 ELSE x.group[m][v]
      BY <1>11
    <3>2. IF v # u THEN x.group[m][v] = s.group[m][v]
          ELSE x.group[m][v] \in IF m = p.map THEN {0, 1} ELSE {0}
      OBVIOUS
    <3> QED BY <1>6, <3>1, <3>2
  <2>4. ASSUME NEW m \in Maps
        PROVE  t.NumUsers[m] = s.NumUsers[m]
                                - (IF s.user[u].in /\ s.user[u].Pos.map = m THEN 1 ELSE 0)
                                + (IF e.Pos.map = m THEN 1 ELSE 0)
    BY <1>2, <1>6
  <2>5. e.Pos \in Tile /\ e.Area = AreaOf(e.Pos)
    BY <1>6
  <2>6. \A c \in Cells : t.tileUser[c] # 0 =>
          (t.tileUser[c] = u /\ c = UserCell(e.Pos)) \/ (t.tileUser[c] # u /\ t.tileUser[c] = s.tileUser[c])
    BY <2>2
  <2>7. UsersSound([s.user EXCEPT ![u] = e], t.tileUser, t.group, t.NumUsers)
    <3>1. Gone(s.user, s.tileUser, s.group, s.NumUsers, u, e, t.tileUser, t.group, t.NumUsers)
      BY <2>3, <2>4, <2>6 DEF Gone
    <3> QED BY <1>0, <1>6, <1>10, <2>1, <2>5, <3>1, Goes
  <2> QED BY <1>7, <2>7
<1>14. WorldOK(t) /\ t.user[u].in
  BY <1>2, <1>6, <1>7, <1>8, <1>12, <1>13, <1>0 DEF WorldOK
<1> QED BY <1>14 DEF t, p

\* A user enters.
LEMMA Enters ==
  ASSUME NEW s, WorldOK(s), NEW u \in User, ~s.user[u].in, NEW p \in Tile
  PROVE  WorldOK(MakeUserChar([s EXCEPT !.user[u].in = TRUE, !.user[u].Pos = p,
                                        !.NumUsers[p.map] = CountIn(@)], u, p))
<1> DEFINE o == s.user[u]
           q == [o EXCEPT !.in = TRUE]
           r == [q EXCEPT !.Pos = p]
           x == [s EXCEPT !.user[u].in = TRUE, !.user[u].Pos = p, !.NumUsers[p.map] = CountIn(@)]
           a1 == [s EXCEPT !.user[u].in = TRUE]
           a2 == [a1 EXCEPT !.user[u].Pos = p]
           a3 == [a2 EXCEPT !.NumUsers[p.map] = a2.NumUsers[p.map] + 1]
<1>0. /\ IsWorld(s) /\ s.user \in [User -> UserType] /\ o \in UserType /\ p.map \in Maps
      /\ UsersOK(s.user, s.tileUser, s.group, s.NumUsers) /\ CharsOK(s.CharList, s.user, s.npc)
  BY DEF WorldOK, UsersOK, Tile
<1>1. x = a3
  BY DEF CountIn
<1> HIDE DEF x
<1>2. ASSUME NEW d \in BOOLEAN PROVE [o EXCEPT !.in = d] \in UserType /\ [o EXCEPT !.in = d].in = d
  BY <1>0 DEF UserType
<1>3. q \in UserType /\ q.in /\ q.CharIndex = o.CharIndex
  <2>1. q \in UserType /\ q.in
    BY <1>2
  <2>2. q.CharIndex = o.CharIndex
    BY <1>0 DEF UserType
  <2> QED BY <2>1, <2>2
<1>4. /\ IsWorld(a1) /\ a1.user = [s.user EXCEPT ![u] = q] /\ a1.npc = s.npc
      /\ a1.tileNpc = s.tileNpc /\ a1.LastNPC = s.LastNPC /\ a1.pushed = s.pushed
      /\ a1.CharList = s.CharList /\ a1.tileUser = s.tileUser /\ a1.group = s.group
      /\ a1.NumUsers = s.NumUsers
  BY <1>0 DEF IsWorld
<1> HIDE DEF a1, q
<1>5. a1.user[u] = q /\ [a1.user EXCEPT ![u] = r] = [s.user EXCEPT ![u] = r]
  <2> HIDE DEF r
  <2> QED BY <1>0, <1>4
<1>6. a2 = [a1 EXCEPT !.user = [a1.user EXCEPT ![u] = r]]
  BY <1>5
<1>7. r \in UserType /\ r.in /\ r.CharIndex = o.CharIndex /\ r.Pos = p
  BY <1>3 DEF UserType, MapPos
<1> HIDE DEF a2, r
<1>8. /\ IsWorld(a2) /\ a2.user = [s.user EXCEPT ![u] = r] /\ a2.npc = s.npc
      /\ a2.tileNpc = s.tileNpc /\ a2.LastNPC = s.LastNPC /\ a2.pushed = s.pushed
      /\ a2.CharList = s.CharList /\ a2.tileUser = s.tileUser /\ a2.group = s.group
      /\ a2.NumUsers = s.NumUsers
  BY <1>4, <1>5, <1>6 DEF IsWorld
<1>9. /\ IsWorld(x) /\ x.user = [s.user EXCEPT ![u] = r] /\ x.npc = s.npc
      /\ x.tileNpc = s.tileNpc /\ x.LastNPC = s.LastNPC /\ x.pushed = s.pushed
      /\ x.CharList = s.CharList /\ x.tileUser = s.tileUser /\ x.group = s.group
      /\ x.NumUsers = [s.NumUsers EXCEPT ![p.map] = s.NumUsers[p.map] + 1]
  BY <1>1, <1>8 DEF IsWorld
<1> HIDE DEF a3
<1>10. /\ x.tileUser \in [Cells -> User \cup {0}] /\ x.group \in [Maps -> [User -> Nat]]
       /\ x.NumUsers \in [Maps -> Nat]
       /\ \A m \in Maps : x.NumUsers[m] = s.NumUsers[m] + (IF p.map = m THEN 1 ELSE 0)
  BY <1>0, <1>9 DEF UsersOK
<1>11. \A c \in Cells : x.tileUser[c] # u
  <2>1. \A c \in Cells : s.tileUser[c] # 0 => s.user[s.tileUser[c]].in
    BY <1>0 DEF UsersOK
  <2>2. u # 0
    BY DEF User
  <2> QED BY <1>9, <2>1, <2>2
<1>12. CharsOK(x.CharList, x.user, x.npc)
  <2>1. \A v \in User : x.user[v].CharIndex = s.user[v].CharIndex
    BY <1>0, <1>7, <1>9
  <2> QED BY <1>0, <1>9, <2>1, CharsSame
<1>13. ASSUME ~s.pushed, NEW m \in Maps, NEW v \in User
       PROVE  IF v # u THEN x.group[m][v] = s.group[m][v]
              ELSE x.group[m][v] \in IF m = p.map THEN {0, 1} ELSE {0}
  <2>1. UsersSound(s.user, s.tileUser, s.group, s.NumUsers)
    BY <1>13 DEF WorldOK
  <2>2. s.group[m][v] = IF s.user[v].in /\ s.user[v].Pos.map = m THEN 1 ELSE 0
    BY <2>1 DEF UsersSound
  <2> QED BY <1>9, <2>2
<1>14. \A m \in Maps : x.NumUsers[m] = s.NumUsers[m]
                                - (IF s.user[u].in /\ s.user[u].Pos.map = m THEN 1 ELSE 0)
                                + (IF r.Pos.map = m THEN 1 ELSE 0)
  <2>1. s.NumUsers \in [Maps -> Nat]
    BY <1>0 DEF UsersOK
  <2> QED BY <1>7, <1>10, <2>1
<1>15. \A c \in Cells : x.tileUser[c] \in {0, s.tileUser[c]}
  BY <1>9
<1> HIDE DEF o
<1>16. WorldOK(MakeUserChar(x, u, r.Pos))
  <2>1. r.Pos \in Tile
    BY <1>7
  <2>2. ~s.pushed =>
           /\ \A c \in Cells : x.tileUser[c] # u
           /\ \A m \in Maps, v \in User :
                IF v # u THEN x.group[m][v] = s.group[m][v]
                ELSE x.group[m][v] \in IF m = r.Pos.map THEN {0, 1} ELSE {0}
           /\ \A m \in Maps :
                x.NumUsers[m] = s.NumUsers[m]
                                - (IF s.user[u].in /\ s.user[u].Pos.map = m THEN 1 ELSE 0)
                                + (IF r.Pos.map = m THEN 1 ELSE 0)
    BY <1>7, <1>11, <1>13, <1>14
  <2> QED BY <1>7, <1>9, <1>10, <1>12, <1>15, <2>1, <2>2, Arrives
<1> QED BY <1>7, <1>16 DEF x

\* A world x is s without the character of u, whose record is r.
Away(x, s, u, r, groups, num) ==
  /\ IsWorld(x) /\ x.npc = s.npc /\ x.tileNpc = s.tileNpc /\ x.LastNPC = s.LastNPC
  /\ x.pushed = s.pushed
  /\ x.CharList = ForgetChar(s.CharList, s.user[u].CharIndex)
  /\ x.tileUser = LeaveTile(s.tileUser, u, s.user[u].Pos)
  /\ x.user = [s.user EXCEPT ![u] = r] /\ x.group = groups /\ x.NumUsers = num

\* EraseUserChar, field by field.
LEMMA EraseFields ==
  ASSUME NEW s, IsWorld(s), NEW u \in User
  PROVE  Away(EraseUserChar(s, u), s, u, [s.user[u] EXCEPT !.CharIndex = 0],
              QuitarEntry(s.group, u, s.user[u].Pos.map), s.NumUsers)
<1> DEFINE r == [s.user[u] EXCEPT !.CharIndex = 0]
           list == ForgetChar(s.CharList, s.user[u].CharIndex)
           tiles == LeaveTile(s.tileUser, u, s.user[u].Pos)
           a == [s EXCEPT !.CharList = list, !.tileUser = tiles, !.user[u].CharIndex = 0]
           m == s.user[u].Pos.map
           t == QuitarUser(a, u, m)
<1>1. EraseUserChar(s, u) = t
  BY DEF EraseUserChar
<1> HIDE DEF list, tiles, m
<1>2. /\ IsWorld(a) /\ a.npc = s.npc /\ a.tileNpc = s.tileNpc /\ a.LastNPC = s.LastNPC
      /\ a.pushed = s.pushed /\ a.CharList = list /\ a.tileUser = tiles
      /\ a.user = [s.user EXCEPT ![u] = r] /\ a.group = s.group /\ a.NumUsers = s.NumUsers
  BY DEF IsWorld
<1> HIDE DEF a, r
<1>3. t = [a EXCEPT !.group = QuitarEntry(a.group, u, m)]
  BY DEF QuitarUser
<1> HIDE DEF t
<1>4. Away(t, s, u, r, QuitarEntry(s.group, u, m), s.NumUsers)
  BY <1>2, <1>3 DEF IsWorld, Away, list, tiles
<1> QED BY <1>1, <1>4 DEF r, m

\* What the maps count when a user goes from one to another.
Recounted(num, old, new) ==
  [[num EXCEPT ![new] = CountIn(num[new])] EXCEPT ![old] = CountOut(num[old])]

\* The user is taken out of the old map once more and put in the new one.
LEMMA CountFields ==
  ASSUME NEW s, NEW e, NEW u \in User, NEW r, NEW groups, NEW num,
         Away(e, s, u, r, groups, num), s.user \in [User -> UserType], r \in UserType,
         NEW old \in Maps, NEW new \in Maps, old # new, num \in [Maps -> Nat]
  PROVE  Away(AgregarUser(QuitarUser([e EXCEPT !.NumUsers[new] = CountIn(@),
                                               !.NumUsers[old] = CountOut(@)], u, old), u, new),
              s, u, [r EXCEPT !.Area = Agregar(r.Area, r.Pos)],
              AgregarEntry(QuitarEntry(groups, u, old), u, new), Recounted(num, old, new))
<1> DEFINE a1 == [e EXCEPT !.NumUsers[new] = CountIn(@)]
           a2 == [a1 EXCEPT !.NumUsers[old] = CountOut(@)]
           both == [e EXCEPT !.NumUsers[new] = CountIn(@), !.NumUsers[old] = CountOut(@)]
           b == QuitarUser(both, u, old)
           t == AgregarUser(b, u, new)
           q == [r EXCEPT !.Area = Agregar(r.Area, r.Pos)]
<1>0. /\ IsWorld(e) /\ e.npc = s.npc /\ e.tileNpc = s.tileNpc /\ e.LastNPC = s.LastNPC
      /\ e.pushed = s.pushed
      /\ e.CharList = ForgetChar(s.CharList, s.user[u].CharIndex)
      /\ e.tileUser = LeaveTile(s.tileUser, u, s.user[u].Pos)
      /\ e.user = [s.user EXCEPT ![u] = r] /\ e.group = groups /\ e.NumUsers = num
  BY DEF Away
<1>1. both = a2
  OBVIOUS
<1> HIDE DEF both
<1>2. /\ IsWorld(a1) /\ a1.npc = e.npc /\ a1.tileNpc = e.tileNpc /\ a1.LastNPC = e.LastNPC
      /\ a1.pushed = e.pushed /\ a1.CharList = e.CharList /\ a1.tileUser = e.tileUser
      /\ a1.user = e.user /\ a1.group = e.group
      /\ a1.NumUsers = [num EXCEPT ![new] = CountIn(num[new])]
  BY <1>0 DEF IsWorld
<1> HIDE DEF a1
<1>3. a1.NumUsers[old] = num[old]
  BY <1>2
<1>4. /\ IsWorld(a2) /\ a2.npc = e.npc /\ a2.tileNpc = e.tileNpc /\ a2.LastNPC = e.LastNPC
      /\ a2.pushed = e.pushed /\ a2.CharList = e.CharList /\ a2.tileUser = e.tileUser
      /\ a2.user = e.user /\ a2.group = e.group
      /\ a2.NumUsers = Recounted(num, old, new)
  BY <1>2, <1>3 DEF IsWorld, Recounted
<1> HIDE DEF a2
<1>5. b = [both EXCEPT !.group = QuitarEntry(both.group, u, old)]
  BY DEF QuitarUser
<1> HIDE DEF b
<1>6. /\ IsWorld(b) /\ b.npc = e.npc /\ b.tileNpc = e.tileNpc /\ b.LastNPC = e.LastNPC
      /\ b.pushed = e.pushed /\ b.CharList = e.CharList /\ b.tileUser = e.tileUser
      /\ b.user = e.user /\ b.group = QuitarEntry(groups, u, old)
      /\ b.NumUsers = Recounted(num, old, new)
  BY <1>0, <1>1, <1>4, <1>5 DEF IsWorld
<1>7. b.user[u] = r
  BY <1>0, <1>6
<1>8. /\ IsWorld(t) /\ t.npc = b.npc /\ t.CharList = b.CharList /\ t.tileNpc = b.tileNpc
      /\ t.tileUser = b.tileUser /\ t.NumUsers = b.NumUsers /\ t.LastNPC = b.LastNPC
      /\ t.pushed = b.pushed /\ t.group = AgregarEntry(b.group, u, new)
      /\ t.user = [b.user EXCEPT ![u] =
           [b.user[u] EXCEPT !.Area = Agregar(b.user[u].Area, b.user[u].Pos)]]
  <2>1. Listed(t, b, u, new)
    BY <1>6, AgregarFields
  <2> QED BY <2>1 DEF Listed
<1> HIDE DEF t
<1>9. t.user = [s.user EXCEPT ![u] = q]
  <2>1. t.user = [b.user EXCEPT ![u] = q]
    BY <1>7, <1>8
  <2> HIDE DEF q
  <2> QED BY <1>0, <1>6, <2>1
<1> HIDE DEF q
<1>10. Away(t, s, u, q, AgregarEntry(QuitarEntry(groups, u, old), u, new), Recounted(num, old, new))
  BY <1>0, <1>6, <1>8, <1>9 DEF Away
<1> QED BY <1>10 DEF t, b, both, q

\* A user is warped, with its pets.
LEMMA WarpsUser ==
  ASSUME NEW s, WorldOK(s), NEW u \in User, s.user[u].in, NEW p \in Tile
  PROVE  WorldOK(WarpUserChar(s, u, p))
<1> DEFINE o == s.user[u]
           old == o.Pos.map
           erased == EraseUserChar(s, u)
           r1 == [o EXCEPT !.CharIndex = 0]
           g1 == QuitarEntry(s.group, u, old)
           counted == IF old = p.map THEN erased
                      ELSE AgregarUser(QuitarUser(
                             [erased EXCEPT !.NumUsers[p.map] = CountIn(@),
                                            !.NumUsers[old] = CountOut(@)], u, old), u, p.map)
           r2 == IF old = p.map THEN r1 ELSE [r1 EXCEPT !.Area = Agregar(r1.Area, r1.Pos)]
           g2 == IF old = p.map THEN g1 ELSE AgregarEntry(QuitarEntry(g1, u, old), u, p.map)
           num == IF old = p.map THEN s.NumUsers ELSE Recounted(s.NumUsers, old, p.map)
           r == [r2 EXCEPT !.Pos = p]
           x == [counted EXCEPT !.user[u].Pos = p]
           t == MakeUserChar(x, u, p)
<1>0. /\ IsWorld(s) /\ s.user \in [User -> UserType] /\ s.npc \in [Npc -> NpcType]
      /\ o \in UserType /\ o.Pos \in Tile /\ old \in Maps /\ p.map \in Maps
      /\ UsersOK(s.user, s.tileUser, s.group, s.NumUsers)
      /\ CharsOK(s.CharList, s.user, s.npc) /\ s.NumUsers \in [Maps -> Nat]
      /\ s.group \in [Maps -> [User -> Nat]] /\ s.tileUser \in [Cells -> User \cup {0}]
  <2>1. /\ IsWorld(s) /\ s.user \in [User -> UserType] /\ s.npc \in [Npc -> NpcType]
        /\ UsersOK(s.user, s.tileUser, s.group, s.NumUsers)
        /\ CharsOK(s.CharList, s.user, s.npc)
    BY DEF WorldOK, UsersOK, TableOK
  <2>2. o \in UserType /\ o.Pos \in Tile
    BY <2>1 DEF UsersOK
  <2> QED BY <2>1, <2>2 DEF UsersOK, Tile
<1>1. WarpUserChar(s, u, p) = WarpMascotas(t, u)
  BY DEF WarpUserChar
<1>2. Away(erased, s, u, r1, g1, s.NumUsers)
  BY <1>0, EraseFields
<1> HIDE DEF erased
<1>3. /\ r1 \in UserType /\ r1.CharIndex = 0 /\ r1.in /\ r1.Pos = o.Pos /\ r1.Area = o.Area
  <2>1. 0 \in 0..MAXCHARS
    BY AreasAssumption
  <2> QED BY <1>0, <2>1 DEF UserType
<1> HIDE DEF r1
<1>4. r2 \in UserType /\ r2.CharIndex = 0 /\ r2.in
  <2>1. r1.Area \in AreaType
    BY <1>3 DEF UserType
  <2>2. Agregar(r1.Area, r1.Pos) \in AreaType
    BY <1>0, <1>3, <2>1, Added
  <2> QED BY <1>3, <2>2 DEF UserType
<1>5. Away(counted, s, u, r2, g2, num)
  <2>1. CASE old = p.map
    BY <1>2, <2>1
  <2>2. CASE old # p.map
    <3> HIDE DEF old, g1
    <3>1. Away(AgregarUser(QuitarUser([erased EXCEPT !.NumUsers[p.map] = CountIn(@),
                                                     !.NumUsers[old] = CountOut(@)], u, old), u, p.map),
               s, u, [r1 EXCEPT !.Area = Agregar(r1.Area, r1.Pos)],
               AgregarEntry(QuitarEntry(g1, u, old), u, p.map), Recounted(s.NumUsers, old, p.map))
      BY <1>0, <1>2, <1>3, <2>2, CountFields
    <3> QED BY <2>2, <3>1
  <2> QED BY <2>1, <2>2
<1> HIDE DEF counted, r2
<1>6. r \in UserType /\ r.CharIndex = 0 /\ r.in /\ r.Pos = p
  BY <1>4 DEF UserType, MapPos
<1>7. /\ IsWorld(counted) /\ counted.npc = s.npc /\ counted.tileNpc = s.tileNpc
      /\ counted.LastNPC = s.LastNPC /\ counted.pushed = s.pushed
      /\ counted.CharList = ForgetChar(s.CharList, o.CharIndex)
      /\ counted.tileUser = LeaveTile(s.tileUser, u, o.Pos)
      /\ counted.user = [s.user EXCEPT ![u] = r2] /\ counted.group = g2
      /\ counted.NumUsers = num
  BY <1>5 DEF Away
<1>8. counted.user[u] = r2 /\ [counted.user EXCEPT ![u] = r] = [s.user EXCEPT ![u] = r]
  <2> HIDE DEF r, o
  <2> QED BY <1>0, <1>7
<1>9. x = [counted EXCEPT !.user = [s.user EXCEPT ![u] = r]]
  BY <1>8
<1> HIDE DEF x, r, g2, num, o, old
<1>10. /\ IsWorld(x) /\ x.npc = s.npc /\ x.tileNpc = s.tileNpc /\ x.LastNPC = s.LastNPC
       /\ x.pushed = s.pushed /\ x.CharList = ForgetChar(s.CharList, o.CharIndex)
       /\ x.tileUser = LeaveTile(s.tileUser, u, o.Pos)
       /\ x.user = [s.user EXCEPT ![u] = r] /\ x.group = g2 /\ x.NumUsers = num
  BY <1>7, <1>9 DEF IsWorld
<1>11. CharsOK(x.CharList, x.user, x.npc)
  <2>1. CharsOK(ForgetChar(s.CharList, s.user[u].CharIndex), [s.user EXCEPT ![u] = r], s.npc)
    BY <1>0, <1>6, UserCharsQuit
  <2> QED BY <1>10, <2>1 DEF o
<1>12. /\ x.tileUser \in [Cells -> User \cup {0}]
       /\ \A c \in Cells : x.tileUser[c] \in {0, s.tileUser[c]}
       /\ (\A c \in Cells : s.tileUser[c] = u => c = UserCell(o.Pos))
             => \A c \in Cells : x.tileUser[c] # u
  <2> DEFINE left == LeaveTile(s.tileUser, u, o.Pos)
  <2>1. Left(left, s.tileUser, u, o.Pos)
    BY <1>0, Leaves
  <2> HIDE DEF left
  <2>2. x.tileUser = left
    BY <1>10 DEF left
  <2> QED BY <1>0, <2>1, <2>2 DEF Left
<1>13. /\ g1 \in [Maps -> [User -> Nat]]
       /\ \A m \in Maps, v \in User :
            g1[m][v] = IF m = old /\ v = u /\ s.group[m][v] > 0
                       THEN s.group[m][v] - 1 ELSE s.group[m][v]
  BY <1>0, Entries
<1> DEFINE g == QuitarEntry(g1, u, old)
<1> HIDE DEF g1
<1>14. /\ g \in [Maps -> [User -> Nat]]
       /\ \A m \in Maps, v \in User :
            g[m][v] = IF m = old /\ v = u /\ g1[m][v] > 0 THEN g1[m][v] - 1 ELSE g1[m][v]
  BY <1>13, Entries
<1> HIDE DEF g
<1>15. /\ AgregarEntry(g, u, p.map) \in [Maps -> [User -> Nat]]
       /\ \A m \in Maps, v \in User :
            AgregarEntry(g, u, p.map)[m][v] = IF m = p.map /\ v = u /\ g[m][v] = 0 THEN 1 ELSE g[m][v]
  BY <1>14, Entries
<1>16. g2 = IF old = p.map THEN g1 ELSE AgregarEntry(g, u, p.map)
  BY DEF g2, g
<1>17. x.group \in [Maps -> [User -> Nat]]
  BY <1>10, <1>13, <1>15, <1>16
<1>18. /\ num \in [Maps -> Nat]
       /\ s.NumUsers[old] > 0 => \A m \in Maps :
            num[m] = s.NumUsers[m] - (IF old = m THEN 1 ELSE 0) + (IF p.map = m THEN 1 ELSE 0)
  <2>1. CASE old = p.map
    <3>1. num = s.NumUsers
      BY <2>1 DEF num
    <3>2. \A m \in Maps : s.NumUsers[m] \in Nat
      BY <1>0
    <3> QED BY <1>0, <2>1, <3>1, <3>2
  <2>2. CASE old # p.map
    <3>1. num = [[s.NumUsers EXCEPT ![p.map] = s.NumUsers[p.map] + 1] EXCEPT
                    ![old] = IF s.NumUsers[old] > 0 THEN s.NumUsers[old] - 1 ELSE s.NumUsers[old]]
      BY <1>0, <2>2 DEF num, Recounted, CountIn, CountOut
    <3> QED BY <1>0, <2>2, <3>1
  <2> QED BY <2>1, <2>2
<1>19. ASSUME ~s.pushed
       PROVE  /\ \A c \in Cells : x.tileUser[c] # u
              /\ \A m \in Maps, v \in User :
                   IF v # u THEN x.group[m][v] = s.group[m][v]
                   ELSE x.group[m][v] \in IF m = r.Pos.map THEN {0, 1} ELSE {0}
              /\ \A m \in Maps :
                   x.NumUsers[m] = s.NumUsers[m]
                                   - (IF s.user[u].in /\ s.user[u].Pos.map = m THEN 1 ELSE 0)
                                   + (IF r.Pos.map = m THEN 1 ELSE 0)
  <2>1. UsersSound(s.user, s.tileUser, s.group, s.NumUsers)
    BY <1>19 DEF WorldOK
  <2>2. \A c \in Cells : s.tileUser[c] = u => c = UserCell(o.Pos)
    <3>1. u # 0
      BY DEF User
    <3> QED BY <2>1, <3>1 DEF UsersSound, o
  <2>3. ASSUME NEW m \in Maps, NEW v \in User
        PROVE  IF v # u THEN x.group[m][v] = s.group[m][v]
               ELSE x.group[m][v] \in IF m = r.Pos.map THEN {0, 1} ELSE {0}
    <3>1. s.group[m][v] = IF s.user[v].in /\ s.user[v].Pos.map = m THEN 1 ELSE 0
      BY <2>1 DEF UsersSound
    <3>2. v = u => s.group[m][v] = IF m = old THEN 1 ELSE 0
      BY <3>1 DEF old, o
    <3>3. /\ v # u => g1[m][v] = s.group[m][v] /\ g[m][v] = s.group[m][v]
          /\ v = u => g1[m][v] = 0 /\ g[m][v] = 0
      BY <1>13, <1>14, <3>1, <3>2
    <3>4. /\ v # u => AgregarEntry(g, u, p.map)[m][v] = s.group[m][v]
          /\ v = u => AgregarEntry(g, u, p.map)[m][v] = IF m = p.map THEN 1 ELSE 0
      BY <1>15, <3>3
    <3> QED BY <1>6, <1>10, <1>16, <3>3, <3>4
  <2>4. s.NumUsers[old] > 0
    <3> DEFINE A == {v \in User : s.user[v].in /\ s.user[v].Pos.map = old}
    <3>1. s.NumUsers[old] = Cardinality(A)
      BY <1>0, <2>1 DEF UsersSound
    <3>2. u \in A /\ A \in SUBSET User
      BY DEF old, o
    <3> HIDE DEF A
    <3> QED BY <3>1, <3>2, Counts
  <2>5. ASSUME NEW m \in Maps
        PROVE  x.NumUsers[m] = s.NumUsers[m]
                                   - (IF s.user[u].in /\ s.user[u].Pos.map = m THEN 1 ELSE 0)
                                   + (IF r.Pos.map = m THEN 1 ELSE 0)
    BY <1>6, <1>10, <1>18, <2>4 DEF old, o
  <2> QED BY <1>12, <2>2, <2>3, <2>5
<1>20. WorldOK(MakeUserChar(x, u, r.Pos)) /\ MakeUserChar(x, u, r.Pos).user[u].in
  <2>1. x.NumUsers \in [Maps -> Nat] /\ r.Pos \in Tile
    BY <1>6, <1>10, <1>18
  <2> QED BY <1>6, <1>10, <1>11, <1>12, <1>17, <1>19, <2>1, Arrives
<1>21. WorldOK(t) /\ t.user[u].in
  BY <1>6, <1>20
<1> HIDE DEF t
<1>22. WorldOK(WarpMascotas(t, u))
  BY <1>21, WarpsPets DEF Keeps
<1> QED BY <1>1, <1>22

\* A step and the one back.
LEMMA Backs ==
  ASSUME NEW p \in Tile, NEW h \in Headings
  PROVE  /\ InvertHeading(h) \in Headings
         /\ Step(Step(p, h), InvertHeading(h)) = p /\ Step(p, h) # p
<1>1. p.x \in Int /\ p.y \in Int
  BY DEF Tile
<1>2. ASSUME NEW a \in Int, NEW b \in Int
      PROVE  /\ [[p EXCEPT !.x = a] EXCEPT !.x = b] = [p EXCEPT !.x = b]
             /\ [[p EXCEPT !.y = a] EXCEPT !.y = b] = [p EXCEPT !.y = b]
             /\ [p EXCEPT !.x = a].x = a /\ [p EXCEPT !.y = a].y = a
             /\ [p EXCEPT !.x = p.x] = p /\ [p EXCEPT !.y = p.y] = p
  BY DEF Tile
<1>3. CASE h = "NORTH"
  <2>1. Step(p, h) = [p EXCEPT !.y = p.y - 1] /\ InvertHeading(h) = "SOUTH"
    BY <1>3 DEF Step, InvertHeading
  <2>2. p.y - 1 \in Int /\ (p.y - 1) + 1 = p.y /\ p.y - 1 # p.y
    BY <1>1
  <2>3. Step(p, h).y = p.y - 1
    BY <1>1, <1>2, <2>1, <2>2
  <2>4. Step(Step(p, h), "SOUTH") = [Step(p, h) EXCEPT !.y = Step(p, h).y + 1]
    BY DEF Step
  <2>5. Step(Step(p, h), "SOUTH") = p
    <3>1. Step(p, h).y + 1 = p.y
      BY <2>2, <2>3
    <3>2. Step(Step(p, h), "SOUTH") = [[p EXCEPT !.y = p.y - 1] EXCEPT !.y = p.y]
      BY <2>1, <2>4, <3>1
    <3>3. [[p EXCEPT !.y = p.y - 1] EXCEPT !.y = p.y] = p
      BY <1>1, <1>2, <2>2
    <3> QED BY <3>2, <3>3
  <2>6. "SOUTH" \in Headings
    BY DEF Headings
  <2> QED BY <2>1, <2>2, <2>3, <2>5, <2>6
<1>4. CASE h = "SOUTH"
  <2>1. Step(p, h) = [p EXCEPT !.y = p.y + 1] /\ InvertHeading(h) = "NORTH"
    BY <1>4 DEF Step, InvertHeading
  <2>2. p.y + 1 \in Int /\ (p.y + 1) - 1 = p.y /\ p.y + 1 # p.y
    BY <1>1
  <2>3. Step(p, h).y = p.y + 1
    BY <1>1, <1>2, <2>1, <2>2
  <2>4. Step(Step(p, h), "NORTH") = [Step(p, h) EXCEPT !.y = Step(p, h).y - 1]
    BY DEF Step
  <2>5. Step(Step(p, h), "NORTH") = p
    <3>1. Step(p, h).y - 1 = p.y
      BY <2>2, <2>3
    <3>2. Step(Step(p, h), "NORTH") = [[p EXCEPT !.y = p.y + 1] EXCEPT !.y = p.y]
      BY <2>1, <2>4, <3>1
    <3>3. [[p EXCEPT !.y = p.y + 1] EXCEPT !.y = p.y] = p
      BY <1>1, <1>2, <2>2
    <3> QED BY <3>2, <3>3
  <2>6. "NORTH" \in Headings
    BY DEF Headings
  <2> QED BY <2>1, <2>2, <2>3, <2>5, <2>6
<1>5. CASE h = "EAST"
  <2>1. Step(p, h) = [p EXCEPT !.x = p.x + 1] /\ InvertHeading(h) = "WEST"
    BY <1>5 DEF Step, InvertHeading
  <2>2. p.x + 1 \in Int /\ (p.x + 1) - 1 = p.x /\ p.x + 1 # p.x
    BY <1>1
  <2>3. Step(p, h).x = p.x + 1
    BY <1>1, <1>2, <2>1, <2>2
  <2>4. Step(Step(p, h), "WEST") = [Step(p, h) EXCEPT !.x = Step(p, h).x - 1]
    BY DEF Step
  <2>5. Step(Step(p, h), "WEST") = p
    <3>1. Step(p, h).x - 1 = p.x
      BY <2>2, <2>3
    <3>2. Step(Step(p, h), "WEST") = [[p EXCEPT !.x = p.x + 1] EXCEPT !.x = p.x]
      BY <2>1, <2>4, <3>1
    <3>3. [[p EXCEPT !.x = p.x + 1] EXCEPT !.x = p.x] = p
      BY <1>1, <1>2, <2>2
    <3> QED BY <3>2, <3>3
  <2>6. "WEST" \in Headings
    BY DEF Headings
  <2> QED BY <2>1, <2>2, <2>3, <2>5, <2>6
<1>6. CASE h = "WEST"
  <2>1. Step(p, h) = [p EXCEPT !.x = p.x - 1] /\ InvertHeading(h) = "EAST"
    BY <1>6 DEF Step, InvertHeading
  <2>2. p.x - 1 \in Int /\ (p.x - 1) + 1 = p.x /\ p.x - 1 # p.x
    BY <1>1
  <2>3. Step(p, h).x = p.x - 1
    BY <1>1, <1>2, <2>1, <2>2
  <2>4. Step(Step(p, h), "EAST") = [Step(p, h) EXCEPT !.x = Step(p, h).x + 1]
    BY DEF Step
  <2>5. Step(Step(p, h), "EAST") = p
    <3>1. Step(p, h).x + 1 = p.x
      BY <2>2, <2>3
    <3>2. Step(Step(p, h), "EAST") = [[p EXCEPT !.x = p.x - 1] EXCEPT !.x = p.x]
      BY <2>1, <2>4, <3>1
    <3>3. [[p EXCEPT !.x = p.x - 1] EXCEPT !.x = p.x] = p
      BY <1>1, <1>2, <2>2
    <3> QED BY <3>2, <3>3
  <2>6. "EAST" \in Headings
    BY DEF Headings
  <2> QED BY <2>1, <2>2, <2>3, <2>5, <2>6
<1> QED BY <1>3, <1>4, <1>5, <1>6 DEF Headings

\* A user is put on the tile p, with the area a.
Put(s, u, p, a) ==
  [s EXCEPT !.tileUser = [LeaveTile(@, u, s.user[u].Pos) EXCEPT ![UserCell(p)] = u],
            !.user[u].Pos = p, !.user[u].Area = a]

LEMMA Puts ==
  ASSUME NEW s, WorldOK(s), NEW u \in User, s.user[u].in, NEW p \in Tile, NEW a \in AreaType,
         ~s.pushed => a = AreaOf(p) /\ p.map = s.user[u].Pos.map
  PROVE  LET t == Put(s, u, p, a)
         IN  /\ WorldOK(t) /\ t.pushed = s.pushed
             /\ t.user[u].in /\ t.user[u].Pos = p
             /\ \A v \in User \ {u} : t.user[v] = s.user[v]
<1> DEFINE o == s.user[u]
           q == [o EXCEPT !.Pos = p]
           r == [q EXCEPT !.Area = a]
           left == LeaveTile(s.tileUser, u, o.Pos)
           t == Put(s, u, p, a)
           a1 == [s EXCEPT !.tileUser = [left EXCEPT ![UserCell(p)] = u]]
           a2 == [a1 EXCEPT !.user[u].Pos = p]
           a3 == [a2 EXCEPT !.user[u].Area = a]
<1>0. /\ IsWorld(s) /\ s.user \in [User -> UserType] /\ o \in UserType /\ o.Pos \in Tile
      /\ UsersOK(s.user, s.tileUser, s.group, s.NumUsers)
      /\ CharsOK(s.CharList, s.user, s.npc) /\ s.NumUsers \in [Maps -> Nat]
      /\ s.group \in [Maps -> [User -> Nat]] /\ s.tileUser \in [Cells -> User \cup {0}]
      /\ UserCell(p) \in Cells /\ u # 0
  <2>1. IsWorld(s) /\ UsersOK(s.user, s.tileUser, s.group, s.NumUsers)
        /\ CharsOK(s.CharList, s.user, s.npc)
    BY DEF WorldOK
  <2>2. s.user \in [User -> UserType] /\ o.Pos \in Tile
    BY <2>1 DEF UsersOK
  <2>3. UserCell(p) \in Cells /\ u # 0
    BY CellsOf DEF User
  <2> QED BY <2>1, <2>2, <2>3 DEF UsersOK
<1>1. t = a3
  BY DEF Put
<1> HIDE DEF left, t
<1>2. /\ IsWorld(a1) /\ a1.npc = s.npc /\ a1.tileNpc = s.tileNpc /\ a1.LastNPC = s.LastNPC
      /\ a1.pushed = s.pushed /\ a1.CharList = s.CharList /\ a1.group = s.group
      /\ a1.NumUsers = s.NumUsers /\ a1.user = s.user
      /\ a1.tileUser = [left EXCEPT ![UserCell(p)] = u]
  BY <1>0 DEF IsWorld
<1> HIDE DEF a1
<1>3. /\ IsWorld(a2) /\ a2.npc = s.npc /\ a2.tileNpc = s.tileNpc /\ a2.LastNPC = s.LastNPC
      /\ a2.pushed = s.pushed /\ a2.CharList = s.CharList /\ a2.group = s.group
      /\ a2.NumUsers = s.NumUsers /\ a2.tileUser = a1.tileUser
      /\ a2.user = [s.user EXCEPT ![u] = q]
  BY <1>2 DEF IsWorld
<1>4. q \in UserType /\ q.in /\ q.Pos = p /\ q.CharIndex = o.CharIndex
  BY <1>0 DEF UserType, MapPos
<1> HIDE DEF a2, q
<1>5. r \in UserType /\ r.in /\ r.Pos = p /\ r.CharIndex = o.CharIndex /\ r.Area = a
  BY <1>4 DEF UserType
<1> HIDE DEF r
<1>6. a2.user[u] = q /\ [a2.user EXCEPT ![u] = r] = [s.user EXCEPT ![u] = r]
  <2> HIDE DEF o
  <2> QED BY <1>0, <1>3
<1>7. a3 = [a2 EXCEPT !.user = [s.user EXCEPT ![u] = r]]
  BY <1>6 DEF r
<1> HIDE DEF a3
<1>8. /\ IsWorld(t) /\ t.npc = s.npc /\ t.tileNpc = s.tileNpc /\ t.LastNPC = s.LastNPC
      /\ t.pushed = s.pushed /\ t.CharList = s.CharList /\ t.group = s.group
      /\ t.NumUsers = s.NumUsers /\ t.tileUser = [left EXCEPT ![UserCell(p)] = u]
      /\ t.user = [s.user EXCEPT ![u] = r]
  BY <1>1, <1>2, <1>3, <1>7 DEF IsWorld
<1>9. t.user[u] = r /\ \A v \in User \ {u} : t.user[v] = s.user[v]
  BY <1>0, <1>8
<1>10. CharsOK(t.CharList, t.user, t.npc)
  <2>1. \A v \in User : t.user[v].CharIndex = s.user[v].CharIndex
    BY <1>5, <1>9
  <2> QED BY <1>0, <1>8, <2>1, CharsSame
<1>11. Left(left, s.tileUser, u, o.Pos)
  BY <1>0, Leaves DEF left
<1>12. /\ t.tileUser \in [Cells -> User \cup {0}]
       /\ \A c \in Cells : t.tileUser[c] = IF c = UserCell(p) THEN u ELSE left[c]
       /\ \A c \in Cells : left[c] \in {0, s.tileUser[c]}
  BY <1>0, <1>8, <1>11 DEF Left
<1>13. UsersOK(t.user, t.tileUser, t.group, t.NumUsers)
  <2>1. \A c \in Cells : t.tileUser[c] \in {0, u, s.tileUser[c]}
    BY <1>12
  <2>2. UsersOK([s.user EXCEPT ![u] = r], t.tileUser, s.group, s.NumUsers)
    BY <1>0, <1>5, <1>12, <2>1, TypesGo
  <2> QED BY <1>8, <2>2
<1>14. ASSUME ~s.pushed PROVE UsersSound(t.user, t.tileUser, t.group, t.NumUsers)
  <2>1. UsersSound(s.user, s.tileUser, s.group, s.NumUsers)
    BY <1>14 DEF WorldOK
  <2>2. \A c \in Cells : left[c] # u
    <3>1. \A c \in Cells : s.tileUser[c] = u => c = UserCell(o.Pos)
      BY <1>0, <2>1 DEF UsersSound
    <3> QED BY <1>0, <1>11, <3>1 DEF Left
  <2>3. ASSUME NEW c \in Cells, t.tileUser[c] # 0
        PROVE  \/ t.tileUser[c] = u /\ c = UserCell(r.Pos)
               \/ t.tileUser[c] # u /\ t.tileUser[c] = s.tileUser[c]
    BY <1>5, <1>12, <2>2, <2>3
  <2>4. ASSUME NEW m \in Maps, NEW v \in User
        PROVE  s.group[m][v] = IF v = u THEN (IF m = r.Pos.map THEN 1 ELSE 0) ELSE s.group[m][v]
    <3>1. s.group[m][v] = IF s.user[v].in /\ s.user[v].Pos.map = m THEN 1 ELSE 0
      BY <2>1 DEF UsersSound
    <3> QED BY <1>5, <1>14, <3>1
  <2>5. ASSUME NEW m \in Maps
        PROVE  s.NumUsers[m] = s.NumUsers[m]
                                - (IF s.user[u].in /\ s.user[u].Pos.map = m THEN 1 ELSE 0)
                                + (IF r.Pos.map = m THEN 1 ELSE 0)
    <3>1. s.NumUsers[m] \in Nat
      BY <1>0
    <3> QED BY <1>5, <1>14, <3>1
  <2>6. Gone(s.user, s.tileUser, s.group, s.NumUsers, u, r, t.tileUser, s.group, s.NumUsers)
    BY <2>3, <2>4, <2>5 DEF Gone
  <2>7. r.Pos \in Tile /\ r.Area = AreaOf(r.Pos)
    BY <1>5, <1>14
  <2>8. UsersSound([s.user EXCEPT ![u] = r], t.tileUser, s.group, s.NumUsers)
    BY <1>0, <1>5, <1>12, <2>1, <2>6, <2>7, Goes
  <2> QED BY <1>8, <2>8
<1>15. WorldOK(t)
  BY <1>8, <1>10, <1>13, <1>14 DEF WorldOK
<1>16. WorldOK(t) /\ t.pushed = s.pushed /\ t.user[u].in /\ t.user[u].Pos = p
       /\ \A v \in User \ {u} : t.user[v] = s.user[v]
  BY <1>5, <1>8, <1>9, <1>15
<1> QED BY <1>16 DEF t

\* A user takes a step, and may exchange places with the one on the tile.
LEMMA Walks ==
  ASSUME NEW s, WorldOK(s), NEW u \in User, s.user[u].in, NEW h \in Headings
  PROVE  WorldOK(MoveUserChar(s, u, h))
<1> DEFINE from == s.user[u].Pos
           to == Step(from, h)
           v == s.tileUser[UserCell(to)]
           swaps == s.NumUsers[from.map] > 1 /\ v # 0 /\ ~s.user[u].AdminInvisible
           b == CheckUpdateNeeded(s.user[v].Area, from, InvertHeading(h))
           swapped == IF swaps THEN Put(s, v, from, b) ELSE s
           stays == s.user[u].AdminInvisible /\ v # 0
           a == CheckUpdateNeeded(swapped.user[u].Area, to, h)
           t == [swapped EXCEPT !.tileUser = [LeaveTile(@, u, from) EXCEPT ![UserCell(to)] = u],
                                !.user[u].Pos = to, !.user[u].Area = a]
<1>0. /\ s.user[u] \in UserType /\ from \in Tile /\ s.pushed \in BOOLEAN
      /\ UsersOK(s.user, s.tileUser, s.group, s.NumUsers)
  BY DEF WorldOK, UsersOK
<1>1. Swap(s, u, v, h) = Put(s, v, from, b)
  BY DEF Swap, Put
<1>2. MoveUserChar(s, u, h) = IF ~MoveToLegalPos(s, to) \/ stays THEN s ELSE t
  BY <1>1 DEF MoveUserChar
<1>3. CASE ~MoveToLegalPos(s, to) \/ stays
  BY <1>2, <1>3
<1>4. CASE MoveToLegalPos(s, to) /\ ~stays
  <2>1. to \in Tile
    BY <1>4 DEF MoveToLegalPos, InMapBounds
  <2>2. /\ InvertHeading(h) \in Headings /\ Step(to, InvertHeading(h)) = from /\ to # from
        /\ to.map = from.map
    BY <1>0, <2>1, Backs, StepIs
  <2>3. CheckUpdateNeeded(AreaOf(from), to, h) = AreaOf(to)
        /\ CheckUpdateNeeded(AreaOf(to), from, InvertHeading(h)) = AreaOf(from)
    BY <1>0, <2>1, <2>2, Stepped
  <2>4. ~s.pushed => s.user[u].Area = AreaOf(from)
    BY DEF WorldOK, UsersSound
  <2> HIDE DEF from, to, swaps
  <2>5. /\ WorldOK(swapped) /\ swapped.pushed = s.pushed
        /\ swapped.user[u].in /\ swapped.user[u].Pos = from
        /\ ~s.pushed => swapped.user[u].Area = AreaOf(from)
    <3>1. CASE ~swaps
      BY <2>4, <3>1 DEF from
    <3>2. CASE swaps
      <4>1. v \in User /\ s.user[v].in /\ s.user[v].Pos \in Tile /\ s.user[v].Area \in AreaType
        <5>1. v \in User /\ s.user[v].in /\ s.user[v].Pos \in Tile
          BY <2>1, <3>2, CellsOf, OnTile DEF swaps
        <5>2. s.user[v] \in UserType
          BY <1>0, <5>1 DEF UsersOK
        <5> QED BY <5>1, <5>2 DEF UserType
      <4>2. ~s.pushed => s.user[v].Pos = to /\ s.user[v].Area = AreaOf(to)
        <5> SUFFICES ASSUME ~s.pushed PROVE s.user[v].Pos = to /\ s.user[v].Area = AreaOf(to)
          OBVIOUS
        <5>1. UsersSound(s.user, s.tileUser, s.group, s.NumUsers)
          BY DEF WorldOK
        <5>2. UserCell(to) = UserCell(s.user[v].Pos) /\ s.user[v].Area = AreaOf(s.user[v].Pos)
          BY <2>1, <3>2, <4>1, <5>1, CellsOf DEF UsersSound, swaps
        <5>3. s.user[v].Pos = to
          BY <2>1, <4>1, <5>2, UserCells
        <5> QED BY <5>2, <5>3
      <4> HIDE DEF v
      <4>3. b \in AreaType
        BY <1>0, <2>2, <4>1, StaysArea DEF from
      <4>4. ~s.pushed => b = AreaOf(from) /\ from.map = s.user[v].Pos.map
        BY <2>2, <2>3, <4>2
      <4>5. ~s.pushed => v # u
        BY <2>2, <4>2 DEF from
      <4> HIDE DEF b
      <4>6. from \in Tile
        BY <1>0 DEF from
      <4>7. /\ WorldOK(Put(s, v, from, b)) /\ Put(s, v, from, b).pushed = s.pushed
            /\ Put(s, v, from, b).user[v].in /\ Put(s, v, from, b).user[v].Pos = from
            /\ \A w \in User \ {v} : Put(s, v, from, b).user[w] = s.user[w]
        BY <4>1, <4>3, <4>4, <4>6, Puts
      <4>8. swapped = Put(s, v, from, b)
        BY <3>2
      <4> HIDE DEF swapped
      <4>9. CASE v = u
        BY <4>5, <4>7, <4>8, <4>9
      <4>10. CASE v # u
        BY <2>4, <4>7, <4>8, <4>10 DEF from
      <4> QED BY <4>9, <4>10
    <3> QED BY <3>1, <3>2
  <2> HIDE DEF swapped
  <2>6. t = Put(swapped, u, to, a)
    BY <2>5 DEF Put
  <2>7. a \in AreaType
    <3>1. swapped.user[u] \in UserType
      BY <2>5 DEF WorldOK, UsersOK
    <3>2. swapped.user[u].Area \in AreaType
      BY <3>1 DEF UserType
    <3> QED BY <2>1, <3>2, StaysArea
  <2>8. ~swapped.pushed => a = AreaOf(to) /\ to.map = swapped.user[u].Pos.map
    BY <2>2, <2>3, <2>5
  <2> HIDE DEF a, t
  <2>9. WorldOK(Put(swapped, u, to, a))
    BY <2>1, <2>5, <2>7, <2>8, Puts
  <2> QED BY <1>2, <1>4, <2>6, <2>9
<1> QED BY <1>3, <1>4

-------------------------------------------------------------------------------
(* The invariant of World *)

\* What every state is: a world in order.
IInv == WorldOK(world)

LEMMA WorldIs ==
  /\ IsWorld(world) /\ world.user = user /\ world.npc = npc /\ world.CharList = CharList
  /\ world.tileUser = tileUser /\ world.tileNpc = tileNpc /\ world.group = group
  /\ world.NumUsers = NumUsers /\ world.LastNPC = LastNPC /\ world.pushed = pushed
BY DEF world, IsWorld

\* The start is in order.
LEMMA InitIInv == Init => IInv
<1> SUFFICES ASSUME Init PROVE WorldOK(world)
  BY DEF IInv
<1>0. /\ MAXCHARS \in Nat /\ MAXNPCS \in Nat /\ MAXMASCOTAS \in Nat /\ 0 \in 0..MAXNPCS
      /\ 0 \in 0..MAXCHARS /\ 0 \in Kinds \cup {0} /\ NoPos \in MapPos
  BY AreasAssumption DEF MapPos
<1>1. PICK st \in Statuses : user = [u \in User |-> OutUser(st[u])]
  BY DEF Init
<1>2. st \in [User -> [Muerto : BOOLEAN, AdminInvisible : BOOLEAN]]
  BY <1>1, WorldAssumption
<1>3. ASSUME NEW u \in User
      PROVE  user[u] \in UserType /\ ~user[u].in /\ user[u].Pos = NoPos /\ user[u].CharIndex = 0
  <2>1. user[u] = OutUser(st[u]) /\ st[u].Muerto \in BOOLEAN /\ st[u].AdminInvisible \in BOOLEAN
    BY <1>1, <1>2
  <2>2. NoArea \in AreaType
    BY NoNpcIs
  <2>3. [i \in 0..MAXMASCOTAS |-> 0] \in [0..MAXMASCOTAS -> 0..MAXNPCS]
        /\ [i \in 0..MAXMASCOTAS |-> 0] \in [0..MAXMASCOTAS -> Kinds \cup {0}]
    BY <1>0
  <2> DEFINE none == [i \in 0..MAXMASCOTAS |-> 0]
  <2>4. ASSUME NEW a \in BOOLEAN, NEW b \in BOOLEAN
        PROVE  [in |-> FALSE, Pos |-> NoPos, CharIndex |-> 0, Area |-> NoArea, Muerto |-> a,
                AdminInvisible |-> b, NroMascotas |-> 0, MascotasIndex |-> none,
                MascotasType |-> none] \in UserType
    <3> HIDE DEF none, NoPos, NoArea
    <3> QED BY <1>0, <2>2, <2>3 DEF UserType, none
  <2>5. OutUser(st[u]) \in UserType
    BY <2>1, <2>4 DEF OutUser
  <2> QED BY <2>1, <2>5 DEF OutUser
<1>4. user \in [User -> UserType]
  BY <1>1, <1>3
<1>5. npc = [n \in Npc |-> NoNpc] /\ npc \in [Npc -> NpcType]
  BY NoNpcIs DEF Init
<1>6. TableOK(npc, tileNpc, LastNPC)
  <2>1. tileNpc \in [Cells -> 0..MAXNPCS] /\ \A c \in Cells : tileNpc[c] = 0
    BY <1>0 DEF Init
  <2>2. LastIs(npc, LastNPC)
    BY <1>0, <1>5, NoNpcIs DEF Init, LastIs
  <2>3. TilesAre(npc, tileNpc)
    BY <2>1 DEF TilesAre
  <2> QED BY <1>5, <2>2, <2>3 DEF TableOK
<1>7. CharsOK(CharList, user, npc)
  <2>1. CharList \in [1..MAXCHARS -> User \cup Npc \cup {0}] /\ \A c \in 1..MAXCHARS : CharList[c] = 0
    BY DEF Init
  <2>2. \A n \in Npc : npc[n].CharIndex = 0
    BY <1>5, NoNpcIs
  <2>3. 0 \notin 1..MAXCHARS
    BY <1>0
  <2> QED BY <1>3, <2>1, <2>2, <2>3 DEF CharsOK
<1>8. /\ tileUser \in [Cells -> User \cup {0}] /\ \A c \in Cells : tileUser[c] = 0
      /\ group \in [Maps -> [User -> Nat]] /\ \A m \in Maps, u \in User : group[m][u] = 0
      /\ NumUsers \in [Maps -> Nat] /\ \A m \in Maps : NumUsers[m] = 0
  BY DEF Init
<1>9. UsersOK(user, tileUser, group, NumUsers)
  BY <1>3, <1>4, <1>8 DEF UsersOK
<1>10. UsersSound(user, tileUser, group, NumUsers)
  <2>1. ASSUME NEW m \in Maps
        PROVE  NumUsers[m] = Cardinality({u \in User : user[u].in /\ user[u].Pos.map = m})
    <3>1. {u \in User : user[u].in /\ user[u].Pos.map = m} = {}
      BY <1>3
    <3> QED BY <1>8, <3>1, FS_EmptySet
  <2> QED BY <1>3, <1>8, <2>1 DEF UsersSound
<1>11. pushed \in BOOLEAN
  BY DEF Init
<1> QED BY <1>6, <1>7, <1>9, <1>10, <1>11, WorldIs DEF WorldOK

\* A step to a world in order leaves the state in order.
LEMMA BecomesOK ==
  ASSUME NEW s, WorldOK(s), Become(s)
  PROVE  WorldOK(world')
<1>1. IsWorld(s)
  BY DEF WorldOK
<1>2. world' = s
  BY <1>1 DEF Become, world, IsWorld
<1> QED BY <1>2

\* The actions that are one call: who enters, is warped or walks; who is born, moves
\* or dies; and who is tamed or let go.
LEMMA EnterOK ==
  ASSUME IInv, NEW u \in User, NEW p \in Starts, Enter(u, p)
  PROVE  WorldOK(world')
<1>1. WorldOK(world) /\ ~world.user[u].in /\ p \in Tile
  BY WorldIs, WorldAssumption DEF IInv, Enter
<1> DEFINE s == MakeUserChar([world EXCEPT !.user[u].in = TRUE, !.user[u].Pos = p,
                                           !.NumUsers[p.map] = CountIn(@)], u, p)
<1>2. WorldOK(s)
  BY <1>1, Enters
<1>3. Become(s)
  BY DEF Enter
<1> HIDE DEF s
<1> QED BY <1>2, <1>3, BecomesOK

LEMMA WarpOK ==
  ASSUME IInv, NEW u \in User, NEW p \in Warps, Warp(u, p)
  PROVE  WorldOK(world')
<1>1. WorldOK(world) /\ world.user[u].in /\ p \in Tile
  BY WorldIs, WorldAssumption DEF IInv, Warp
<1> DEFINE s == WarpUserChar(world, u, p)
<1>2. WorldOK(s)
  BY <1>1, WarpsUser
<1>3. Become(s)
  BY DEF Warp
<1> HIDE DEF s
<1> QED BY <1>2, <1>3, BecomesOK

LEMMA WalkOK ==
  ASSUME IInv, NEW u \in User, NEW h \in Headings, Walk(u, h)
  PROVE  WorldOK(world')
<1>1. WorldOK(world) /\ world.user[u].in
  BY WorldIs DEF IInv, Walk
<1> DEFINE s == MoveUserChar(world, u, h)
<1>2. WorldOK(s)
  BY <1>1, Walks
<1>3. Become(s)
  BY DEF Walk
<1> HIDE DEF s
<1> QED BY <1>2, <1>3, BecomesOK

LEMMA BirthOK ==
  ASSUME IInv, NEW b \in Births, Birth(b)
  PROVE  WorldOK(world')
<1>1. /\ WorldOK(world) /\ b.kind \in Kinds \cup {0} /\ b.orig.map \in Maps
      /\ b.orig \in Origins
  BY WorldAssumption DEF IInv, Origins, Tile
<1>2. PICK s \in CrearNPC(world, b.kind, b.orig.map, b.orig) : Become(s)
  BY DEF Birth
<1>3. WorldOK(s)
  BY <1>1, Crears
<1> QED BY <1>2, <1>3, BecomesOK

LEMMA NpcMovesOK ==
  ASSUME IInv, NEW n \in Npc, NEW h \in Headings, NpcMoves(n, h)
  PROVE  WorldOK(world')
<1>1. WorldOK(world) /\ world.npc[n].NPCActive
  BY WorldIs DEF IInv, NpcMoves
<1> DEFINE s == MoveNPCChar(world, n, h)
<1>2. WorldOK(s)
  BY <1>1, Moves
<1>3. Become(s)
  BY DEF NpcMoves
<1> HIDE DEF s
<1> QED BY <1>2, <1>3, BecomesOK

LEMMA NpcDiesOK ==
  ASSUME IInv, NEW n \in Npc, NpcDies(n)
  PROVE  WorldOK(world')
<1>1. WorldOK(world) /\ WorldOK(QuitarNPC(world, n))
  BY Quits DEF IInv
<1>2. Living(npc[n])
  <2>1. TableOK(npc, tileNpc, LastNPC)
    BY <1>1, WorldIs DEF WorldOK
  <2> QED BY <2>1, OfTable DEF NpcDies
<1>3. PICK s \in IF npc[n].MaestroUser = 0 THEN ReSpawnNpc(QuitarNPC(world, n), npc[n])
                 ELSE {QuitarNPC(world, n)} : Become(s)
  BY DEF NpcDies
<1>4. WorldOK(s)
  <2>1. CASE npc[n].MaestroUser = 0
    <3>1. s \in ReSpawnNpc(QuitarNPC(world, n), npc[n])
      BY <1>3, <2>1
    <3> QED BY <1>1, <1>2, <3>1, ReSpawns
  <2>2. CASE npc[n].MaestroUser # 0
    BY <1>1, <1>3, <2>2
  <2> QED BY <2>1, <2>2
<1> QED BY <1>3, <1>4, BecomesOK

\* The count of pets is a number.
LEMMA PetsCounted ==
  ASSUME WorldOK(world), NEW u \in User
  PROVE  /\ user[u] \in UserType /\ user[u].NroMascotas \in Int
         /\ user[u].MascotasIndex \in [0..MAXMASCOTAS -> 0..MAXNPCS]
<1>1. user \in [User -> UserType]
  BY WorldIs DEF WorldOK, UsersOK
<1>2. user[u] \in UserType
  BY <1>1
<1> QED BY <1>2 DEF UserType

LEMMA DoDomarOK ==
  ASSUME IInv, NEW u \in User, NEW n \in Npc, DoDomar(u, n)
  PROVE  WorldOK(world')
<1> DEFINE i == FreeMascotaIndex(user[u])
           k == user[u].NroMascotas + 1
           tamed == [world EXCEPT !.user[u].NroMascotas = k, !.user[u].MascotasIndex[i] = n,
                                  !.user[u].MascotasType[i] = world.npc[n].Numero,
                                  !.npc[n].MaestroUser = u]
           same == [world EXCEPT !.user[u].NroMascotas = @ + 1, !.user[u].MascotasIndex[i] = n,
                                 !.user[u].MascotasType[i] = npc[n].Numero,
                                 !.npc[n].MaestroUser = u]
<1>1. WorldOK(world) /\ world.npc[n].NPCActive /\ world.npc[n].Pos.map = user[u].Pos.map
  BY Zenon, WorldIs DEF IInv, DoDomar
<1>2. i \in 0..MAXMASCOTAS
  <2>1. {j \in Pets : user[u].MascotasType[j] = 0} \in SUBSET Pets
    OBVIOUS
  <2> QED BY <2>1, Places DEF FreeMascotaIndex
<1>3. k \in Int
  BY <1>1, PetsCounted
<1>4. (world.npc[n].Pos.map \in Pk => WorldOK(tamed)) /\ WorldOK(QuitarNPC(tamed, n))
  <2> HIDE DEF i, k
  <2> QED BY <1>1, <1>2, <1>3, Tames
<1>5. same = tamed
  <2>1. world.user[u].NroMascotas + 1 = k /\ npc[n].Numero = world.npc[n].Numero
    BY WorldIs
  <2> HIDE DEF i, k, world
  <2> QED BY <2>1
<1>6. Become(IF CanStay(u) THEN same ELSE QuitarNPC(same, n))
  BY Zenon DEF DoDomar
<1> HIDE DEF same, tamed
<1>7. CASE CanStay(u)
  <2>1. world.npc[n].Pos.map \in Pk
    BY <1>1, <1>7 DEF CanStay
  <2> QED BY <1>4, <1>5, <1>6, <1>7, <2>1, BecomesOK
<1>8. CASE ~CanStay(u)
  BY <1>4, <1>5, <1>6, <1>8, BecomesOK
<1> QED BY <1>7, <1>8

LEMMA ReleaseOK ==
  ASSUME IInv, NEW u \in User, NEW n \in Npc, Release(u, n)
  PROVE  WorldOK(world')
<1> DEFINE i == Lowest({j \in Pets : user[u].MascotasIndex[j] = n}, 0)
           k == IF user[u].NroMascotas > 0 THEN user[u].NroMascotas - 1 ELSE user[u].NroMascotas
           t == [world EXCEPT !.user[u].NroMascotas = k, !.user[u].MascotasIndex[i] = 0,
                              !.user[u].MascotasType[i] = 0]
           same == [world EXCEPT !.user[u].NroMascotas = IF @ > 0 THEN @ - 1 ELSE @,
                                 !.user[u].MascotasIndex[i] = 0, !.user[u].MascotasType[i] = 0]
<1>1. WorldOK(world)
  BY DEF IInv
<1>2. i \in 0..MAXMASCOTAS
  <2>1. {j \in Pets : user[u].MascotasIndex[j] = n} \in SUBSET Pets
    OBVIOUS
  <2> QED BY <2>1, Places
<1>3. k \in Int
  BY <1>1, PetsCounted
<1>4. WorldOK(QuitarNPC(t, n))
  <2> HIDE DEF i, k
  <2> QED BY <1>1, <1>2, <1>3, Releases
<1>5. same = t
  <2>1. (IF world.user[u].NroMascotas > 0 THEN world.user[u].NroMascotas - 1
         ELSE world.user[u].NroMascotas) = k
    BY WorldIs
  <2> HIDE DEF i, k, world
  <2> QED BY <2>1
<1>6. Become(QuitarNPC(same, n))
  BY Zenon DEF Release
<1> HIDE DEF same, t
<1> QED BY <1>4, <1>5, <1>6, BecomesOK

LEMMA CallPetOK ==
  ASSUME IInv, NEW u \in User, NEW p \in Warps, CallPet(u, p)
  PROVE  WorldOK(world')
<1> DEFINE i == FarthestPet(world, u)
           s == WarpMascota(world, u, i, p)
<1>1. WorldOK(world) /\ p \in Tile
  BY WorldAssumption DEF IInv
<1>2. p.map \in Pk /\ i > 0 /\ Become(s)
  BY Zenon DEF CallPet
<1>3. i \in 0..MAXMASCOTAS
  <2> DEFINE abs(x) == IF x < 0 THEN 0 - x ELSE x
             Dist(j) == LET q == world.npc[world.user[u].MascotasIndex[j]].Pos
                        IN  abs(world.user[u].Pos.x - q.x) + abs(world.user[u].Pos.y - q.y)
             tame == {j \in Pets : world.user[u].MascotasIndex[j] > 0
                                   /\ ~world.npc[world.user[u].MascotasIndex[j]].Invocado}
             far == {j \in tame : \A l \in tame : Dist(l) <= Dist(j)}
  <2>1. i = IF world.user[u].NroMascotas = 0 THEN 0 ELSE Lowest(far, 0)
    BY Zenon DEF FarthestPet
  <2>2. tame \in SUBSET Pets
    OBVIOUS
  <2> HIDE DEF tame, Dist
  <2>3. far \in SUBSET Pets
    BY <2>2
  <2> HIDE DEF far, i
  <2>4. Lowest(far, 0) \in 0..MAXMASCOTAS /\ 0 \in 0..MAXMASCOTAS
    BY <2>3, Places, AreasAssumption
  <2> QED BY <2>1, <2>4
<1>4. WorldOK(s)
  <2> HIDE DEF i
  <2> QED BY <1>1, <1>2, <1>3, WarpsPet
<1> HIDE DEF s
<1> QED BY <1>2, <1>4, BecomesOK

LEMMA SummonOK ==
  ASSUME IInv, NEW u \in User, NEW kind \in Invocables, NEW p \in Warps, Summon(u, kind, p)
  PROVE  WorldOK(world')
<1> DEFINE me == user[u]
           b == SpawnNpc(world, kind, p, FALSE)
           n == b.npc
           w == b.world
           i == IF FreeMascotaIndex(me) > 0 THEN FreeMascotaIndex(me)
                ELSE Lowest({j \in Pets : me.MascotasIndex[j] = 0}, 0)
           k == me.NroMascotas + 1
           taken == [w EXCEPT !.user[u].NroMascotas = k, !.npc[n].MaestroUser = u,
                              !.npc[n].Invocado = TRUE]
           placed == [taken EXCEPT !.user[u].MascotasIndex[i] = n,
                                   !.user[u].MascotasType[i] = kind]
           same == [w EXCEPT !.user[u].NroMascotas = @ + 1, !.npc[n].MaestroUser = u,
                             !.npc[n].Invocado = TRUE]
           both == [same EXCEPT !.user[u].MascotasIndex[i] = n,
                                !.user[u].MascotasType[i] = kind]
<1>1. WorldOK(world) /\ p \in Tile /\ kind \in Kinds
  BY WorldAssumption DEF IInv
<1>2. p.map \in Pk /\ Become(IF n = 0 THEN w ELSE IF i = 0 THEN same ELSE both)
  BY Zenon DEF Summon
<1>3. /\ WorldOK(w) /\ SameUsers(w, world)
      /\ \/ n = 0 /\ w = world
         \/ n \in Npc /\ Birthed(w, world, n, p.map)
  <2>1. p.x \in Int /\ p.y \in Int
    BY <1>1, AreasAssumption DEF Tile
  <2>2. FALSE \in BOOLEAN /\ kind \in Kinds \cup {0}
    BY <1>1
  <2> QED BY <1>1, <2>1, <2>2, Spawns
<1>4. i \in 0..MAXMASCOTAS
  <2>1. /\ {j \in Pets : me.MascotasType[j] = 0} \in SUBSET Pets
        /\ {j \in Pets : me.MascotasIndex[j] = 0} \in SUBSET Pets
    OBVIOUS
  <2>2. FreeMascotaIndex(me) \in 0..MAXMASCOTAS
    BY <2>1, Places DEF FreeMascotaIndex
  <2>3. Lowest({j \in Pets : me.MascotasIndex[j] = 0}, 0) \in 0..MAXMASCOTAS
    BY <2>1, Places
  <2> QED BY <2>2, <2>3
<1>5. k \in Int
  BY <1>1, PetsCounted
<1>6. w.user[u].NroMascotas + 1 = k
  BY <1>3, WorldIs DEF SameUsers
<1>7. same = taken
  <2> HIDE DEF k, w, n
  <2> QED BY <1>6
<1>8. CASE n = 0
  <2>1. Become(w)
    BY <1>2, <1>8
  <2> HIDE DEF w
  <2> QED BY <1>3, <2>1, BecomesOK
<1>9. CASE n # 0
  <2>1. n \in Npc /\ Birthed(w, world, n, p.map)
    BY <1>3, <1>9
  <2>2. w.npc[n].NPCActive /\ w.npc[n].Pos.map \in Pk
    <3> HIDE DEF n, w
    <3> QED BY <1>1, <1>2, <1>3, <2>1, Born
  <2>3. WorldOK(taken) /\ WorldOK(placed)
    <3> HIDE DEF n, w, k, i
    <3> QED BY <1>1, <1>3, <1>4, <1>5, <2>1, <2>2, Summons
  <2>4. both = placed
    <3> HIDE DEF same, taken, n, i
    <3> QED BY <1>7
  <2>5. Become(IF i = 0 THEN taken ELSE placed)
    BY <1>2, <1>7, <1>9, <2>4
  <2> HIDE DEF taken, placed, i
  <2> QED BY <2>3, <2>5, BecomesOK
<1> QED BY <1>8, <1>9

\* Every step leaves the world in order.
LEMMA NextIInv == IInv /\ [Next]_vars => IInv'
<1> SUFFICES ASSUME IInv, [Next]_vars PROVE IInv'
  OBVIOUS
<1> SUFFICES WorldOK(world')
  BY DEF IInv, WorldOK, IsWorld, TableOK, LastIs, TilesAre, CharsOK, UsersOK, UsersSound
<1>1. CASE UNCHANGED vars
  <2>1. world' = world
    BY <1>1 DEF vars, world
  <2> QED BY <2>1 DEF IInv
<1>2. ASSUME NEW u \in User, NEW p \in Starts, Enter(u, p) PROVE WorldOK(world')
  BY <1>2, EnterOK
<1>3. ASSUME NEW u \in User, NEW p \in Warps, Warp(u, p) PROVE WorldOK(world')
  BY <1>3, WarpOK
<1>4. ASSUME NEW u \in User, NEW h \in Headings, Walk(u, h) PROVE WorldOK(world')
  BY <1>4, WalkOK
<1>5. ASSUME NEW u \in User, NEW n \in Npc, DoDomar(u, n) PROVE WorldOK(world')
  BY <1>5, DoDomarOK
<1>6. ASSUME NEW u \in User, NEW n \in Npc, Release(u, n) PROVE WorldOK(world')
  BY <1>6, ReleaseOK
<1>7. ASSUME NEW u \in User, NEW p \in Warps, CallPet(u, p) PROVE WorldOK(world')
  BY <1>7, CallPetOK
<1>8. ASSUME NEW u \in User, NEW p \in Warps, NEW k \in Invocables, Summon(u, k, p)
      PROVE  WorldOK(world')
  BY <1>8, SummonOK
<1>9. ASSUME NEW n \in Npc, NpcDies(n) PROVE WorldOK(world')
  BY <1>9, NpcDiesOK
<1>10. ASSUME NEW n \in Npc, NEW h \in Headings, NpcMoves(n, h) PROVE WorldOK(world')
  BY <1>10, NpcMovesOK
<1>11. ASSUME NEW b \in Births, Birth(b) PROVE WorldOK(world')
  BY <1>11, BirthOK
<1> QED BY Zenon, <1>1, <1>2, <1>3, <1>4, <1>5, <1>6, <1>7, <1>8, <1>9, <1>10, <1>11 DEF Next

-------------------------------------------------------------------------------
(* The theorems *)

\* Every world that handlers leave is in order: the table of NPCs, CharList, the tiles,
\* the groups, the counts and the areas, of users as long as no NPC pushed one.
THEOREM WorldInvariant == Spec => []IInv
BY InitIInv, NextIInv, PTL DEF Spec

\* The parts of a world in order, of the variables.
LEMMA InOrder ==
  ASSUME IInv
  PROVE  /\ TableOK(npc, tileNpc, LastNPC) /\ CharsOK(CharList, user, npc)
         /\ UsersOK(user, tileUser, group, NumUsers) /\ pushed \in BOOLEAN
         /\ pushed \/ UsersSound(user, tileUser, group, NumUsers)
BY WorldIs DEF IInv, WorldOK

LEMMA TypesOK == IInv => TypeOK
<1> SUFFICES ASSUME IInv PROVE TypeOK
  OBVIOUS
<1>1. /\ MaxUsers \in Nat /\ MAXNPCS \in Nat /\ MAXCHARS \in Nat
      /\ User = 1..MaxUsers /\ Npc = 1..MAXNPCS
  BY AreasAssumption DEF User, Npc
<1>2. CharList \in [1..MAXCHARS -> 0..Max({MaxUsers, MAXNPCS})]
  <2>1. PICK b \in Nat : MaxUsers <= b /\ MAXNPCS <= b
    BY <1>1
  <2>2. {MaxUsers, MAXNPCS} \in SUBSET (0..b) /\ {MaxUsers, MAXNPCS} # {}
    BY <1>1, <2>1
  <2>3. /\ Max({MaxUsers, MAXNPCS}) \in {MaxUsers, MAXNPCS}
        /\ \A k \in {MaxUsers, MAXNPCS} : k <= Max({MaxUsers, MAXNPCS})
    BY <2>1, <2>2, MaxIs
  <2> DEFINE x == Max({MaxUsers, MAXNPCS})
  <2>4. x \in Nat /\ MaxUsers <= x /\ MAXNPCS <= x
    BY <1>1, <2>3
  <2> HIDE DEF x
  <2>5. User \cup Npc \cup {0} \subseteq 0..x
    BY <1>1, <2>4
  <2>6. CharList \in [1..MAXCHARS -> User \cup Npc \cup {0}]
    BY InOrder DEF CharsOK
  <2>7. CharList \in [1..MAXCHARS -> 0..x]
    BY <2>5, <2>6
  <2> QED BY <2>7 DEF x
<1>3. tileUser \in [Cells -> 0..MaxUsers]
  <2>1. tileUser \in [Cells -> User \cup {0}] /\ User \cup {0} = 0..MaxUsers
    BY <1>1, InOrder DEF UsersOK
  <2> QED BY <2>1
<1>4. tileNpc \in [Cells -> 0..MAXNPCS] /\ LastNPC \in 0..MAXNPCS
  BY InOrder DEF TableOK, TilesAre, LastIs
<1>5. group \in [Maps -> [User -> Nat]] /\ NumUsers \in [Maps -> Nat] /\ pushed \in BOOLEAN
  BY InOrder DEF UsersOK
<1>6. ASSUME NEW u \in User
      PROVE  /\ user[u].in => user[u].Pos \in Tile
             /\ user[u].CharIndex \in 0..MAXCHARS
             /\ user[u].MascotasIndex \in [0..MAXMASCOTAS -> 0..MAXNPCS]
             /\ user[u].MascotasType \in [0..MAXMASCOTAS -> Kinds \cup {0}]
  <2>1. user[u] \in UserType /\ (user[u].in => user[u].Pos \in Tile)
    BY InOrder DEF UsersOK
  <2> QED BY <2>1 DEF UserType
<1>7. ASSUME NEW n \in Npc PROVE npc[n].CharIndex \in 0..(MAXCHARS + 1)
  BY InOrder, OfTable
<1> QED BY <1>2, <1>3, <1>4, <1>5, <1>6, <1>7 DEF TypeOK

LEMMA CharsDoAgree == IInv => CharsAgree
<1> SUFFICES ASSUME IInv, NEW c \in 1..MAXCHARS
             PROVE  LET us == {u \in User : user[u].CharIndex = c}
                        ns == {n \in Npc : npc[n].CharIndex = c}
                    IN  /\ Cardinality(us) + Cardinality(ns) <= 1
                        /\ us \cup ns = IF CharList[c] = 0 THEN {} ELSE {CharList[c]}
  BY DEF CharsAgree
<1> DEFINE us == {u \in User : user[u].CharIndex = c}
           ns == {n \in Npc : npc[n].CharIndex = c}
           x == CharList[c]
<1>1. c # 0 /\ 0 \notin User /\ 0 \notin Npc
  BY DEF User, Npc
<1>2. /\ x # 0 => \/ x \in User /\ user[x].CharIndex = c
                  \/ x \in Npc /\ npc[x].CharIndex = c
      /\ \A u \in User : user[u].CharIndex = c => x = u
      /\ \A n \in Npc : npc[n].CharIndex = c => x = n
      /\ \A u \in User, n \in Npc : user[u].CharIndex = c => npc[n].CharIndex # c
  BY <1>1, InOrder DEF CharsOK
<1>3. Cardinality({}) = 0 /\ Cardinality({x}) = 1
  BY FS_EmptySet, FS_Singleton
<1> HIDE DEF x
<1> DEFINE goal == /\ Cardinality(us) + Cardinality(ns) <= 1
                  /\ us \cup ns = IF x = 0 THEN {} ELSE {x}
<1>4. ASSUME x = 0 PROVE goal
  <2>1. us = {} /\ ns = {}
    BY <1>1, <1>2, <1>4
  <2> HIDE DEF us, ns
  <2> QED BY <1>3, <1>4, <2>1
<1>5. ASSUME x # 0, x \in User, user[x].CharIndex = c PROVE goal
  <2>1. us = {x} /\ ns = {}
    BY <1>2, <1>5
  <2> HIDE DEF us, ns
  <2> QED BY <1>3, <1>5, <2>1
<1>6. ASSUME x # 0, x \in Npc, npc[x].CharIndex = c PROVE goal
  <2>1. us = {} /\ ns = {x}
    BY <1>2, <1>6
  <2> HIDE DEF us, ns
  <2> QED BY <1>3, <1>6, <2>1
<1>7. goal
  <2> HIDE DEF goal
  <2> QED BY <1>2, <1>4, <1>5, <1>6
<1> QED BY <1>7 DEF x

\* Characters, areas, groups and counts agree with the positions, whatever the order of
\* warps, births, deaths and steps; those of users until an NPC pushes one.
THEOREM WorldAlwaysAgrees == Spec => []WorldAgrees
<1>1. IInv => WorldAgrees
  <2> SUFFICES ASSUME IInv PROVE WorldAgrees
    OBVIOUS
  <2>1. NpcAreasMatch
    BY InOrder, OfTable DEF NpcAreasMatch, Living
  <2>2. pushed \/ (MapsKnowTheirUsers /\ UserAreasMatch)
    BY InOrder DEF UsersSound, MapsKnowTheirUsers, UserAreasMatch
  <2> QED BY TypesOK, CharsDoAgree, <2>1, <2>2 DEF WorldAgrees
<1> QED BY <1>1, WorldInvariant, PTL

\* LastNPC is the last NPC in use, the tiles that name an NPC are where it is, and, until
\* an NPC pushes a user, so are the tiles that name a user.
THEOREM PlacesAlwaysAgree == Spec => []PlacesAgree
<1>1. IInv => PlacesAgree
  <2> SUFFICES ASSUME IInv PROVE PlacesAgree
    OBVIOUS
  <2>1. LastNPCExact
    <3> DEFINE T == {0} \cup {n \in Npc : npc[n].NPCActive}
    <3>1. MAXNPCS \in Nat /\ Npc = 1..MAXNPCS
      BY AreasAssumption DEF Npc
    <3>2. T \in SUBSET (0..MAXNPCS) /\ T # {}
      BY <3>1
    <3>3. Max(T) \in T /\ \A k \in T : k <= Max(T)
      BY <3>1, <3>2, MaxIs
    <3>4. /\ LastNPC \in 0..MAXNPCS
          /\ \A n \in Npc : npc[n].NPCActive => n <= LastNPC
          /\ LastNPC # 0 => npc[LastNPC].NPCActive
      BY InOrder DEF TableOK, LastIs
    <3>5. LastNPC \in T /\ \A k \in T : k <= LastNPC
      BY <3>1, <3>4
    <3>6. LastNPC \in Nat /\ Max(T) \in Nat
      BY <3>2, <3>3, <3>4
    <3> HIDE DEF T
    <3>7. LastNPC = Max(T)
      BY <3>3, <3>5, <3>6
    <3> QED BY <3>7 DEF LastNPCExact, T
  <2>2. NpcsAreThere
    BY InOrder DEF TableOK, TilesAre, NpcsAreThere
  <2>3. pushed \/ UsersAreThere
    BY InOrder DEF UsersSound, UsersAreThere
  <2> QED BY <2>1, <2>2, <2>3 DEF PlacesAgree
<1> QED BY <1>1, WorldInvariant, PTL

\* Pets are only on maps where pets may be, in whichever way they got their master: they
\* were tamed, summoned, called or taken along.
THEOREM PetsStayInPk == Spec => []PetsOnlyInPk
<1>1. IInv => PetsOnlyInPk
  <2> SUFFICES ASSUME IInv, NEW n \in Npc, npc[n].MaestroUser # 0
               PROVE  npc[n].Pos.map \in Pk
    BY DEF PetsOnlyInPk
  <2>1. npc[n] = NoNpc \/ Living(npc[n])
    BY InOrder DEF TableOK
  <2> QED BY <2>1, NoNpcIs DEF Living
<1> QED BY <1>1, WorldInvariant, PTL

================================================================================
