------------------------------ MODULE PartyProofs ------------------------------
(***************************************************************************)
(* Proofs about Party, for every number of users, parties, places, levels  *)
(* and weights: the two tables of memberships agree, the places are packed *)
(* behind the leader's, experience put aside stays its owner's, and the    *)
(* parties are groups (Groups).                                            *)
(***************************************************************************)
EXTENDS Party, FiniteSetTheorems, TLAPS

-------------------------------------------------------------------------------
(* Places *)

\* A set of naturals that is not empty has a least element.
LEMMA LeastOf ==
  ASSUME NEW T \in SUBSET Nat, T # {}
  PROVE  \E m \in T : \A k \in T : m <= k
<1> DEFINE R == OpToRel(<, Nat)
<1>1. R = {ss \in Nat \X Nat : ss[1] < ss[2]}
  BY Zenon DEF OpToRel
<1>2. IsWellFoundedOn(R, Nat)
  BY NatLessThanWellFounded
<1> HIDE DEF R
<1>3. PICK m \in T : \A k \in T : ~ (<<k, m>> \in R)
  BY <1>2, WFMin
<1>4. ASSUME NEW k \in T PROVE m <= k
  <2>1. <<k, m>> \in Nat \X Nat /\ <<k, m>>[1] = k /\ <<k, m>>[2] = m
    OBVIOUS
  <2>2. ~(k < m)
    BY <1>1, <1>3, <2>1
  <2> QED BY <2>2
<1> QED BY <1>4

\* Places are naturals from 0 on, below PARTY_MAXMEMBERS.
LEMMA PlaceTypes ==
  /\ PARTY_MAXMEMBERS \in Nat \ {0}
  /\ Places \subseteq Nat /\ 0 \in Places
  /\ \A i \in Places : i < PARTY_MAXMEMBERS /\ (i # 0 => i - 1 \in Places)
  /\ \A n \in Nat : n < PARTY_MAXMEMBERS => n \in Places
BY PartyAssumption DEF Places

\* The search of a member finds its first place.
LEMMA PlaceFound ==
  ASSUME NEW P, NEW u, IsMember(P, u)
  PROVE  /\ PlaceOf(P, u) \in Places
         /\ P.members[PlaceOf(P, u)].UserIndex = u
         /\ \A j \in Places : j < PlaceOf(P, u) => P.members[j].UserIndex # u
<1> DEFINE T == {i \in Places : P.members[i].UserIndex = u}
<1>1. T \in SUBSET Nat /\ T # {}
  BY PlaceTypes DEF IsMember
<1>2. PICK m \in T : \A k \in T : m <= k
  BY <1>1, LeastOf
<1>3. m \in Places /\ P.members[m].UserIndex = u
      /\ \A j \in Places : j < m => P.members[j].UserIndex # u
  BY <1>2, PlaceTypes
<1> QED BY <1>3 DEF PlaceOf

\* The members of a party have the first places, one each, and CantMiembros counts them.
Seated(P) ==
  /\ P \in PartyRecord
  /\ P.CantMiembros \in 0..PARTY_MAXMEMBERS
  /\ \A i \in Places : P.members[i].UserIndex # 0 <=> i < P.CantMiembros
  /\ OnePlace(P)

\* ... so that the first free place is the one after them.
LEMMA FreePlace ==
  ASSUME NEW P, Seated(P), HasRoom(P)
  PROVE  PlaceOf(P, 0) = P.CantMiembros /\ P.CantMiembros \in Places
<1> DEFINE k == PlaceOf(P, 0)
           c == P.CantMiembros
<1>1. /\ k \in Places /\ P.members[k].UserIndex = 0
      /\ \A j \in Places : j < k => P.members[j].UserIndex # 0
  BY PlaceFound DEF HasRoom
<1>2. c \in Nat /\ k \in Nat /\ ~(k < c)
  <2> HIDE DEF k
  <2>1. c \in 0..PARTY_MAXMEMBERS /\ (P.members[k].UserIndex # 0 <=> k < c)
    BY <1>1 DEF Seated
  <2> QED BY <1>1, <2>1, PlaceTypes
<1>3. c \in Places
  BY <1>1, <1>2, PlaceTypes
<1>4. ~(c < k)
  BY <1>1, <1>2, <1>3 DEF Seated
<1> QED BY <1>2, <1>3, <1>4

\* A member has one place, and what the party holds for it is there.
LEMMA SeatOf ==
  ASSUME NEW P, Seated(P), NEW u \in Users, NEW i \in Places, P.members[i].UserIndex = u
  PROVE  IsMember(P, u) /\ PlaceOf(P, u) = i /\ Pending(P, u) = P.members[i].Experiencia
<1>1. IsMember(P, u)
  BY DEF IsMember
<1>2. PlaceOf(P, u) \in Places /\ P.members[PlaceOf(P, u)].UserIndex = u
  BY <1>1, PlaceFound
<1>3. u # 0
  BY PartyAssumption DEF Users
<1>4. PlaceOf(P, u) = i
  BY <1>2, <1>3 DEF Seated, OnePlace
<1> QED BY <1>1, <1>4 DEF Pending

\* What a party holds for a user is a natural, and 0 when it has no place for it.
LEMMA PendingType ==
  ASSUME NEW P, Seated(P), NEW u \in Users
  PROVE  Pending(P, u) \in Nat /\ (~IsMember(P, u) => Pending(P, u) = 0)
<1>1. CASE IsMember(P, u)
  <2>1. PlaceOf(P, u) \in Places
    BY <1>1, PlaceFound
  <2>2. P.members[PlaceOf(P, u)] \in Member
    BY <2>1 DEF Seated, PartyRecord
  <2> QED BY <1>1, <2>2 DEF Pending, Member
<1>2. CASE ~IsMember(P, u)
  BY <1>2 DEF Pending
<1> QED BY <1>1, <1>2

-------------------------------------------------------------------------------
(* Changes of a party *)

\* What a party is to the users: who is in it and what it holds for whom.
SameFor(Q, P, v) == (IsMember(Q, v) <=> IsMember(P, v)) /\ Pending(Q, v) = Pending(P, v)

\* A party that exists has its leader at place 0; no party is an empty entry.
Sound(P) ==
  IF P.exists THEN Seated(P) /\ P.CantMiembros # 0 /\ P.Fundador = P.members[0].UserIndex
  ELSE P = NoParty

\* An entry with no party and a party just created have nobody.
LEMMA NobodyThere ==
  /\ NoParty \in PartyRecord /\ NewParty \in PartyRecord
  /\ Seated(NewParty) /\ HasRoom(NewParty) /\ NewParty.exists
  /\ \A v \in Users : ~IsMember(NoParty, v) /\ ~IsMember(NewParty, v)
  /\ \A v \in Users : Pending(NoParty, v) = 0
<1>1. NoParty \in PartyRecord /\ NewParty \in PartyRecord
  <2> DEFINE none == [i \in Places |-> NoMember]
  <2>1. NoMember \in Member
    BY DEF NoMember, Member
  <2>2. none \in [Places -> Member]
    BY <2>1
  <2>3. NoParty = [exists |-> FALSE, members |-> none, Fundador |-> 0,
                   CantMiembros |-> 0, SumaNivelesElevados |-> 0]
    BY DEF NoParty
  <2> HIDE DEF none
  <2>4. NoParty \in PartyRecord
    BY <2>2, <2>3 DEF PartyRecord
  <2> QED BY <2>4 DEF NewParty, PartyRecord
<1>2. \A i \in Places : NoParty.members[i] = NoMember /\ NewParty.members[i] = NoMember
  BY DEF NoParty, NewParty
<1>3. NewParty.CantMiembros = 0 /\ NewParty.exists
  BY DEF NoParty, NewParty
<1>4. Seated(NewParty)
  <2>1. \A i \in Places : NewParty.members[i].UserIndex = 0
    BY <1>2 DEF NoMember
  <2> QED BY <1>1, <1>3, <2>1, PlaceTypes DEF Seated, OnePlace
<1>5. HasRoom(NewParty)
  BY <1>2, PlaceTypes DEF HasRoom, IsMember, NoMember
<1>6. \A v \in Users : v # 0
  BY PartyAssumption DEF Users
<1>7. \A v \in Users : ~IsMember(NoParty, v) /\ ~IsMember(NewParty, v)
  BY <1>2, <1>6 DEF IsMember, NoMember
<1> QED BY <1>1, <1>3, <1>4, <1>5, <1>7 DEF Pending

\* A change of the places, their count and the sum of levels.
With(P, m, n, w) ==
  [P EXCEPT !.members = m, !.CantMiembros = n, !.SumaNivelesElevados = w]

\* It is a party again.
LEMMA Changed ==
  ASSUME NEW P \in PartyRecord, NEW m \in [Places -> Member], NEW n \in Int, NEW w \in Int
  PROVE  /\ With(P, m, n, w) \in PartyRecord
         /\ With(P, m, n, w).members = m /\ With(P, m, n, w).CantMiembros = n
         /\ With(P, m, n, w).exists = P.exists /\ With(P, m, n, w).Fundador = P.Fundador
<1> DEFINE q1 == [P EXCEPT !.members = m]
           q2 == [q1 EXCEPT !.CantMiembros = n]
           q3 == [q2 EXCEPT !.SumaNivelesElevados = w]
<1>1. q1 \in PartyRecord
  BY Z3T(20) DEF PartyRecord
<1>2. q2 \in PartyRecord
  <2> HIDE DEF q1
  <2> QED BY <1>1, Z3T(20) DEF PartyRecord
<1>3. q3 \in PartyRecord
  <2> HIDE DEF q2
  <2> QED BY <1>2, Z3T(20) DEF PartyRecord
<1>4. /\ q3.members = m /\ q3.CantMiembros = n
      /\ q3.exists = P.exists /\ q3.Fundador = P.Fundador
  BY DEF PartyRecord
<1> QED BY <1>3, <1>4 DEF With

\* A new member has the first free place, with nothing held for it.
LEMMA Joined ==
  ASSUME NEW P, Seated(P), HasRoom(P), NEW u \in Users, ~IsMember(P, u),
         user[u] \in UserRecord
  PROVE  LET Q == NuevoMiembro(P, u)
         IN  /\ Seated(Q) /\ Q.CantMiembros # 0
             /\ Q.exists = P.exists /\ Q.Fundador = P.Fundador
             /\ Q.members[P.CantMiembros].UserIndex = u
             /\ P.CantMiembros # 0 => Q.members[0].UserIndex = P.members[0].UserIndex
             /\ IsMember(Q, u) /\ Pending(Q, u) = 0
             /\ \A v \in Users \ {u} : SameFor(Q, P, v)
<1> DEFINE c == P.CantMiembros
           m == [P.members EXCEPT ![c] = [UserIndex |-> u, Experiencia |-> 0]]
           w == P.SumaNivelesElevados + Weight[user[u].ELV]
           n == c + 1
           Q == With(P, m, n, w)
<1>0. NuevoMiembro(P, u) = Q
  BY FreePlace DEF NuevoMiembro, With
<1>1. c \in Places /\ c \in Nat
  BY FreePlace, PlaceTypes
<1>2. /\ m \in [Places -> Member] /\ m[c] = [UserIndex |-> u, Experiencia |-> 0]
      /\ \A i \in Places \ {c} : m[i] = P.members[i]
  BY <1>1 DEF Seated, PartyRecord, Member
<1>3. w \in Int
  <2>1. user[u].ELV \in 1..MaxLevel
    BY DEF UserRecord, Levels
  <2>2. Weight[user[u].ELV] \in Nat
    BY <2>1, PartyAssumption
  <2>3. P.SumaNivelesElevados \in Int
    BY DEF Seated, PartyRecord
  <2> QED BY <2>2, <2>3
<1>4. /\ Q.members = m /\ Q.CantMiembros = n
      /\ Q.exists = P.exists /\ Q.Fundador = P.Fundador /\ Q \in PartyRecord
  <2>1. n \in Int /\ m \in [Places -> Member] /\ P \in PartyRecord
    BY <1>1, <1>2 DEF Seated
  <2> HIDE DEF m, w, n
  <2> QED BY <1>3, <2>1, Changed
<1> HIDE DEF m, w, Q
<1>5. u # 0
  BY PartyAssumption DEF Users
<1>6. Seated(Q)
  <2>1. c + 1 \in 0..PARTY_MAXMEMBERS
    BY <1>1, PlaceTypes
  <2>2. ASSUME NEW i \in Places PROVE m[i].UserIndex # 0 <=> i < c + 1
    <3>1. CASE i = c
      BY <1>1, <1>2, <1>5, <3>1
    <3>2. CASE i # c
      <4>1. P.members[i].UserIndex # 0 <=> i < c
        BY DEF Seated
      <4> QED BY <1>1, <1>2, <3>2, <4>1, PlaceTypes
    <3> QED BY <3>1, <3>2
  <2>3. ASSUME NEW i \in Places, NEW j \in Places, m[i].UserIndex = m[j].UserIndex
        PROVE  i = j \/ m[i].UserIndex = 0
    <3>1. \A k \in Places : P.members[k].UserIndex # u
      BY DEF IsMember
    <3>2. i # c /\ j # c => i = j \/ P.members[i].UserIndex = 0
      BY <1>2, <2>3 DEF Seated, OnePlace
    <3> QED BY <1>2, <2>3, <3>1, <3>2
  <2> QED BY <1>4, <2>1, <2>2, <2>3 DEF Seated, OnePlace
<1>7. Q.members[c].UserIndex = u /\ Q.members[c].Experiencia = 0
  BY <1>2, <1>4
<1>8. IsMember(Q, u) /\ Pending(Q, u) = 0
  BY <1>1, <1>6, <1>7, SeatOf
<1>9. ASSUME NEW v \in Users \ {u} PROVE SameFor(Q, P, v)
  <2>1. CASE IsMember(P, v)
    <3>1. PICK i \in Places : P.members[i].UserIndex = v
      BY <2>1 DEF IsMember
    <3>2. i # c
      <4>1. v # 0
        BY PartyAssumption DEF Users
      <4>2. i < c
        BY <3>1, <4>1 DEF Seated
      <4> QED BY <1>1, <4>2
    <3>3. Q.members[i] = P.members[i]
      BY <1>2, <1>4, <3>2
    <3> QED BY <1>6, <3>1, <3>3, SeatOf DEF SameFor
  <2>2. CASE ~IsMember(P, v)
    <3>1. ~IsMember(Q, v)
      BY <1>2, <1>4, <2>2 DEF IsMember
    <3> QED BY <2>2, <3>1 DEF SameFor, Pending
  <2> QED BY <2>1, <2>2
<1>10. c # 0 => Q.members[0].UserIndex = P.members[0].UserIndex
  BY <1>2, <1>4, PlaceTypes
<1>11. Q.CantMiembros # 0
  BY <1>1, <1>4
<1> QED BY <1>0, <1>4, <1>6, <1>7, <1>8, <1>9, <1>10, <1>11

\* Whoever is to lead changes places with the leader, and takes what is held for it along.
LEMMA Led ==
  ASSUME NEW P, Seated(P), NEW u \in Users, IsMember(P, u)
  PROVE  /\ Seated(HacerLeader(P, u)) /\ HacerLeader(P, u).CantMiembros # 0
         /\ HacerLeader(P, u).exists = P.exists /\ HacerLeader(P, u).Fundador = u
         /\ HacerLeader(P, u).members[0].UserIndex = u
         /\ \A v \in Users : SameFor(HacerLeader(P, u), P, v)
<1> DEFINE k == PlaceOf(P, u)
           m == [i \in Places |-> CASE i = 0 -> P.members[k]
                                    [] i = k /\ i # 0 -> P.members[0]
                                    [] OTHER -> P.members[i]]
           f == P.members[k].UserIndex
           Q == HacerLeader(P, u)
           old(i) == IF i = 0 THEN k ELSE IF i = k THEN 0 ELSE i
<1>1. k \in Places /\ f = u
  BY PlaceFound
<1>2. u # 0 /\ 0 \in Places /\ 0 \in Nat
  BY PlaceTypes, PartyAssumption DEF Users
<1>3. P.members \in [Places -> Member] /\ P \in PartyRecord
  BY DEF Seated, PartyRecord
<1>4. Q = [P EXCEPT !.members = m, !.Fundador = f]
  BY DEF HacerLeader
<1> HIDE DEF k
<1>5. m \in [Places -> Member]
  <2> SUFFICES ASSUME NEW i \in Places PROVE m[i] \in Member
    OBVIOUS
  <2>1. P.members[k] \in Member /\ P.members[0] \in Member /\ P.members[i] \in Member
    BY <1>1, <1>2, <1>3
  <2> QED BY <2>1
<1>6. \A i \in Places : m[i] = P.members[old(i)] /\ old(i) \in Places
  BY <1>1, <1>2
<1>7. /\ Q \in PartyRecord /\ Q.members = m /\ Q.Fundador = u
      /\ Q.exists = P.exists /\ Q.CantMiembros = P.CantMiembros
  <2> DEFINE q1 == [P EXCEPT !.members = m]
  <2> HIDE DEF m, f, Q
  <2>1. q1 \in PartyRecord
    BY <1>3, <1>5, Z3T(20) DEF PartyRecord
  <2>2. [q1 EXCEPT !.Fundador = f] \in PartyRecord
    <3>1. f \in Users
      BY <1>1
    <3> HIDE DEF q1
    <3> QED BY <2>1, <3>1, Z3T(20) DEF PartyRecord
  <2> QED BY <1>1, <1>3, <1>4, <2>2 DEF PartyRecord
<1> HIDE DEF f, Q
<1>8. P.CantMiembros \in Nat /\ k < P.CantMiembros
  <2>1. P.CantMiembros \in 0..PARTY_MAXMEMBERS /\ (P.members[k].UserIndex # 0 <=> k < P.CantMiembros)
    BY <1>1 DEF Seated
  <2> QED BY <1>1, <1>2, <2>1 DEF f
<1>9. Q.CantMiembros # 0 /\ 0 < P.CantMiembros
  BY <1>1, <1>7, <1>8, PlaceTypes
<1>10. Seated(Q)
  <2>1. ASSUME NEW i \in Places PROVE m[i].UserIndex # 0 <=> i < P.CantMiembros
    <3>1. P.members[old(i)].UserIndex # 0 <=> old(i) < P.CantMiembros
      BY <1>6 DEF Seated
    <3> HIDE DEF m
    <3>2. old(i) < P.CantMiembros <=> i < P.CantMiembros
      BY <1>8, <1>9
    <3> QED BY <1>6, <3>1, <3>2
  <2>2. ASSUME NEW i \in Places, NEW j \in Places, m[i].UserIndex = m[j].UserIndex
        PROVE  i = j \/ m[i].UserIndex = 0
    <3>1. P.members[old(i)].UserIndex = P.members[old(j)].UserIndex
      BY <1>6, <2>2
    <3>2. old(i) = old(j) \/ P.members[old(i)].UserIndex = 0
      BY <1>6, <3>1 DEF Seated, OnePlace
    <3>3. old(i) = old(j) => i = j
      BY <1>1
    <3> QED BY <1>6, <3>2, <3>3
  <2>3. P.CantMiembros \in 0..PARTY_MAXMEMBERS
    BY DEF Seated
  <2> HIDE DEF m
  <2> QED BY <1>7, <2>1, <2>2, <2>3 DEF Seated, OnePlace
<1>11. Q.members[0].UserIndex = u
  <2>1. m[0] = P.members[k]
    BY <1>2
  <2> HIDE DEF m
  <2> QED BY <1>1, <1>7, <2>1 DEF f
<1>12. ASSUME NEW v \in Users PROVE SameFor(Q, P, v)
  <2> HIDE DEF m
  <2>1. CASE IsMember(P, v)
    <3>1. PICK i \in Places : P.members[i].UserIndex = v
      BY <2>1 DEF IsMember
    <3>2. old(i) \in Places /\ old(old(i)) = i
      BY <1>1, <1>2
    <3>3. Q.members[old(i)] = P.members[i]
      BY <1>6, <1>7, <3>2
    <3> HIDE DEF old
    <3> QED BY <1>10, <3>1, <3>2, <3>3, SeatOf DEF SameFor
  <2>2. CASE ~IsMember(P, v)
    <3>1. ~IsMember(Q, v)
      BY <1>6, <1>7, <2>2 DEF IsMember
    <3> QED BY <2>2, <3>1 DEF SameFor, Pending
  <2> QED BY <2>1, <2>2
<1> QED BY <1>7, <1>9, <1>10, <1>11, <1>12 DEF Q

\* A member that does not lead leaves, and those behind it move down.
LEMMA Departed ==
  ASSUME NEW P, Seated(P), NEW u \in Users, IsMember(P, u), P.members[0].UserIndex # u,
         NEW w \in Int,
         NEW Q, Q = With(P, Without(P.members, PlaceOf(P, u)), P.CantMiembros - 1, w)
  PROVE  /\ Seated(Q) /\ Q.CantMiembros # 0
         /\ Q.exists = P.exists /\ Q.Fundador = P.Fundador
         /\ Q.members[0].UserIndex = P.members[0].UserIndex
         /\ ~IsMember(Q, u)
         /\ \A v \in Users \ {u} : SameFor(Q, P, v)
<1> DEFINE k == PlaceOf(P, u)
           m == Without(P.members, k)
           c == P.CantMiembros
           n == c - 1
<1>1. k \in Places /\ P.members[k].UserIndex = u /\ k # 0
  BY PlaceFound
<1>2. u # 0
  BY PartyAssumption DEF Users
<1> HIDE DEF k
<1>3. /\ c \in 0..PARTY_MAXMEMBERS /\ k < c
      /\ \A i \in Places : P.members[i].UserIndex # 0 <=> i < c
  BY <1>1, <1>2 DEF Seated
<1>4. n \in Nat /\ n # 0 /\ n \in Places
  BY <1>1, <1>3, PlaceTypes
<1>5. /\ \A i \in Places : i < k => m[i] = P.members[i]
      /\ \A i \in Places : i >= k /\ i + 1 \in Places => m[i] = P.members[i + 1]
      /\ \A i \in Places : i >= k /\ i + 1 \notin Places => m[i] = NoMember
  BY <1>1, PlaceTypes DEF Without
<1>6. m \in [Places -> Member]
  <2>1. NoMember \in Member /\ P.members \in [Places -> Member]
    BY DEF NoMember, Member, Seated, PartyRecord
  <2>2. \A i \in Places : i < k \/ i >= k
    BY <1>1, PlaceTypes
  <2>3. \A i \in Places : m[i] \in Member
    <3> HIDE DEF m
    <3> QED BY <1>5, <2>1, <2>2
  <2> QED BY <2>3 DEF Without
<1> HIDE DEF m
<1>7. /\ Q \in PartyRecord /\ Q.members = m /\ Q.CantMiembros = n
      /\ Q.exists = P.exists /\ Q.Fundador = P.Fundador
  <2>1. Q = With(P, m, n, w) /\ P \in PartyRecord /\ n \in Int
    BY <1>4 DEF m, k, Seated
  <2> HIDE DEF n
  <2> QED BY <1>6, <2>1, Changed
<1> HIDE DEF c
\* where the occupant of a place comes from
<1>8. ASSUME NEW i \in Places
      PROVE  \/ m[i].UserIndex = 0 /\ ~(i < n)
             \/ i < k /\ i < n /\ m[i] = P.members[i]
             \/ i >= k /\ i < n /\ i + 1 \in Places /\ m[i] = P.members[i + 1]
  <2>1. i \in Nat /\ k \in Nat /\ c \in Nat /\ i < PARTY_MAXMEMBERS /\ c <= PARTY_MAXMEMBERS
        /\ PARTY_MAXMEMBERS \in Nat
    BY <1>1, <1>3, PlaceTypes
  <2>2. CASE i < k
    BY <1>3, <1>5, <2>1, <2>2
  <2>3. CASE i >= k /\ i + 1 \in Places
    <3>1. m[i] = P.members[i + 1] /\ (P.members[i + 1].UserIndex # 0 <=> i + 1 < c)
      BY <1>3, <1>5, <2>3
    <3> QED BY <2>1, <2>3, <3>1
  <2>4. CASE i >= k /\ i + 1 \notin Places
    <3>1. m[i].UserIndex = 0
      BY <1>5, <2>4 DEF NoMember
    <3>2. ~(i + 1 < PARTY_MAXMEMBERS)
      BY <2>1, <2>4, PlaceTypes
    <3> QED BY <2>1, <3>1, <3>2
  <2> QED BY <2>1, <2>2, <2>3, <2>4
<1>9. ASSUME NEW i \in Places, NEW j \in Places, m[i].UserIndex = m[j].UserIndex
      PROVE  i = j \/ m[i].UserIndex = 0
  <2>1. \A x, y \in Places : P.members[x].UserIndex = P.members[y].UserIndex
                               => x = y \/ P.members[x].UserIndex = 0
    BY DEF Seated, OnePlace
  <2>2. i \in Nat /\ j \in Nat /\ k \in Nat
    BY <1>1, PlaceTypes
  <2>3. CASE i < k /\ j < k
    BY <1>8, <1>9, <2>1, <2>2, <2>3
  <2>4. CASE i >= k /\ j >= k
    BY <1>8, <1>9, <2>1, <2>2, <2>4
  <2>5. CASE i < k /\ j >= k
    BY <1>8, <1>9, <2>1, <2>2, <2>5
  <2>6. CASE i >= k /\ j < k
    BY <1>8, <1>9, <2>1, <2>2, <2>6
  <2> QED BY <2>2, <2>3, <2>4, <2>5, <2>6
<1>10. \A i \in Places : m[i].UserIndex # 0 <=> i < n
  <2> SUFFICES ASSUME NEW i \in Places, i < n PROVE m[i].UserIndex # 0
    BY <1>8
  <2>1. i \in Nat /\ c \in Nat /\ i + 1 < c /\ i < c
    BY <1>3, PlaceTypes DEF c
  <2> QED BY <1>3, <1>8, <2>1
<1>11. Seated(Q)
  <2>1. c \in Nat /\ c <= PARTY_MAXMEMBERS /\ n = c - 1
    BY <1>3, PlaceTypes
  <2>2. n \in 0..PARTY_MAXMEMBERS
    <3> HIDE DEF n
    <3> QED BY <1>4, <2>1, PlaceTypes
  <2> QED BY <1>7, <1>9, <1>10, <2>2 DEF Seated, OnePlace
<1>12. Q.members[0] = P.members[0]
  BY <1>1, <1>5, <1>7, PlaceTypes
<1>13. ~IsMember(Q, u)
  <2> SUFFICES ASSUME NEW i \in Places, m[i].UserIndex = u PROVE FALSE
    BY <1>7 DEF IsMember
  <2>1. PICK j \in Places : m[i] = P.members[j] /\ j # k
    BY <1>1, <1>2, <1>8, PlaceTypes
  <2> QED BY <1>1, <1>2, <2>1 DEF Seated, OnePlace
<1>14. ASSUME NEW v \in Users \ {u} PROVE SameFor(Q, P, v)
  <2>1. CASE IsMember(P, v)
    <3>1. PICK i \in Places : P.members[i].UserIndex = v
      BY <2>1 DEF IsMember
    <3>2. \E j \in Places : m[j] = P.members[i]
      <4>1. i # k /\ i \in Nat /\ k \in Nat
        BY <1>1, <3>1, PlaceTypes
      <4>2. CASE i < k
        BY <1>5, <4>2
      <4>3. CASE k < i
        <5>1. i - 1 \in Places /\ i - 1 >= k /\ (i - 1) + 1 = i
          BY <1>1, <4>1, <4>3, PlaceTypes
        <5> QED BY <1>5, <5>1
      <4> QED BY <4>1, <4>2, <4>3
    <3> QED BY <1>7, <1>11, <3>1, <3>2, SeatOf DEF SameFor
  <2>2. CASE ~IsMember(P, v)
    <3>1. v # 0
      BY PartyAssumption DEF Users
    <3>2. ~IsMember(Q, v)
      BY <1>7, <1>8, <2>2, <3>1 DEF IsMember
    <3> QED BY <2>2, <3>2 DEF SameFor, Pending
  <2> QED BY <2>1, <2>2
<1> QED BY <1>4, <1>7, <1>11, <1>12, <1>13, <1>14

\* The members keep their places, with other experience held for them.
Refilled(P, xp) ==
  [P EXCEPT !.members =
     [i \in Places |-> [UserIndex |-> P.members[i].UserIndex, Experiencia |-> xp[i]]]]

\* The places and the leader are as before, and a member has what is put at its place.
LEMMA RefilledKeeps ==
  ASSUME NEW P, Seated(P), NEW xp \in [Places -> Nat]
  PROVE  /\ Seated(Refilled(P, xp)) /\ Refilled(P, xp).CantMiembros = P.CantMiembros
         /\ Refilled(P, xp).exists = P.exists /\ Refilled(P, xp).Fundador = P.Fundador
         /\ Refilled(P, xp).members[0].UserIndex = P.members[0].UserIndex
         /\ \A v \in Users :
              /\ IsMember(Refilled(P, xp), v) <=> IsMember(P, v)
              /\ IsMember(P, v) => Pending(Refilled(P, xp), v) = xp[PlaceOf(P, v)]
<1> DEFINE m == [i \in Places |-> [UserIndex |-> P.members[i].UserIndex, Experiencia |-> xp[i]]]
           Q == [P EXCEPT !.members = m]
<1>1. \A i \in Places : m[i].UserIndex = P.members[i].UserIndex /\ m[i].Experiencia = xp[i]
  OBVIOUS
<1>2. m \in [Places -> Member]
  <2>1. P.members \in [Places -> Member]
    BY DEF Seated, PartyRecord
  <2> QED BY <2>1 DEF Member
<1>3. Refilled(P, xp) = Q
  BY DEF Refilled
<1> HIDE DEF m
<1>4. /\ Q \in PartyRecord /\ Q.members = m /\ Q.CantMiembros = P.CantMiembros
      /\ Q.exists = P.exists /\ Q.Fundador = P.Fundador
  <2>1. P \in PartyRecord
    BY DEF Seated
  <2> QED BY <1>2, <2>1, Z3T(20) DEF PartyRecord
<1> HIDE DEF Q
<1>5. Seated(Q)
  BY <1>1, <1>4 DEF Seated, OnePlace
<1>6. ASSUME NEW v \in Users
      PROVE  /\ IsMember(Q, v) <=> IsMember(P, v)
             /\ IsMember(P, v) => Pending(Q, v) = xp[PlaceOf(P, v)]
  <2>1. IsMember(Q, v) <=> IsMember(P, v)
    BY <1>1, <1>4 DEF IsMember
  <2>2. ASSUME IsMember(P, v) PROVE Pending(Q, v) = xp[PlaceOf(P, v)]
    <3>1. PlaceOf(P, v) \in Places /\ P.members[PlaceOf(P, v)].UserIndex = v
      BY <2>2, PlaceFound
    <3> QED BY <1>1, <1>4, <1>5, <3>1, SeatOf
  <2> QED BY <2>1, <2>2
<1> QED BY <1>1, <1>3, <1>4, <1>5, <1>6, PlaceTypes

-------------------------------------------------------------------------------
(* The invariant *)

\* Types, parties packed behind their leader, memberships that agree, and experience
\* put aside that is where it should be.
IInv ==
  /\ TypeOK
  /\ \A p \in Indices : Sound(Parties[p])
  /\ MembershipAgrees
  /\ ExpConserved

\* What it says of one user and one party.
LEMMA Reads ==
  ASSUME IInv, NEW p \in Indices, NEW u \in Users
  PROVE  /\ user[u] \in UserRecord /\ owed[u] \in Nat
         /\ Parties[p] \in PartyRecord /\ Sound(Parties[p])
         /\ Parties[p].exists => Seated(Parties[p])
         /\ user[u].PartyIndex = p <=> IsMember(Parties[p], u)
         /\ IsMember(Parties[p], u) => Parties[p].exists /\ user[u].UserLogged
         /\ user[u].PartyIndex \in {0, p} => owed[u] = Pending(Parties[p], u)
         /\ p # 0
<1>1. p # 0
  BY PartyAssumption DEF Indices
<1>2. /\ user[u] \in UserRecord /\ owed[u] \in Nat
      /\ Parties[p] \in PartyRecord /\ Sound(Parties[p])
  BY DEF IInv, TypeOK
<1>3. Parties[p].exists => Seated(Parties[p])
  BY <1>2 DEF Sound
<1>4. ~Parties[p].exists => ~IsMember(Parties[p], u)
  BY <1>2, NobodyThere DEF Sound
<1>5. /\ user[u].PartyIndex = p <=> Parties[p].exists /\ IsMember(Parties[p], u)
      /\ user[u].PartyIndex # 0 => user[u].UserLogged
  BY DEF IInv, MembershipAgrees
<1>6. ASSUME user[u].PartyIndex \in {0, p} PROVE owed[u] = Pending(Parties[p], u)
  <2>1. CASE user[u].PartyIndex = p
    BY <1>1, <2>1 DEF IInv, ExpConserved
  <2>2. CASE user[u].PartyIndex = 0
    <3>1. owed[u] = 0 /\ ~IsMember(Parties[p], u)
      BY <1>1, <1>4, <1>5, <2>2 DEF IInv, ExpConserved
    <3> QED BY <3>1 DEF Pending
  <2> QED BY <1>6, <2>1, <2>2
<1> QED BY <1>1, <1>2, <1>3, <1>4, <1>5, <1>6

\* User v after a step that makes Q of the party p: whoever was in no other party is
\* in p exactly when Q has a place for it, in the game, and with what Q holds for it
\* put aside; nobody else is touched.
Fits(p, Q, v) ==
  IF user[v].PartyIndex \in {0, p}
  THEN /\ user'[v].PartyIndex = (IF IsMember(Q, v) THEN p ELSE 0)
       /\ IsMember(Q, v) => user'[v].UserLogged
       /\ owed'[v] = Pending(Q, v)
  ELSE /\ user'[v].PartyIndex = user[v].PartyIndex
       /\ user'[v].UserLogged = user[v].UserLogged
       /\ owed'[v] = owed[v]
       /\ ~IsMember(Q, v)

\* A user that the step passes over fits.
LEMMA Untouched ==
  ASSUME IInv, NEW p \in Indices, NEW Q, NEW v \in Users, SameFor(Q, Parties[p], v),
         user'[v].PartyIndex = user[v].PartyIndex,
         user'[v].UserLogged = user[v].UserLogged, owed'[v] = owed[v]
  PROVE  Fits(p, Q, v)
BY Reads DEF Fits, SameFor

\* Steps on one party keep the invariant.
LEMMA OneParty ==
  ASSUME IInv, NEW p \in Indices, NEW Q, Sound(Q),
         Parties' = [Parties EXCEPT ![p] = Q],
         user' \in [Users -> UserRecord], DOMAIN owed' = Users, owed' = [v \in Users |-> owed'[v]],
         \A v \in Users : Fits(p, Q, v)
  PROVE  IInv'
<1>1. Q \in PartyRecord
  BY NobodyThere DEF Sound, Seated
<1>2. Parties \in [Indices -> PartyRecord]
  BY DEF IInv, TypeOK
<1>3. /\ Parties'[p] = Q /\ \A q \in Indices \ {p} : Parties'[q] = Parties[q]
      /\ Parties' \in [Indices -> PartyRecord]
  BY <1>1, <1>2
<1>4. \A q \in Indices : Sound(Parties'[q])
  BY <1>3 DEF IInv
<1>5. \A v \in Users : Pending(Q, v) \in Nat /\ (~IsMember(Q, v) => Pending(Q, v) = 0)
                       /\ (IsMember(Q, v) => Q.exists)
  <2>1. CASE Q.exists
    BY <2>1, PendingType DEF Sound
  <2>2. CASE ~Q.exists
    BY <2>2, NobodyThere DEF Sound
  <2> QED BY <2>1, <2>2
<1>6. owed' \in [Users -> Nat]
  <2> SUFFICES ASSUME NEW v \in Users PROVE owed'[v] \in Nat
    OBVIOUS
  <2> QED BY <1>5, Reads DEF Fits
<1>7. ASSUME NEW v \in Users
      PROVE  /\ \A q \in Indices : user'[v].PartyIndex = q
                                     <=> Parties'[q].exists /\ IsMember(Parties'[q], v)
             /\ user'[v].PartyIndex # 0 => user'[v].UserLogged
             /\ IF user'[v].PartyIndex = 0 THEN owed'[v] = 0
                ELSE owed'[v] = Pending(Parties'[user'[v].PartyIndex], v)
  <2>1. \A q \in Indices : q # 0
    BY Reads
  <2>2. \A q \in Indices : user[v].PartyIndex = q <=> Parties[q].exists /\ IsMember(Parties[q], v)
    BY Reads
  <2>3. CASE user[v].PartyIndex \in {0, p}
    <3>1. /\ user'[v].PartyIndex = (IF IsMember(Q, v) THEN p ELSE 0)
          /\ IsMember(Q, v) => user'[v].UserLogged
          /\ owed'[v] = Pending(Q, v)
      BY <2>3 DEF Fits
    <3> QED BY <1>3, <1>5, <2>1, <2>2, <2>3, <3>1
  <2>4. CASE user[v].PartyIndex \notin {0, p}
    <3>1. /\ user'[v].PartyIndex = user[v].PartyIndex
          /\ user'[v].UserLogged = user[v].UserLogged
          /\ owed'[v] = owed[v] /\ ~IsMember(Q, v)
      BY <2>4 DEF Fits
    <3>2. user[v].PartyIndex \in Indices
      BY <2>4 DEF IInv, TypeOK, UserRecord
    <3>3. user[v].UserLogged /\ owed[v] = Pending(Parties[user[v].PartyIndex], v)
      BY <3>2, Reads
    <3> QED BY <1>3, <2>2, <2>4, <3>1, <3>2, <3>3
  <2> QED BY <2>3, <2>4
<1>8. TypeOK'
  BY <1>3, <1>6 DEF TypeOK
<1>9. MembershipAgrees' /\ ExpConserved'
  BY <1>7 DEF MembershipAgrees, ExpConserved, IsMember, Pending, PlaceOf
<1> QED BY <1>4, <1>8, <1>9 DEF IInv, Sound, Seated, OnePlace

\* Steps that leave memberships alone keep it too.
LEMMA UsersOnly ==
  ASSUME IInv, UNCHANGED <<Parties, owed>>, user' \in [Users -> UserRecord],
         \A v \in Users : /\ user'[v].PartyIndex = user[v].PartyIndex
                          /\ user'[v].UserLogged \/ user[v].PartyIndex = 0
  PROVE  IInv'
<1>1. TypeOK'
  BY DEF IInv, TypeOK
<1>2. MembershipAgrees'
  BY DEF IInv, MembershipAgrees, IsMember
<1>3. ExpConserved'
  <2>1. \A v \in Users : user'[v].PartyIndex = user[v].PartyIndex
    OBVIOUS
  <2>2. \A v \in Users : IF user[v].PartyIndex = 0 THEN owed[v] = 0
                         ELSE owed[v] = Pending(Parties[user[v].PartyIndex], v)
    BY DEF IInv, ExpConserved
  <2>3. Parties' = Parties /\ owed' = owed
    OBVIOUS
  <2>4. \A v \in Users : IF user'[v].PartyIndex = 0 THEN owed'[v] = 0
                         ELSE owed'[v] = Pending(Parties'[user'[v].PartyIndex], v)
    BY <2>1, <2>2, <2>3
  <2> QED BY <2>4 DEF ExpConserved, Pending, PlaceOf, IsMember
<1> QED BY <1>1, <1>2, <1>3 DEF IInv, Sound, Seated, OnePlace

-------------------------------------------------------------------------------
(* The commands *)

\* Every step is one of Groups, or changes neither the groups nor their leaders.
GroupStep == [Groups!Next]_(Groups!vars)

\* The records of users that enter a party, leave one, and enter or leave the game.
LEMMA UserEnters ==
  ASSUME NEW r \in UserRecord, NEW p \in {0} \union Indices
  PROVE  /\ Entered(r, p) \in UserRecord /\ Entered(r, p).PartyIndex = p
         /\ Entered(r, p).UserLogged = r.UserLogged
<1> DEFINE q == [r EXCEPT !.PartyIndex = p]
<1>1. q \in UserRecord
  BY Z3T(20) DEF UserRecord
<1>2. Entered(r, p) = [q EXCEPT !.PartySolicitud = 0]
  BY DEF Entered
<1>3. Entered(r, p) \in UserRecord
  <2> DEFINE none == 0
  <2>1. none \in {0} \union Indices
    OBVIOUS
  <2> HIDE DEF q, none
  <2>2. [q EXCEPT !.PartySolicitud = none] \in UserRecord
    BY <1>1, <2>1, Z3T(20) DEF UserRecord
  <2> QED BY <1>2, <2>2 DEF none
<1> QED BY <1>3 DEF Entered, UserRecord

\* ... a character enters or leaves the game,
LEMMA UserLogs ==
  ASSUME NEW r \in UserRecord, NEW b \in BOOLEAN
  PROVE  [r EXCEPT !.UserLogged = b] \in UserRecord
BY Z3T(20) DEF UserRecord

\* ... and a member leaves its party, credited.
LEMMA UserLeaves ==
  ASSUME NEW r \in UserRecord, NEW l \in Levels, NEW b \in BOOLEAN
  PROVE  Left(r, l, b) \in UserRecord /\ Left(r, l, b).PartyIndex = 0
<1> DEFINE q1 == [r EXCEPT !.PartyIndex = 0]
           q2 == [q1 EXCEPT !.ELV = l]
<1>1. q1 \in UserRecord
  BY Z3T(20) DEF UserRecord
<1>2. q2 \in UserRecord
  <2> HIDE DEF q1
  <2> QED BY <1>1, Z3T(20) DEF UserRecord
<1>3. [q2 EXCEPT !.UserLogged = b] \in UserRecord
  <2> HIDE DEF q2
  <2> QED BY <1>2, UserLogs
<1> QED BY <1>3 DEF Left, UserRecord

\* Steps that change nobody's PartyIndex and no leader are stutters of Groups.
LEMMA GroupsStay ==
  ASSUME \A v \in Users : user'[v].PartyIndex = user[v].PartyIndex,
         \A p \in Indices : Parties'[p].Fundador = Parties[p].Fundador
  PROVE  GroupStep
BY DEF GroupStep, Groups!vars

\* An entry without a party has no leader, a party has one.
LEMMA LeaderOrNone ==
  ASSUME IInv, NEW p \in Indices
  PROVE  IF Parties[p].exists THEN Parties[p].Fundador \in Users ELSE Parties[p].Fundador = 0
<1>1. Sound(Parties[p])
  BY DEF IInv
<1>2. CASE Parties[p].exists
  <2> DEFINE P == Parties[p]
  <2> HIDE DEF P
  <2>1. Seated(P) /\ P.CantMiembros # 0 /\ P.Fundador = P.members[0].UserIndex
    BY <1>1, <1>2 DEF Sound, P
  <2>2. 0 < P.CantMiembros
    BY <2>1, PlaceTypes DEF Seated
  <2>3. P.members[0].UserIndex # 0 /\ P.members[0] \in Member
    BY <2>1, <2>2, PlaceTypes DEF Seated, PartyRecord
  <2> QED BY <1>2, <2>1, <2>3 DEF Member, P
<1>3. CASE ~Parties[p].exists
  BY <1>1, <1>3 DEF Sound, NoParty
<1> QED BY <1>2, <1>3

\* A party is created in the first free entry, with its founder alone in it.
LEMMA CrearPartyStep ==
  ASSUME IInv, NEW u \in Users, CrearParty(u)
  PROVE  IInv' /\ GroupStep
<1> DEFINE N == NuevoMiembro(NewParty, u)
           Q == HacerLeader(N, u)
<1>1. PICK p \in Indices :
        /\ NextParty(p) /\ Parties' = [Parties EXCEPT ![p] = Q]
        /\ user' = [user EXCEPT ![u] = Entered(user[u], p)]
  BY DEF CrearParty
<1>2. user[u].UserLogged /\ user[u].PartyIndex = 0 /\ owed' = owed
  BY DEF CrearParty
<1>3. Parties[p] = NoParty
  BY <1>1 DEF IInv, Sound, NextParty
<1>4. /\ Seated(N) /\ N.exists /\ IsMember(N, u) /\ Pending(N, u) = 0
      /\ \A v \in Users \ {u} : SameFor(N, NewParty, v)
  BY NobodyThere, Reads, Joined
<1> HIDE DEF N
<1>5. /\ Seated(Q) /\ Q.CantMiembros # 0 /\ Q.exists /\ Q.Fundador = u
      /\ Q.members[0].UserIndex = u /\ \A v \in Users : SameFor(Q, N, v)
  BY <1>4, Led
<1> HIDE DEF Q
<1>6. Sound(Q)
  BY <1>5 DEF Sound
<1>7. user \in [Users -> UserRecord] /\ owed \in [Users -> Nat] /\ DOMAIN Parties = Indices
  BY DEF IInv, TypeOK
<1>8. /\ user'[u] \in UserRecord /\ user'[u].PartyIndex = p /\ user'[u].UserLogged
      /\ \A v \in Users \ {u} : user'[v] = user[v]
      /\ user' \in [Users -> UserRecord]
  <2> DEFINE r == Entered(user[u], p)
  <2>1. user[u] \in UserRecord
    BY <1>7
  <2>2. r \in UserRecord /\ r.PartyIndex = p /\ r.UserLogged = user[u].UserLogged
    BY <2>1, UserEnters
  <2> HIDE DEF r
  <2>3. user' = [user EXCEPT ![u] = r]
    BY <1>1 DEF r
  <2> QED BY <1>2, <1>7, <2>2, <2>3
<1>9. ASSUME NEW v \in Users PROVE Fits(p, Q, v)
  <2>1. CASE v = u
    <3>1. Pending(Q, u) = 0 /\ IsMember(Q, u)
      BY <1>4, <1>5 DEF SameFor
    <3>2. owed[u] = 0
      BY <1>2 DEF IInv, ExpConserved
    <3> QED BY <1>2, <1>8, <2>1, <3>1, <3>2 DEF Fits
  <2>2. CASE v # u
    <3>1. SameFor(Q, NoParty, v)
      BY <1>4, <1>5, <2>2, NobodyThere DEF SameFor, Pending
    <3> QED BY <1>2, <1>3, <1>8, <2>2, <3>1, Untouched
  <2> QED BY <2>1, <2>2
<1>10. IInv'
  BY <1>1, <1>2, <1>6, <1>7, <1>8, <1>9, OneParty
<1>11. GroupStep
  <2>1. Parties[p].Fundador = 0
    BY <1>3 DEF NoParty
  <2>2. /\ Parties'[p].Fundador = u
        /\ \A q \in Indices \ {p} : Parties'[q].Fundador = Parties[q].Fundador
    BY <1>1, <1>5, <1>7
  <2>3. Groups!Found(u, p)
    <3>1. [v \in Users |-> user[v].PartyIndex]'
            = [[v \in Users |-> user[v].PartyIndex] EXCEPT ![u] = p]
      BY <1>8
    <3>2. [q \in Indices |-> Parties[q].Fundador]'
            = [[q \in Indices |-> Parties[q].Fundador] EXCEPT ![p] = u]
      BY <2>2
    <3> QED BY <1>2, <2>1, <3>1, <3>2 DEF Groups!Found
  <2> QED BY <2>3 DEF GroupStep, Groups!Next
<1> QED BY <1>10, <1>11

\* The leader lets a user in.
LEMMA AprobarStep ==
  ASSUME IInv, NEW l \in Users, NEW u \in Users, AprobarIngresoAParty(l, u)
  PROVE  IInv' /\ GroupStep
<1>1. PICK p \in Indices :
        /\ Leads(l, p) /\ Grantable(u, p) /\ HasRoom(Parties[p])
        /\ Parties' = [Parties EXCEPT ![p] = NuevoMiembro(Parties[p], u)]
        /\ user' = [user EXCEPT ![u] = Entered(user[u], p)]
  BY DEF AprobarIngresoAParty
<1> DEFINE P == Parties[p]
           Q == NuevoMiembro(P, u)
<1>2. user[u].UserLogged /\ user[u].PartyIndex = 0 /\ owed' = owed
  BY <1>1 DEF AprobarIngresoAParty, Grantable
<1>3. P.exists /\ Sound(P) /\ Seated(P) /\ ~IsMember(P, u)
  BY <1>1, <1>2, Reads DEF Leads, InParty
<1>4. user \in [Users -> UserRecord] /\ owed \in [Users -> Nat] /\ DOMAIN Parties = Indices
  BY DEF IInv, TypeOK
<1>5. P.CantMiembros # 0 /\ P.Fundador = P.members[0].UserIndex
  BY <1>3 DEF Sound
<1>6. /\ Seated(Q) /\ Q.CantMiembros # 0 /\ Q.exists /\ Q.Fundador = P.Fundador
      /\ Q.members[0].UserIndex = P.members[0].UserIndex
      /\ IsMember(Q, u) /\ Pending(Q, u) = 0
      /\ \A v \in Users \ {u} : SameFor(Q, P, v)
  <2>1. user[u] \in UserRecord /\ HasRoom(P)
    BY <1>1, <1>4
  <2> HIDE DEF P
  <2> QED BY <1>3, <1>5, <2>1, Joined
<1> HIDE DEF Q
<1>7. Sound(Q)
  BY <1>5, <1>6 DEF Sound
<1>8. /\ user'[u] \in UserRecord /\ user'[u].PartyIndex = p /\ user'[u].UserLogged
      /\ \A v \in Users \ {u} : user'[v] = user[v]
      /\ user' \in [Users -> UserRecord]
  <2> DEFINE r == Entered(user[u], p)
  <2>1. user[u] \in UserRecord
    BY <1>4
  <2>2. r \in UserRecord /\ r.PartyIndex = p /\ r.UserLogged = user[u].UserLogged
    BY <2>1, UserEnters
  <2> HIDE DEF r
  <2>3. user' = [user EXCEPT ![u] = r]
    BY <1>1 DEF r
  <2> QED BY <1>2, <1>4, <2>2, <2>3
<1>9. ASSUME NEW v \in Users PROVE Fits(p, Q, v)
  <2>1. CASE v = u
    <3>1. owed[u] = 0
      BY <1>2 DEF IInv, ExpConserved
    <3> QED BY <1>2, <1>6, <1>8, <2>1, <3>1 DEF Fits
  <2>2. CASE v # u
    BY <1>2, <1>6, <1>8, <2>2, Untouched
  <2> QED BY <2>1, <2>2
<1>10. IInv'
  BY <1>1, <1>2, <1>4, <1>7, <1>8, <1>9, OneParty DEF Q
<1>11. GroupStep
  <2>1. P.Fundador # 0
    BY <1>3, LeaderOrNone, PartyAssumption DEF Users
  <2>2. /\ Parties'[p].Fundador = P.Fundador
        /\ \A q \in Indices \ {p} : Parties'[q].Fundador = Parties[q].Fundador
    BY <1>1, <1>4, <1>6 DEF Q
  <2>3. Groups!Join(u, p)
    <3>1. [q \in Indices |-> Parties[q].Fundador]' = [q \in Indices |-> Parties[q].Fundador]
      BY <2>2
    <3>2. [v \in Users |-> user[v].PartyIndex]'
            = [[v \in Users |-> user[v].PartyIndex] EXCEPT ![u] = p]
      BY <1>8
    <3> QED BY <1>2, <2>1, <3>1, <3>2 DEF Groups!Join
  <2> QED BY <2>3 DEF GroupStep, Groups!Next
<1> QED BY <1>10, <1>11

\* The leader hands the party over.
LEMMA TransformarStep ==
  ASSUME IInv, NEW l \in Users, NEW u \in Users, TransformarEnLider(l, u)
  PROVE  IInv' /\ GroupStep
<1>1. PICK p \in Indices :
        /\ Leads(l, p) /\ IsMember(Parties[p], u) /\ user[u].PartyIndex = p
        /\ Parties' = [Parties EXCEPT ![p] = HacerLeader(Parties[p], u)]
  BY DEF TransformarEnLider
<1> DEFINE P == Parties[p]
           Q == HacerLeader(P, u)
<1>2. user' = user /\ owed' = owed
  BY DEF TransformarEnLider
<1>3. P.exists /\ Seated(P)
  BY <1>1, Reads DEF Leads, InParty
<1>4. user \in [Users -> UserRecord] /\ owed \in [Users -> Nat] /\ DOMAIN Parties = Indices
  BY DEF IInv, TypeOK
<1>5. /\ Seated(Q) /\ Q.CantMiembros # 0 /\ Q.exists /\ Q.Fundador = u
      /\ Q.members[0].UserIndex = u /\ \A v \in Users : SameFor(Q, P, v)
  <2> HIDE DEF P
  <2> QED BY <1>1, <1>3, Led DEF P
<1> HIDE DEF Q
<1>6. Sound(Q)
  BY <1>5 DEF Sound
<1>7. \A v \in Users : Fits(p, Q, v)
  BY <1>2, <1>5, Untouched
<1>8. IInv'
  BY <1>1, <1>2, <1>4, <1>6, <1>7, OneParty DEF Q
<1>9. GroupStep
  <2>1. /\ Parties'[p].Fundador = u
        /\ \A q \in Indices \ {p} : Parties'[q].Fundador = Parties[q].Fundador
    BY <1>1, <1>4, <1>5 DEF Q
  <2>2. user[u].PartyIndex # 0
    BY <1>1, Reads
  <2>3. [v \in Users |-> user[v].PartyIndex]' = [v \in Users |-> user[v].PartyIndex]
    BY <1>2
  <2>4. [q \in Indices |-> Parties[q].Fundador]'
          = [[q \in Indices |-> Parties[q].Fundador] EXCEPT ![p] = u]
    BY <2>1
  <2>5. Groups!HandOver(u)
    BY <1>1, <2>2, <2>3, <2>4 DEF Groups!HandOver
  <2> QED BY <2>5 DEF GroupStep, Groups!Next
<1> QED BY <1>8, <1>9

\* A member that does not lead leaves.
LEMMA MemberLeavesStep ==
  ASSUME IInv, NEW p \in Indices, NEW u \in Users, NEW logged \in BOOLEAN,
         IsMember(Parties[p], u), ~Dissolves(Parties[p], u), MemberLeaves(p, u, logged)
  PROVE  IInv' /\ GroupStep
<1> DEFINE P == Parties[p]
           credited == IF Pending(P, u) > 0 THEN {u} ELSE {}
<1>1. PICK lv \in LevelsAfter(credited) :
        /\ user' = [user EXCEPT ![u] = Left(user[u], lv[u], logged)]
        /\ Parties' = [Parties EXCEPT ![p] =
             [P EXCEPT !.members = Without(P.members, PlaceOf(P, u)),
                       !.CantMiembros = P.CantMiembros - 1,
                       !.SumaNivelesElevados = P.SumaNivelesElevados - Weight[lv[u]]]]
        /\ owed' = [owed EXCEPT ![u] = owed[u] - Pending(P, u)]
  BY Zenon DEF MemberLeaves
<1> DEFINE w == P.SumaNivelesElevados - Weight[lv[u]]
           Q == With(P, Without(P.members, PlaceOf(P, u)), P.CantMiembros - 1, w)
<1>2. lv[u] \in Levels
  BY DEF LevelsAfter
<1>3. /\ P.exists /\ Seated(P) /\ Sound(P) /\ user[u].PartyIndex = p
      /\ owed[u] = Pending(P, u) /\ P \in PartyRecord
  BY Reads
<1>4. w \in Int
  <2>1. Weight[lv[u]] \in Nat /\ P.SumaNivelesElevados \in Int
    BY <1>2, <1>3, PartyAssumption DEF Levels, PartyRecord
  <2> QED BY <2>1
<1>5. user \in [Users -> UserRecord] /\ owed \in [Users -> Nat] /\ DOMAIN Parties = Indices
  BY DEF IInv, TypeOK
<1>6. Parties' = [Parties EXCEPT ![p] = Q]
  BY <1>1 DEF With
<1>7. P.members[0].UserIndex # u /\ P.CantMiembros # 0 /\ P.Fundador = P.members[0].UserIndex
  BY <1>3 DEF Dissolves, Sound
<1>8. /\ Seated(Q) /\ Q.CantMiembros # 0 /\ Q.exists = P.exists /\ Q.Fundador = P.Fundador
      /\ Q.members[0].UserIndex = P.members[0].UserIndex /\ ~IsMember(Q, u)
      /\ \A v \in Users \ {u} : SameFor(Q, P, v)
  <2>1. IsMember(P, u)
    OBVIOUS
  <2> HIDE DEF P, w
  <2> QED BY <1>3, <1>4, <1>7, <2>1, Departed
<1> HIDE DEF Q
<1>9. Sound(Q)
  BY <1>3, <1>7, <1>8 DEF Sound
<1>10. /\ user'[u].PartyIndex = 0
       /\ \A v \in Users \ {u} : user'[v] = user[v]
       /\ user' \in [Users -> UserRecord]
  <2> DEFINE r == Left(user[u], lv[u], logged)
  <2>1. r \in UserRecord /\ r.PartyIndex = 0
    BY <1>2, <1>5, UserLeaves
  <2> HIDE DEF r
  <2>2. user' = [user EXCEPT ![u] = r]
    BY <1>1 DEF r
  <2> QED BY <1>5, <2>1, <2>2
<1>11. ASSUME NEW v \in Users PROVE Fits(p, Q, v)
  <2>1. CASE v = u
    <3>1. owed'[u] = 0 /\ Pending(Q, u) = 0
      BY <1>1, <1>3, <1>5, <1>8 DEF Pending
    <3> QED BY <1>3, <1>8, <1>10, <2>1, <3>1 DEF Fits
  <2>2. CASE v # u
    <3>1. owed'[v] = owed[v]
      BY <1>1, <1>5, <2>2
    <3> QED BY <1>8, <1>10, <2>2, <3>1, Untouched
  <2> QED BY <2>1, <2>2
<1>12. IInv'
  <2>1. DOMAIN owed' = Users /\ owed' = [v \in Users |-> owed'[v]]
    BY <1>1, <1>5
  <2> QED BY <1>6, <1>9, <1>10, <1>11, <2>1, OneParty
<1>13. GroupStep
  <2>1. \A q \in Indices : Parties'[q].Fundador = Parties[q].Fundador
    BY <1>5, <1>6, <1>8
  <2>2. [q \in Indices |-> Parties[q].Fundador]' = [q \in Indices |-> Parties[q].Fundador]
    BY <2>1
  <2>3. p # 0
    BY Reads
  <2>4. [v \in Users |-> user[v].PartyIndex]'
          = [[v \in Users |-> user[v].PartyIndex] EXCEPT ![u] = 0]
    BY <1>10
  <2>5. Groups!Leave(u)
    BY <1>3, <1>7, <2>2, <2>3, <2>4 DEF Groups!Leave
  <2> QED BY <2>5 DEF GroupStep, Groups!Next
<1> QED BY <1>12, <1>13

\* The leader leaves, and every member is credited and out.
LEMMA PartyDissolvesStep ==
  ASSUME IInv, NEW p \in Indices, NEW u \in Users, NEW logged \in BOOLEAN,
         IsMember(Parties[p], u), PartyDissolves(p, u, logged)
  PROVE  IInv' /\ GroupStep
<1> DEFINE P == Parties[p]
           stays(v) == IF v = u THEN logged ELSE user[v].UserLogged
<1>1. PICK lv \in LevelsAfter({v \in Users : Pending(P, v) > 0}) :
        /\ user' = [v \in Users |-> IF IsMember(P, v) THEN Left(user[v], lv[v], stays(v))
                                                      ELSE user[v]]
        /\ Parties' = [Parties EXCEPT ![p] = NoParty]
        /\ owed' = [v \in Users |-> owed[v] - Pending(P, v)]
  BY Zenon DEF PartyDissolves
<1>2. \A v \in Users : lv[v] \in Levels
  BY DEF LevelsAfter
<1>3. user \in [Users -> UserRecord] /\ owed \in [Users -> Nat] /\ DOMAIN Parties = Indices
  BY DEF IInv, TypeOK
<1>4. ASSUME NEW v \in Users
      PROVE  /\ user'[v] \in UserRecord
             /\ IsMember(P, v) => user'[v].PartyIndex = 0
             /\ ~IsMember(P, v) => user'[v] = user[v]
  <2>1. user[v] \in UserRecord /\ stays(v) \in BOOLEAN
    BY <1>3 DEF UserRecord
  <2> HIDE DEF stays, P
  <2>2. Left(user[v], lv[v], stays(v)) \in UserRecord
        /\ Left(user[v], lv[v], stays(v)).PartyIndex = 0
    BY <1>2, <2>1, UserLeaves
  <2>3. user'[v] = IF IsMember(P, v) THEN Left(user[v], lv[v], stays(v)) ELSE user[v]
    BY <1>1
  <2> QED BY <2>1, <2>2, <2>3
<1>5. user' \in [Users -> UserRecord]
  <2>1. user' = [v \in Users |-> user'[v]]
    BY <1>1, Zenon
  <2> QED BY <1>4, <2>1
<1>6. ASSUME NEW v \in Users PROVE Fits(p, NoParty, v)
  <2>1. ~IsMember(NoParty, v) /\ Pending(NoParty, v) = 0 /\ owed'[v] = owed[v] - Pending(P, v)
        /\ owed[v] \in Nat
    BY <1>1, <1>3, NobodyThere
  <2>2. CASE IsMember(P, v)
    <3>1. user[v].PartyIndex = p /\ owed[v] = Pending(P, v)
      BY <2>2, Reads
    <3> QED BY <1>4, <2>1, <2>2, <3>1 DEF Fits
  <2>3. CASE ~IsMember(P, v)
    <3>1. user[v].PartyIndex # p /\ Pending(P, v) = 0
      BY <2>3, Reads DEF Pending
    <3>2. user[v].PartyIndex = 0 => owed[v] = 0
      BY DEF IInv, ExpConserved
    <3> HIDE DEF P
    <3> QED BY <1>4, <2>1, <2>3, <3>1, <3>2 DEF Fits
  <2> QED BY <2>2, <2>3
<1>7. IInv'
  <2>1. Sound(NoParty)
    BY DEF Sound, NoParty
  <2>2. DOMAIN owed' = Users /\ owed' = [v \in Users |-> owed'[v]]
    BY <1>1
  <2> QED BY <1>1, <1>5, <1>6, <2>1, <2>2, OneParty
<1>8. GroupStep
  <2>1. Parties[p].Fundador # 0
    BY Reads, LeaderOrNone, PartyAssumption DEF Users
  <2>2. /\ Parties'[p].Fundador = 0
        /\ \A q \in Indices \ {p} : Parties'[q].Fundador = Parties[q].Fundador
    BY <1>1, <1>3 DEF NoParty
  <2>3. [q \in Indices |-> Parties[q].Fundador]'
          = [[q \in Indices |-> Parties[q].Fundador] EXCEPT ![p] = 0]
    BY <2>2
  <2>4. \A v \in Users : user'[v].PartyIndex
                           = (IF user[v].PartyIndex = p THEN 0 ELSE user[v].PartyIndex)
    BY <1>4, Reads
  <2>5. [v \in Users |-> user[v].PartyIndex]'
          = [v \in Users |-> IF [w \in Users |-> user[w].PartyIndex][v] = p
                             THEN 0 ELSE [w \in Users |-> user[w].PartyIndex][v]]
    BY <2>4
  <2>6. Groups!Dissolve(p)
    BY <2>1, <2>3, <2>5 DEF Groups!Dissolve
  <2> QED BY <2>6 DEF GroupStep, Groups!Next
<1> QED BY <1>7, <1>8

\* Either of them: a command, an expulsion or a closed socket.
LEMMA SaleMiembroStep ==
  ASSUME IInv, NEW p \in Indices, NEW u \in Users, NEW logged \in BOOLEAN,
         SaleMiembro(p, u, logged)
  PROVE  IInv' /\ GroupStep
BY MemberLeavesStep, PartyDissolvesStep DEF SaleMiembro

\* Members near a kill have their share put aside.
LEMMA ObtenerExitoStep ==
  ASSUME IInv, NEW u \in Users, ObtenerExito(u)
  PROVE  IInv' /\ GroupStep
<1> DEFINE gains(P, xp) ==
             \E near \in SUBSET {i \in Places : P.members[i].UserIndex > 0} :
               \A i \in Places :
                 IF i \in near THEN xp[i] \in Shared(P.SumaNivelesElevados, P.members[i].Experiencia)
                               ELSE xp[i] = P.members[i].Experiencia
<1>1. PICK p \in Indices, xp \in [Places -> -1..MaxExp] :
        /\ InParty(u, p) /\ gains(Parties[p], xp)
        /\ Parties' = [Parties EXCEPT ![p].members =
             [i \in Places |-> [UserIndex |-> Parties[p].members[i].UserIndex, Experiencia |-> xp[i]]]]
        /\ owed' = [v \in Users |->
             IF IsMember(Parties[p], v)
             THEN owed[v] - Pending(Parties[p], v) + xp[PlaceOf(Parties[p], v)] ELSE owed[v]]
  BY Zenon DEF ObtenerExito
<1> DEFINE P == Parties[p]
           Q == Refilled(P, xp)
<1>2. user' = user
  BY DEF ObtenerExito
<1>3. P.exists /\ Seated(P) /\ Sound(P) /\ P \in PartyRecord
  BY <1>1, Reads DEF InParty
<1>4. user \in [Users -> UserRecord] /\ owed \in [Users -> Nat] /\ DOMAIN Parties = Indices
  BY DEF IInv, TypeOK
<1>5. xp \in [Places -> Nat]
  <2> SUFFICES ASSUME NEW i \in Places PROVE xp[i] \in Nat
    BY <1>1
  <2>1. P.members[i].Experiencia \in Nat /\ P.SumaNivelesElevados \in Int
    BY <1>3 DEF PartyRecord, Member
  <2>2. \/ xp[i] \in Shared(P.SumaNivelesElevados, P.members[i].Experiencia)
        \/ xp[i] = P.members[i].Experiencia
    BY <1>1
  <2> HIDE DEF P
  <2> QED BY <2>1, <2>2, PartyAssumption DEF Shared
<1>6. Parties' = [Parties EXCEPT ![p] = Q]
  BY <1>1 DEF Refilled
<1>7. /\ Seated(Q) /\ Q.CantMiembros = P.CantMiembros
      /\ Q.exists = P.exists /\ Q.Fundador = P.Fundador
      /\ Q.members[0].UserIndex = P.members[0].UserIndex
      /\ \A v \in Users :
           /\ IsMember(Q, v) <=> IsMember(P, v)
           /\ IsMember(P, v) => Pending(Q, v) = xp[PlaceOf(P, v)]
  <2> HIDE DEF P
  <2> QED BY <1>3, <1>5, RefilledKeeps
<1> HIDE DEF Q
<1>8. Sound(Q)
  BY <1>3, <1>7 DEF Sound
<1>9. ASSUME NEW v \in Users PROVE Fits(p, Q, v)
  <2>1. CASE IsMember(P, v)
    <3>1. user[v].PartyIndex = p /\ owed[v] = Pending(P, v) /\ user[v].UserLogged
      BY <2>1, Reads
    <3>2. PlaceOf(P, v) \in Places
      BY <2>1, PlaceFound
    <3>3. owed'[v] = owed[v] - owed[v] + xp[PlaceOf(P, v)]
      BY <1>1, <2>1, <3>1
    <3>4. owed'[v] = Pending(Q, v)
      <4>1. owed[v] \in Nat /\ xp[PlaceOf(P, v)] \in Nat
        BY <1>4, <1>5, <3>2
      <4> QED BY <1>7, <2>1, <3>3, <4>1
    <3> QED BY <1>2, <1>7, <2>1, <3>1, <3>4 DEF Fits
  <2>2. CASE ~IsMember(P, v)
    <3>1. owed'[v] = owed[v] /\ SameFor(Q, P, v)
      BY <1>1, <1>7, <2>2 DEF SameFor, Pending
    <3> QED BY <1>2, <3>1, Untouched
  <2> QED BY <2>1, <2>2
<1>10. IInv'
  <2>1. DOMAIN owed' = Users /\ owed' = [v \in Users |-> owed'[v]]
    <3> HIDE DEF P
    <3> QED BY <1>1, Zenon
  <2> QED BY <1>2, <1>4, <1>6, <1>8, <1>9, <2>1, OneParty
<1>11. GroupStep
  <2>1. \A q \in Indices : Parties'[q].Fundador = Parties[q].Fundador
    BY <1>4, <1>6, <1>7
  <2> QED BY <1>2, <2>1, GroupsStay
<1> QED BY <1>10, <1>11

\* The world save credits each user with exactly what was put aside for it.
LEMMA ActualizaStep ==
  ASSUME IInv, ActualizaExperiencias
  PROVE  IInv' /\ GroupStep
<1> DEFINE holding(u) == {p \in Indices : Parties[p].exists /\ Pending(Parties[p], u) > 0}
           credit(u) == IF holding(u) = {} THEN 0
                        ELSE Pending(Parties[CHOOSE p \in holding(u) : TRUE], u)
           zero == [i \in Places |-> 0]
<1>1. /\ \E lv \in LevelsAfter({u \in Users : holding(u) # {}}) :
           user' = [u \in Users |-> [user[u] EXCEPT !.ELV = lv[u]]]
      /\ Parties' = [p \in Indices |-> IF Parties[p].exists THEN Flushed(Parties[p]) ELSE Parties[p]]
      /\ owed' = [u \in Users |-> owed[u] - credit(u)]
  BY Zenon DEF ActualizaExperiencias
<1>2. PICK lv \in LevelsAfter({u \in Users : holding(u) # {}}) :
        user' = [u \in Users |-> [user[u] EXCEPT !.ELV = lv[u]]]
  BY <1>1
<1>3. user \in [Users -> UserRecord] /\ owed \in [Users -> Nat]
  BY DEF IInv, TypeOK
<1>4. ASSUME NEW v \in Users PROVE credit(v) = owed[v]
  <2>1. \A p \in Indices : /\ user[v].PartyIndex = p <=> IsMember(Parties[p], v)
                           /\ IsMember(Parties[p], v) => Parties[p].exists
                           /\ user[v].PartyIndex \in {0, p} => owed[v] = Pending(Parties[p], v)
                           /\ p # 0
    BY Reads
  <2>2. user[v].PartyIndex \in {0} \union Indices
    BY <1>3 DEF UserRecord
  <2>3. CASE user[v].PartyIndex = 0
    <3>1. \A p \in Indices : Pending(Parties[p], v) = 0
      BY <2>1, <2>3 DEF Pending
    <3>2. holding(v) = {}
      BY <3>1
    <3>3. owed[v] = 0
      BY <2>3 DEF IInv, ExpConserved
    <3> QED BY <3>2, <3>3
  <2>4. CASE user[v].PartyIndex \in Indices
    <3> DEFINE q == user[v].PartyIndex
    <3>1. \A p \in Indices : p # q => Pending(Parties[p], v) = 0
      BY <2>1, <2>4 DEF Pending
    <3>2. owed[v] = Pending(Parties[q], v) /\ Parties[q].exists /\ owed[v] \in Nat
      BY <1>3, <2>1, <2>4
    <3>3. \A p \in holding(v) : p = q
      BY <3>1
    <3>4. CASE holding(v) = {}
      <4>1. ~(Pending(Parties[q], v) > 0)
        BY <2>4, <3>2, <3>4
      <4> QED BY <3>2, <3>4, <4>1
    <3>5. CASE holding(v) # {}
      <4>1. (CHOOSE p \in holding(v) : TRUE) \in holding(v)
        BY <3>5
      <4>2. (CHOOSE p \in holding(v) : TRUE) = q
        BY <3>3, <4>1
      <4> QED BY <3>2, <3>5, <4>2
    <3> QED BY <3>4, <3>5
  <2> QED BY <2>2, <2>3, <2>4
<1> HIDE DEF credit, holding
<1>5. owed' = [u \in Users |-> 0]
  BY <1>1, <1>3, <1>4
<1>6. ASSUME NEW v \in Users
      PROVE  /\ user'[v] \in UserRecord /\ user'[v].PartyIndex = user[v].PartyIndex
             /\ user'[v].UserLogged = user[v].UserLogged
  <2>1. user[v] \in UserRecord /\ lv[v] \in Levels /\ user'[v] = [user[v] EXCEPT !.ELV = lv[v]]
    BY <1>2, <1>3 DEF LevelsAfter
  <2>2. [user[v] EXCEPT !.ELV = lv[v]] \in UserRecord
    BY <2>1, Z3T(20) DEF UserRecord
  <2> QED BY <2>1, <2>2 DEF UserRecord
<1>7. ASSUME NEW p \in Indices
      PROVE  /\ Sound(Parties'[p]) /\ Parties'[p] \in PartyRecord
             /\ Parties'[p].exists = Parties[p].exists
             /\ Parties'[p].Fundador = Parties[p].Fundador
             /\ \A v \in Users : /\ IsMember(Parties'[p], v) <=> IsMember(Parties[p], v)
                                 /\ Pending(Parties'[p], v) = 0
  <2> DEFINE P == Parties[p]
             Q == Refilled(P, zero)
  <2>1. Sound(P) /\ P \in PartyRecord
    BY DEF IInv, TypeOK
  <2>2. CASE P.exists
    <3>1. Parties'[p] = Q
      BY <1>1, <2>2 DEF Flushed, Refilled
    <3>2. Seated(P)
      BY <2>1, <2>2 DEF Sound
    <3> HIDE DEF P
    <3>3. /\ Seated(Q) /\ Q.CantMiembros = P.CantMiembros
          /\ Q.exists = P.exists /\ Q.Fundador = P.Fundador
          /\ Q.members[0].UserIndex = P.members[0].UserIndex
          /\ \A v \in Users :
               /\ IsMember(Q, v) <=> IsMember(P, v)
               /\ IsMember(P, v) => Pending(Q, v) = zero[PlaceOf(P, v)]
      <4>1. zero \in [Places -> Nat]
        OBVIOUS
      <4> HIDE DEF zero
      <4> QED BY <3>2, <4>1, RefilledKeeps
    <3> HIDE DEF Q
    <3>4. Sound(Q) /\ Q \in PartyRecord
      BY <2>1, <2>2, <3>3 DEF Sound, Seated
    <3>5. ASSUME NEW v \in Users PROVE Pending(Q, v) = 0
      <4>1. CASE IsMember(P, v)
        BY <3>3, <4>1, PlaceFound
      <4>2. CASE ~IsMember(P, v)
        BY <3>3, <4>2 DEF Pending
      <4> QED BY <4>1, <4>2
    <3> QED BY <3>1, <3>3, <3>4, <3>5 DEF P
  <2>3. CASE ~P.exists
    <3>1. Parties'[p] = P
      BY <1>1, <2>3
    <3>2. P = NoParty
      BY <2>1, <2>3 DEF Sound
    <3> HIDE DEF P
    <3> QED BY <2>1, <3>1, <3>2, NobodyThere DEF P
  <2> QED BY <2>2, <2>3
<1>8. TypeOK'
  <2>1. Parties' \in [Indices -> PartyRecord]
    <3>1. Parties' = [p \in Indices |-> Parties'[p]]
      BY <1>1, Zenon
    <3> QED BY <1>7, <3>1
  <2>2. user' \in [Users -> UserRecord]
    <3>1. user' = [v \in Users |-> user'[v]]
      BY <1>2, Zenon
    <3> QED BY <1>6, <3>1
  <2> QED BY <1>5, <2>1, <2>2 DEF TypeOK
<1>9. MembershipAgrees'
  BY <1>6, <1>7 DEF IInv, MembershipAgrees, IsMember
<1>10. ExpConserved'
  <2> SUFFICES ASSUME NEW v \in Users
               PROVE  IF user'[v].PartyIndex = 0 THEN owed'[v] = 0
                      ELSE owed'[v] = Pending(Parties'[user'[v].PartyIndex], v)
    BY DEF ExpConserved, Pending, IsMember, PlaceOf
  <2>1. user'[v].PartyIndex \in {0} \union Indices
    BY <1>6 DEF UserRecord
  <2> QED BY <1>5, <1>7, <2>1
<1>11. IInv'
  BY <1>7, <1>8, <1>9, <1>10 DEF IInv, Sound, Seated, OnePlace
<1>12. GroupStep
  BY <1>6, <1>7, GroupsStay
<1> QED BY <1>11, <1>12

\* What the rest of the server does to users in or out of parties.
LEMMA UserStep ==
  ASSUME IInv, NEW u \in Users,
         \/ SolicitarIngresoAParty(u) \/ ConnectUser(u) \/ CheckUserLevel(u)
         \/ /\ user' = [user EXCEPT ![u].UserLogged = FALSE]
            /\ UNCHANGED <<Parties, owed>>
            /\ \A p \in Indices : ~InParty(u, p)
  PROVE  IInv' /\ GroupStep
<1>1. user \in [Users -> UserRecord] /\ user[u] \in UserRecord
  BY DEF IInv, TypeOK
<1>2. UNCHANGED <<Parties, owed>>
  BY DEF SolicitarIngresoAParty, ConnectUser, CheckUserLevel
<1>3. \A v \in Users : user[v].PartyIndex # 0 => user[v].UserLogged
  BY DEF IInv, MembershipAgrees
<1>4. ASSUME NEW r \in UserRecord, user' = [user EXCEPT ![u] = r],
             r.PartyIndex = user[u].PartyIndex, r.UserLogged \/ r.PartyIndex = 0
      PROVE  IInv' /\ GroupStep
  <2>1. user' \in [Users -> UserRecord]
        /\ \A v \in Users : /\ user'[v].PartyIndex = user[v].PartyIndex
                            /\ user'[v].UserLogged \/ user[v].PartyIndex = 0
    BY <1>1, <1>3, <1>4
  <2>2. IInv'
    BY <1>2, <2>1, UsersOnly
  <2>3. GroupStep
    BY <1>2, <2>1, GroupsStay
  <2> QED BY <2>2, <2>3
<1>5. CASE SolicitarIngresoAParty(u)
  <2>1. PICK p \in {0} \union {user[t].PartyIndex : t \in Users} :
          user' = [user EXCEPT ![u].PartySolicitud = p]
    BY <1>5 DEF SolicitarIngresoAParty
  <2> DEFINE r == [user[u] EXCEPT !.PartySolicitud = p]
  <2>2. p \in {0} \union Indices
    BY <1>1, <2>1 DEF UserRecord
  <2>3. r \in UserRecord
    BY <1>1, <2>2, Z3T(20) DEF UserRecord
  <2>4. user' = [user EXCEPT ![u] = r]
    BY <2>1
  <2>5. r.PartyIndex = user[u].PartyIndex /\ r.UserLogged = user[u].UserLogged
    BY <1>1 DEF UserRecord
  <2> HIDE DEF r
  <2> QED BY <1>3, <1>4, <2>3, <2>4, <2>5
<1>6. CASE ConnectUser(u)
  <2>1. PICK l \in Levels : user' = [user EXCEPT ![u].UserLogged = TRUE, ![u].ELV = l]
    BY <1>6 DEF ConnectUser
  <2> DEFINE r1 == [user[u] EXCEPT !.UserLogged = TRUE]
             r == [r1 EXCEPT !.ELV = l]
  <2>2. r1 \in UserRecord
    BY <1>1, UserLogs
  <2>3. r \in UserRecord
    <3> HIDE DEF r1
    <3> QED BY <2>2, Z3T(20) DEF UserRecord
  <2>4. user' = [user EXCEPT ![u] = r]
    BY <1>1, <2>1
  <2>5. r.PartyIndex = user[u].PartyIndex /\ r.UserLogged
    BY <1>1 DEF UserRecord
  <2> HIDE DEF r
  <2> QED BY <1>4, <2>3, <2>4, <2>5
<1>7. CASE CheckUserLevel(u)
  <2> DEFINE r == [user[u] EXCEPT !.ELV = user[u].ELV + 1]
  <2>1. user[u].ELV + 1 \in Levels
    BY <1>1, <1>7, PartyAssumption DEF CheckUserLevel, UserRecord, Levels
  <2>2. r \in UserRecord
    <3> DEFINE lv == user[u].ELV + 1
    <3> HIDE DEF lv
    <3> QED BY <1>1, <2>1, Z3T(20) DEF UserRecord, lv
  <2>3. user' = [user EXCEPT ![u] = r]
    BY <1>1, <1>7 DEF CheckUserLevel
  <2>4. r.PartyIndex = user[u].PartyIndex /\ r.UserLogged
    BY <1>1, <1>7 DEF UserRecord, CheckUserLevel
  <2> HIDE DEF r
  <2> QED BY <1>4, <2>2, <2>3, <2>4
<1>8. CASE user' = [user EXCEPT ![u].UserLogged = FALSE] /\ \A p \in Indices : ~InParty(u, p)
  <2> DEFINE r == [user[u] EXCEPT !.UserLogged = FALSE]
  <2>1. r \in UserRecord
    BY <1>1, UserLogs
  <2>2. user' = [user EXCEPT ![u] = r]
    BY <1>8
  <2>3. r.PartyIndex = user[u].PartyIndex
    BY <1>1 DEF UserRecord
  <2>4. user[u].PartyIndex = 0
    <3>1. ASSUME NEW p \in Indices, user[u].PartyIndex = p PROVE FALSE
      BY <1>8, <3>1, Reads DEF InParty
    <3> QED BY <1>1, <3>1 DEF UserRecord
  <2> HIDE DEF r
  <2> QED BY <1>4, <2>1, <2>2, <2>3, <2>4
<1> QED BY <1>5, <1>6, <1>7, <1>8

\* No parties, and no users in the game.
LEMMA InitIInv == Init => IInv
<1> SUFFICES ASSUME Init PROVE IInv
  OBVIOUS
<1>1. TypeOK
  BY NobodyThere, PartyAssumption DEF Init, TypeOK, UserRecord, Levels
<1>2. \A p \in Indices : Parties[p] = NoParty /\ ~Parties[p].exists /\ p # 0
  BY PartyAssumption DEF Init, NoParty, Indices
<1>3. MembershipAgrees /\ ExpConserved
  BY <1>2, NobodyThere DEF Init, MembershipAgrees, ExpConserved
<1> QED BY <1>1, <1>2, <1>3 DEF IInv, Sound

\* Every step keeps the invariant and is a step of Groups.
LEMMA NextStep ==
  ASSUME IInv, [Next]_vars
  PROVE  IInv' /\ GroupStep
<1>1. CASE UNCHANGED vars
  <2>1. GroupStep
    BY <1>1, GroupsStay DEF vars
  <2>2. IInv'
    <3>1. user' \in [Users -> UserRecord]
      BY <1>1 DEF IInv, TypeOK, vars
    <3> QED BY <1>1, <3>1, UsersOnly DEF IInv, MembershipAgrees, vars
  <2> QED BY <2>1, <2>2
<1>2. CASE ActualizaExperiencias
  BY <1>2, ActualizaStep
<1>3. ASSUME NEW u \in Users,
             \/ CrearParty(u) \/ SolicitarIngresoAParty(u) \/ SalirDeParty(u) \/ ObtenerExito(u)
             \/ ConnectUser(u) \/ CheckUserLevel(u) \/ CloseSocket(u)
      PROVE  IInv' /\ GroupStep
  <2>1. CASE SalirDeParty(u)
    BY <2>1, SaleMiembroStep DEF SalirDeParty
  <2>2. CASE CloseSocket(u)
    <3>1. CASE \E p \in Indices : LeavesParty(u, p)
      <4>1. PICK p \in Indices : SaleMiembro(p, u, FALSE)
        BY <2>2, <3>1 DEF CloseSocket
      <4> QED BY <4>1, SaleMiembroStep
    <3>2. CASE ~ \E p \in Indices : LeavesParty(u, p)
      BY <2>2, <3>2, UserStep DEF CloseSocket, LeavesParty
    <3> QED BY <3>1, <3>2
  <2> QED BY <1>3, <2>1, <2>2, CrearPartyStep, ObtenerExitoStep, UserStep
<1>4. ASSUME NEW l \in Users, NEW u \in Users,
             ExpulsarDeParty(l, u) \/ AprobarIngresoAParty(l, u) \/ TransformarEnLider(l, u)
      PROVE  IInv' /\ GroupStep
  <2>1. CASE ExpulsarDeParty(l, u)
    <3>1. user[u].UserLogged \in BOOLEAN
      BY DEF IInv, TypeOK, UserRecord
    <3> QED BY <2>1, <3>1, SaleMiembroStep DEF ExpulsarDeParty
  <2> QED BY <1>4, <2>1, AprobarStep, TransformarStep
<1> QED BY <1>1, <1>2, <1>3, <1>4 DEF Next

-------------------------------------------------------------------------------
(* Theorems *)

\* The invariant holds of every behaviour.
THEOREM PartyInvariant == Spec => []IInv
<1>1. IInv /\ [Next]_vars => IInv'
  BY NextStep
<1> QED BY InitIInv, <1>1, PTL DEF Spec

\* The taken places are the first CantMiembros ones.
LEMMA SeatsCounted ==
  ASSUME NEW P, Seated(P)
  PROVE  Cardinality({i \in Places : P.members[i].UserIndex # 0}) = P.CantMiembros
<1> DEFINE c == P.CantMiembros
<1>1. c \in Nat /\ c <= PARTY_MAXMEMBERS
  BY PlaceTypes DEF Seated
<1>2. {i \in Places : P.members[i].UserIndex # 0} = 0..(c - 1)
  <2>1. {i \in Places : P.members[i].UserIndex # 0} = {i \in Places : i < c}
    BY DEF Seated
  <2> HIDE DEF c
  <2> QED BY <1>1, <2>1, PartyAssumption DEF Places
<1> HIDE DEF c
<1>3. Cardinality(0..(c - 1)) = c
  <2>1. 0 \in Int /\ c - 1 \in Int
    BY <1>1
  <2>2. Cardinality(0..(c - 1)) = (IF 0 > c - 1 THEN 0 ELSE (c - 1) - 0 + 1)
    BY <2>1, FS_Interval
  <2> QED BY <1>1, <2>2
<1> QED BY <1>2, <1>3 DEF c

\* The tables of parties and of users are one: whatever commands, expulsions, closed
\* sockets and kills do and in any order, PartyIndex names the one party that has the
\* user at a place, and every party is packed behind the place of its leader, with
\* CantMiembros the count of its members.
THEOREM PartiesAreSound == Spec => []PartiesSound
<1>1. IInv => PartiesSound
  <2> SUFFICES ASSUME IInv, NEW p \in Indices, Parties[p].exists
               PROVE  /\ Parties[p].Fundador # 0
                      /\ Parties[p].Fundador = Parties[p].members[0].UserIndex
                      /\ OnePlace(Parties[p]) /\ Packed(Parties[p])
                      /\ Parties[p].CantMiembros
                           = Cardinality({i \in Places : Parties[p].members[i].UserIndex # 0})
    BY DEF IInv, PartiesSound, PartyShape
  <2> DEFINE P == Parties[p]
  <2>1. Seated(P) /\ P.Fundador = P.members[0].UserIndex
    BY DEF IInv, Sound
  <2>2. P.Fundador # 0
    BY LeaderOrNone, PartyAssumption DEF Users
  <2> HIDE DEF P
  <2>3. Packed(P)
    <3> SUFFICES ASSUME NEW i \in Places, NEW j \in Places, i < j, P.members[j].UserIndex # 0
                 PROVE  P.members[i].UserIndex # 0
      BY DEF Packed
    <3>1. j < P.CantMiembros /\ P.CantMiembros \in 0..PARTY_MAXMEMBERS
      BY <2>1 DEF Seated
    <3>2. i < P.CantMiembros
      BY <3>1, PlaceTypes
    <3> QED BY <2>1, <3>2 DEF Seated
  <2> QED BY <2>1, <2>2, <2>3, SeatsCounted DEF P, Seated
<1> QED BY <1>1, PartyInvariant, PTL

\* Experience put aside for a user is at its own place until it is credited: no
\* compaction, change of leader, expulsion or dissolution gives it to another or
\* loses it.
THEOREM ExperienceStays == Spec => []ExpConserved
<1>1. IInv => ExpConserved
  BY DEF IInv
<1> QED BY <1>1, PartyInvariant, PTL

\* The parties implement Groups: every step founds, joins, leaves, hands over or
\* dissolves a group as that specification allows, or touches no group at all.
THEOREM PartyImplementsGroups == Spec => ImplementsGroups
<1>1. Init => Groups!Init
  BY DEF Init, Groups!Init, NoParty
<1>2. IInv /\ [Next]_vars => [Groups!Next]_(Groups!vars)
  BY NextStep DEF GroupStep
<1> QED BY <1>1, <1>2, PartyInvariant, PTL DEF Spec, ImplementsGroups, Groups!Spec
================================================================================
