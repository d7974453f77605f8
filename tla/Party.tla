--------------------------------- MODULE Party ---------------------------------
(***************************************************************************)
(* Parties: mdParty.cpp (the commands and the table Parties) and           *)
(* clsParty.cpp (one party: an array of places of which place 0 is the     *)
(* leader's).                                                              *)
(*                                                                         *)
(* Experience counts in whole points.  ELV to the power of                 *)
(* ExponenteNivelParty is the constant Weight: the property that needs it  *)
(* only asks that it grow.  What the commands read and parties do not      *)
(* keep (dead or alive, distances, factions, skills) is left open: each    *)
(* command may find that it holds or that it does not.                     *)
(***************************************************************************)
EXTENDS Integers, FiniteSets, FiniteSetsExt

CONSTANTS
  MaxUsers, MAX_PARTIES, PARTY_MAXMEMBERS,
  MaxLevel,   \* STAT_MAXELV
  Weight,     \* ELV ^ ExponenteNivelParty, by level
  MaxExp,     \* bound: the experience one place accumulates
  MaxSuma     \* bound: how far SumaNivelesElevados may drift from zero

ASSUME PartyAssumption ==
  /\ MaxUsers \in Nat /\ MAX_PARTIES \in Nat
  /\ PARTY_MAXMEMBERS \in Nat \ {0}
  /\ MaxLevel \in Nat \ {0}
  /\ Weight \in [1..MaxLevel -> Nat]
  /\ MaxExp \in Nat /\ MaxSuma \in Nat

VARIABLES
  user,      \* the fields of UserList the parties use
  Parties,   \* the table of parties
  owed       \* history: experience put aside for a user by ObtenerExito, not yet credited

vars == <<user, Parties, owed>>

Users == 1..MaxUsers
Indices == 1..MAX_PARTIES
Levels == 1..MaxLevel
Places == 0..(PARTY_MAXMEMBERS - 1)

UserRecord ==
  [UserLogged : BOOLEAN, PartyIndex : {0} \union Indices,
   PartySolicitud : {0} \union Indices, ELV : Levels]

Member == [UserIndex : {0} \union Users, Experiencia : Nat]

PartyRecord ==
  [exists : BOOLEAN, members : [Places -> Member], Fundador : {0} \union Users,
   CantMiembros : Int, SumaNivelesElevados : Int]

NoMember == [UserIndex |-> 0, Experiencia |-> 0]

\* An entry of Parties with no party.
NoParty ==
  [exists |-> FALSE, members |-> [i \in Places |-> NoMember], Fundador |-> 0,
   CantMiembros |-> 0, SumaNivelesElevados |-> 0]

\* Class_Initialize
NewParty == [NoParty EXCEPT !.exists = TRUE]

Init ==
  /\ user = [u \in Users |-> [UserLogged |-> FALSE, PartyIndex |-> 0, PartySolicitud |-> 0,
                              ELV |-> 1]]
  /\ Parties = [p \in Indices |-> NoParty]
  /\ owed = [u \in Users |-> 0]

-------------------------------------------------------------------------------
(* Steps on one user record *)

Entered(r, p) == [r EXCEPT !.PartyIndex = p, !.PartySolicitud = 0]

\* Out of the party, with the level the credited experience gave, and out of the
\* game too unless logged.
Left(r, level, logged) ==
  [r EXCEPT !.PartyIndex = 0, !.ELV = level, !.UserLogged = logged]

\* CheckUserLevel for the users in credited: none loses a level.
LevelsAfter(credited) ==
  {lv \in [Users -> Levels] :
     \A u \in Users : IF u \in credited THEN lv[u] >= user[u].ELV ELSE lv[u] = user[u].ELV}

-------------------------------------------------------------------------------
(* clsParty *)

IsMember(P, u) == \E i \in Places : P.members[i].UserIndex = u

\* The search every method begins with: the first place of u, and the first free one.
PlaceOf(P, u) ==
  CHOOSE i \in Places :
    P.members[i].UserIndex = u /\ \A j \in Places : j < i => P.members[j].UserIndex # u

HasRoom(P) == IsMember(P, 0)

\* The experience party P holds for user u.
Pending(P, u) == IF IsMember(P, u) THEN P.members[PlaceOf(P, u)].Experiencia ELSE 0

\* NuevoMiembro, in a party that has room: u takes the first free place.
NuevoMiembro(P, u) ==
  [P EXCEPT !.members = [P.members EXCEPT ![PlaceOf(P, 0)] = [UserIndex |-> u, Experiencia |-> 0]],
            !.CantMiembros = P.CantMiembros + 1,
            !.SumaNivelesElevados = P.SumaNivelesElevados + Weight[user[u].ELV]]

\* PuedeEntrar, the part that looks at the party (distance and factions are open).
PuedeEntrar(P) ==
  /\ P.CantMiembros < PARTY_MAXMEMBERS
  /\ P.members[PARTY_MAXMEMBERS - 1].UserIndex = 0
  /\ P.members[0].UserIndex > 0

\* (Mutant: the new leader and the old one change places, their experience does not.)
HacerLeaderByIndex(P, u) ==
  LET k == PlaceOf(P, u)
      index(i) == CASE i = 0 -> u [] i = k /\ i # 0 -> P.members[0].UserIndex
                    [] OTHER -> P.members[i].UserIndex
  IN  [P EXCEPT !.members = [i \in Places |-> [UserIndex |-> index(i),
                                              Experiencia |-> P.members[i].Experiencia]],
                !.Fundador = u]

\* HacerLeader, for a member: it changes places with the leader.
HacerLeader(P, u) ==
  LET k == PlaceOf(P, u)
  IN  [P EXCEPT !.members = [i \in Places |-> CASE i = 0 -> P.members[k]
                                               [] i = k /\ i # 0 -> P.members[0]
                                               [] OTHER -> P.members[i]],
                !.Fundador = P.members[k].UserIndex]

\* The places after the member of place k left and CompactMemberList ran: there was
\* no free place between the others, so those after k move down by one.
Without(m, k) ==
  [i \in Places |-> CASE i < k -> m[i]
                      [] i >= k /\ i + 1 \in Places -> m[i + 1]
                      [] OTHER -> NoMember]

\* SaleMiembro for a member that does not lead: its experience is credited, which
\* may raise its level, and then its level is taken out of the sum.
MemberLeaves(p, u, logged) ==
  LET P == Parties[p]
      k == PlaceOf(P, u)
  IN  \E lv \in LevelsAfter(IF Pending(P, u) > 0 THEN {u} ELSE {}) :
        /\ P.SumaNivelesElevados - Weight[lv[u]] >= -MaxSuma
        /\ user' = [user EXCEPT ![u] = Left(user[u], lv[u], logged)]
        /\ Parties' = [Parties EXCEPT ![p] =
             [P EXCEPT !.members = Without(P.members, k),
                       !.CantMiembros = P.CantMiembros - 1,
                       !.SumaNivelesElevados = P.SumaNivelesElevados - Weight[lv[u]]]]
        /\ owed' = [owed EXCEPT ![u] = owed[u] - Pending(P, u)]

\* SaleMiembro for the leader: every member is credited and out, and the caller
\* destroys the party.
PartyDissolves(p, u, logged) ==
  LET P == Parties[p]
  IN  \E lv \in LevelsAfter({v \in Users : Pending(P, v) > 0}) :
        /\ user' = [v \in Users |->
             IF IsMember(P, v)
             THEN Left(user[v], lv[v], IF v = u THEN logged ELSE user[v].UserLogged)
             ELSE user[v]]
        /\ Parties' = [Parties EXCEPT ![p] = NoParty]
        /\ owed' = [v \in Users |-> owed[v] - Pending(P, v)]

\* (Mutant: the leader leaves as any other member does.)
DissolvesNever(P, u) == FALSE

\* The departure of u dissolves the party.
Dissolves(P, u) == P.members[0].UserIndex = u

SaleMiembro(p, u, logged) ==
  /\ IsMember(Parties[p], u)
  /\ \/ Dissolves(Parties[p], u) /\ PartyDissolves(p, u, logged)
     \/ ~Dissolves(Parties[p], u) /\ MemberLeaves(p, u, logged)

-------------------------------------------------------------------------------
(* mdParty *)

\* User u is in the party p, and it exists.
InParty(u, p) == user[u].PartyIndex = p /\ Parties[p].exists

\* UserPuedeEjecutarComandos, for the party p of user u.
Leads(u, p) == InParty(u, p) /\ Parties[p].Fundador = u

\* NextParty returns p.
NextParty(p) == ~Parties[p].exists /\ \A q \in Indices : q < p => Parties[q].exists

CrearParty(u) ==
  /\ user[u].UserLogged
  /\ user[u].PartyIndex = 0
  /\ \E p \in Indices :
       /\ NextParty(p)
       /\ Parties' = [Parties EXCEPT ![p] = HacerLeader(NuevoMiembro(NewParty, u), u)]
       /\ user' = [user EXCEPT ![u] = Entered(user[u], p)]
  /\ UNCHANGED owed

\* SolicitarIngresoAParty: a request to the party of the user under the mouse; any
\* other outcome (own party, dead, nobody there, no party) clears the request.
SolicitarIngresoAParty(u) ==
  /\ user[u].UserLogged
  /\ \E p \in {0} \union {user[t].PartyIndex : t \in Users} :
       /\ p > 0 => user[u].PartyIndex = 0
       /\ user' = [user EXCEPT ![u].PartySolicitud = p]
  /\ UNCHANGED <<Parties, owed>>

SalirDeParty(u) ==
  /\ user[u].UserLogged
  /\ \E p \in Indices : InParty(u, p) /\ SaleMiembro(p, u, TRUE)

\* The leader may expel itself, which dissolves the party.
ExpulsarDeParty(l, u) ==
  /\ user[l].UserLogged
  /\ \E p \in Indices :
       Leads(l, p) /\ user[u].PartyIndex = p /\ SaleMiembro(p, u, user[u].UserLogged)

\* A request of u that the leader of party p may grant.
Grantable(u, p) == user[u].PartySolicitud = p /\ user[u].PartyIndex = 0

AprobarIngresoAParty(l, u) ==
  /\ user[l].UserLogged /\ user[u].UserLogged
  /\ \E p \in Indices :
       /\ Leads(l, p)
       /\ Grantable(u, p)
       /\ PuedeEntrar(Parties[p])
       /\ HasRoom(Parties[p])
       /\ Parties' = [Parties EXCEPT ![p] = NuevoMiembro(Parties[p], u)]
       /\ user' = [user EXCEPT ![u] = Entered(user[u], p)]
  /\ UNCHANGED owed

TransformarEnLider(l, u) ==
  /\ user[l].UserLogged
  /\ l # u
  /\ \E p \in Indices :
       /\ Leads(l, p)
       /\ user[u].PartyIndex = p
       /\ IsMember(Parties[p], u)
       /\ Parties' = [Parties EXCEPT ![p] = HacerLeader(Parties[p], u)]
  /\ UNCHANGED <<user, owed>>

\* What the place of a member that is near and alive holds after a kill: its share
\* has the sign of SumaNivelesElevados, and Experiencia does not go below zero.
\* With a sum of zero the share is no finite number: any value may be left.
Shared(suma, xp) ==
  CASE suma > 0 -> {xp + 1}
    [] suma < 0 -> {IF xp > 0 THEN xp - 1 ELSE 0}
    [] suma = 0 -> 0..MaxExp

\* ObtenerExito: user u killed, and the members at the places in near share it.
ObtenerExito(u) ==
  /\ user[u].UserLogged
  /\ \E p \in Indices, xp \in [Places -> -1..MaxExp] :
       LET P == Parties[p]
       IN  /\ InParty(u, p)
           /\ \E near \in SUBSET {i \in Places : P.members[i].UserIndex > 0} :
                \A i \in Places :
                  IF i \in near THEN xp[i] \in Shared(P.SumaNivelesElevados, P.members[i].Experiencia)
                                ELSE xp[i] = P.members[i].Experiencia
           /\ Parties' = [Parties EXCEPT ![p].members =
                [i \in Places |-> [UserIndex |-> P.members[i].UserIndex, Experiencia |-> xp[i]]]]
           /\ owed' = [v \in Users |-> IF IsMember(P, v) THEN owed[v] - Pending(P, v) + xp[PlaceOf(P, v)]
                                                        ELSE owed[v]]
  /\ UNCHANGED user

\* FlushExperiencia: the members' experience is credited and their places hold none.
Flushed(P) ==
  [P EXCEPT !.members =
     [i \in Places |-> [UserIndex |-> P.members[i].UserIndex, Experiencia |-> 0]]]

\* ActualizaExperiencias, before a world save: every party is flushed.
ActualizaExperiencias ==
  LET holding(u) == {p \in Indices : Parties[p].exists /\ Pending(Parties[p], u) > 0}
      credit(u) == IF holding(u) = {} THEN 0 ELSE Pending(Parties[CHOOSE p \in holding(u) : TRUE], u)
  IN  /\ \E lv \in LevelsAfter({u \in Users : holding(u) # {}}) :
           user' = [u \in Users |-> [user[u] EXCEPT !.ELV = lv[u]]]
      /\ Parties' = [p \in Indices |-> IF Parties[p].exists THEN Flushed(Parties[p]) ELSE Parties[p]]
      /\ owed' = [u \in Users |-> owed[u] - credit(u)]

-------------------------------------------------------------------------------
(* What the rest of the server does to the users *)

\* ConnectUser: a character enters the slot; nothing about parties is reset.
ConnectUser(u) ==
  /\ ~user[u].UserLogged
  /\ \E l \in Levels : user' = [user EXCEPT ![u].UserLogged = TRUE, ![u].ELV = l]
  /\ UNCHANGED <<Parties, owed>>

\* CheckUserLevel, from experience that does not come from the party.
CheckUserLevel(u) ==
  /\ user[u].UserLogged
  /\ user[u].ELV < MaxLevel
  /\ user' = [user EXCEPT ![u].ELV = user[u].ELV + 1]
  /\ UNCHANGED <<Parties, owed>>

\* (Mutant: the closed character stays in its party.)
LeavesOnClose(u, p) == FALSE

\* CloseUser leaves the party of the user, if it is in one.
LeavesParty(u, p) == InParty(u, p)

\* CloseSocket of a logged user: CloseUser leaves its party, and ResetUserSlot then
\* resets the session but not PartySolicitud.
CloseSocket(u) ==
  /\ user[u].UserLogged
  /\ IF \E p \in Indices : LeavesParty(u, p)
     THEN \E p \in Indices : LeavesParty(u, p) /\ SaleMiembro(p, u, FALSE)
     ELSE /\ user' = [user EXCEPT ![u].UserLogged = FALSE]
          /\ UNCHANGED <<Parties, owed>>

Next ==
  \/ \E u \in Users :
       \/ CrearParty(u) \/ SolicitarIngresoAParty(u) \/ SalirDeParty(u) \/ ObtenerExito(u)
       \/ ConnectUser(u) \/ CheckUserLevel(u) \/ CloseSocket(u)
  \/ \E l, u \in Users :
       ExpulsarDeParty(l, u) \/ AprobarIngresoAParty(l, u) \/ TransformarEnLider(l, u)
  \/ ActualizaExperiencias

Spec == Init /\ [][Next]_vars

-------------------------------------------------------------------------------
(* Properties *)

\* The fields keep the types of UserList and clsParty; in particular no place is in
\* debt, whatever the sign of the sum its shares were divided by.
TypeOK ==
  /\ user \in [Users -> UserRecord]
  /\ Parties \in [Indices -> PartyRecord]
  /\ owed \in [Users -> Nat]

\* The two records of a membership agree: PartyIndex names the one party that has
\* the user at a place, and only users in the game are members.  They are written
\* apart by every command, by the dissolution of a party under other users, and by
\* the closing of a socket.
MembershipAgrees ==
  \A u \in Users :
    /\ \A p \in Indices :
         user[u].PartyIndex = p <=> Parties[p].exists /\ IsMember(Parties[p], u)
    /\ user[u].PartyIndex # 0 => user[u].UserLogged

\* No user has two places in a party.
OnePlace(P) ==
  \A i, j \in Places : P.members[i].UserIndex = P.members[j].UserIndex =>
                         i = j \/ P.members[i].UserIndex = 0

\* No free place comes before a taken one.
Packed(P) ==
  \A i, j \in Places : i < j /\ P.members[j].UserIndex # 0 => P.members[i].UserIndex # 0

\* Place 0 is the leader's through every change of leader and departure, the places
\* are packed from it, and CantMiembros counts them: PuedeEntrar looks only at the
\* last place and at place 0, and SaleMiembro dissolves on place 0 alone.
PartyShape ==
  \A p \in Indices :
    LET P == Parties[p]
    IN  P.exists =>
          /\ P.Fundador # 0 /\ P.Fundador = P.members[0].UserIndex
          /\ OnePlace(P) /\ Packed(P)
          /\ P.CantMiembros = Cardinality({i \in Places : P.members[i].UserIndex # 0})

\* The tables of parties and of users are one: types, memberships and places.
PartiesSound == TypeOK /\ MembershipAgrees /\ PartyShape

\* Experience put aside for a user is at its own place until it is credited: no
\* compaction or change of leader gives it to another member, and no departure or
\* dissolution loses it.
ExpConserved ==
  \A u \in Users :
    IF user[u].PartyIndex = 0 THEN owed[u] = 0
    ELSE owed[u] = Pending(Parties[user[u].PartyIndex], u)

\* The parties are groups with a leader (Groups): the commands, expulsions, closed
\* sockets and dissolutions do to a group only what that specification allows.
Groups ==
  INSTANCE Groups WITH Ids <- Indices, None <- 0,
    group <- [u \in Users |-> user[u].PartyIndex],
    leader <- [p \in Indices |-> Parties[p].Fundador]

ImplementsGroups == Groups!Spec

\* The audit (11b-party-detalle.md) says of p_SumaNivelesElevados that it is the
\* weighted sum of the levels of all the active members: what every share of
\* experience is divided by.
SumaExact ==
  \A p \in Indices :
    Parties[p].exists =>
      Parties[p].SumaNivelesElevados =
        MapThenSumSet(LAMBDA u : Weight[user[u].ELV], {u \in Users : IsMember(Parties[p], u)})
================================================================================
