--------------------------------- MODULE Trade ---------------------------------
(***************************************************************************)
(* The secure trade between two users: mdlCOmercioConUsuario.cpp, with the *)
(* packet handlers of the legacy Protocol.bas that call it and the events  *)
(* that interrupt it (a death, a closed socket, another window).           *)
(*                                                                         *)
(* Each user has a session record of its own, ComUsu, that names the other *)
(* user by slot and by name; nothing holds the two records together but    *)
(* what these operations do to them.  What is traded is gold: the thirty   *)
(* object places are filled and emptied along with it and by the same      *)
(* rules, but for the room in the inventory of the one who receives.       *)
(* Distances and privileges are left open.                                 *)
(***************************************************************************)
EXTENDS Integers

CONSTANTS
  Users,     \* slots of UserList
  Names,     \* characters
  None,      \* no user, no name
  MAXORO,    \* the most gold that what is not a trade leaves a character with
  MaxGLD     \* the largest value of Stats.GLD, a signed integer of 32 bits

ASSUME TradeAssumption ==
  /\ None \notin Users /\ None \notin Names
  /\ MAXORO \in Nat /\ MaxGLD \in Nat /\ MAXORO <= MaxGLD

VARIABLES
  user,   \* the fields of UserList a trade looks at
  com     \* ComUsu, by user

vars == <<user, com>>

Balance == -(MaxGLD + 1)..MaxGLD

UserRecord ==
  [UserLogged : BOOLEAN, name : Names \union {None}, Muerto : BOOLEAN,
   Comerciando : BOOLEAN, GLD : Balance]

Session ==
  [DestUsu : Users \union {None}, DestNick : Names \union {None}, GoldAmount : Nat,
   Acepto : BOOLEAN, Confirmo : BOOLEAN]

NoSession ==
  [DestUsu |-> None, DestNick |-> None, GoldAmount |-> 0, Acepto |-> FALSE, Confirmo |-> FALSE]

Init ==
  /\ user = [u \in Users |-> [UserLogged |-> FALSE, name |-> None, Muerto |-> FALSE,
                              Comerciando |-> FALSE, GLD |-> 0]]
  /\ com = [u \in Users |-> NoSession]

-------------------------------------------------------------------------------
(* mdlCOmercioConUsuario *)

\* FinComerciarUsu for every user in S, and nothing else.
Finish(S) ==
  /\ com' = [u \in Users |-> IF u \in S THEN NoSession ELSE com[u]]
  /\ user' = [u \in Users |-> IF u \in S THEN [user[u] EXCEPT !.Comerciando = FALSE] ELSE user[u]]

\* The other user of the session of u, if there is one.
Other(u) == {com[u].DestUsu} \ {None}

Mutual(u, v) == com[u].DestUsu = v /\ com[v].DestUsu = u

\* (Mutant: whoever is in the slot now is taken for the user of the session.)
AnyName(u, v) == TRUE

\* Each is still the character the other started to trade with.
SameNames(u, v) == user[v].name = com[u].DestNick /\ user[u].name = com[v].DestNick

\* The conditions of PuedeSeguirComerciando.
PuedeSeguirComerciando(u) ==
  \E v \in Other(u) :
    /\ user[u].UserLogged /\ user[v].UserLogged
    /\ Mutual(u, v)
    /\ SameNames(u, v)
    /\ ~user[v].Muerto

\* ... and what it does when they do not hold: the session of u ends, and so does
\* the one of the user it names, with whomever that user is trading.
CannotGoOn(u) ==
  /\ ~PuedeSeguirComerciando(u)
  /\ Finish({u} \union Other(u))

\* AgregarOferta with gold: the offer never goes below zero.
Offered(r, d) ==
  [r EXCEPT !.GoldAmount = IF r.GoldAmount + d < 0 THEN 0 ELSE r.GoldAmount + d]

\* (Mutant: the trade respects MAXORO, and what exceeds it is lost.)
CreditedUpToMax(gold, amount) ==
  IF gold + amount > MAXORO /\ amount > 0 THEN MAXORO ELSE gold + amount

\* The cast to 32 bits.
AsGLD(n) == ((n + MaxGLD + 1) % (2 * (MaxGLD + 1))) - (MaxGLD + 1)

\* The balance after a payment of amount: MAXORO is no limit (entry #36 of
\* KNOWN-LEGACY-BUGS.md), the width of the field is.
Credited(gold, amount) == AsGLD(gold + amount)

\* The loop of AceptarComercioUsu on the gold place: u pays v, then v pays u, and
\* both sessions end.
Transfer(u, v) ==
  LET gold == [w \in {u, v} |->
        IF w = u THEN Credited(AsGLD(user[u].GLD - com[u].GoldAmount), com[v].GoldAmount)
                 ELSE AsGLD(Credited(user[v].GLD, com[u].GoldAmount) - com[v].GoldAmount)]
  IN  /\ com' = [w \in Users |-> IF w \in {u, v} THEN NoSession ELSE com[w]]
      /\ user' = [w \in Users |->
           IF w \in {u, v} THEN [user[w] EXCEPT !.Comerciando = FALSE, !.GLD = gold[w]]
           ELSE user[w]]

\* (Mutant: the acceptance of an offer that is not confirmed does not count.)
HasAcceptedConfirmed(v) == com[v].Acepto /\ com[v].Confirmo

HasAccepted(v) == com[v].Acepto

\* AceptarComercioUsu (packet UserCommerceOk): waits for the other, or trades.
AceptarComercioUsu(u) ==
  /\ user[u].UserLogged
  /\ \/ CannotGoOn(u)
     \/ /\ PuedeSeguirComerciando(u)
        /\ LET v == com[u].DestUsu
           IN  \/ /\ ~HasAccepted(v)
                  /\ com' = [com EXCEPT ![u].Acepto = TRUE]
                  /\ UNCHANGED user
               \/ HasAccepted(v) /\ Transfer(u, v)

\* Executed(u): u's acceptance is the second one and gold changes hands.
Executed(u) ==
  /\ PuedeSeguirComerciando(u)
  /\ com[com[u].DestUsu].Acepto
  /\ AceptarComercioUsu(u)
  /\ \E w \in Users : user'[w].GLD # user[w].GLD

-------------------------------------------------------------------------------
(* The packet handlers *)

\* The session record HandleCommerceStart makes.
Started(u, t) == [NoSession EXCEPT !.DestUsu = t, !.DestNick = user[t].name]

\* HandleCommerceStart with user t under the mouse, and IniciarComercioConUsuario:
\* the second of the two to ask opens the window for both.
CommerceStart(u, t) ==
  /\ user[u].UserLogged /\ ~user[u].Muerto /\ ~user[u].Comerciando
  /\ t # u /\ ~user[t].Muerto
  /\ user[t].Comerciando => com[t].DestUsu = u
  /\ com' = [com EXCEPT ![u] = Started(u, t)]
  /\ user' = IF com[t].DestUsu = u
             THEN [w \in Users |-> IF w \in {u, t} THEN [user[w] EXCEPT !.Comerciando = TRUE]
                                   ELSE user[w]]
             ELSE user

\* (Mutant: the offer is not blocked by its confirmation.)
AlwaysChangeable(u) == TRUE

\* A confirmed offer may not be changed.
Changeable(u) == ~com[u].Confirmo

\* HandleUserCommerceOffer and AgregarOferta.  The handler ends the session of the
\* one who tries to change a confirmed offer, and only that one.
UserCommerceOffer(u) ==
  /\ user[u].UserLogged
  /\ \/ ~Changeable(u) /\ Finish({u})
     \/ Changeable(u) /\ CannotGoOn(u)
     \/ /\ Changeable(u) /\ PuedeSeguirComerciando(u)
        /\ \E d \in (-MaxGLD..MaxGLD) \ {0} :
             /\ d <= user[u].GLD - com[u].GoldAmount
             /\ com' = [com EXCEPT ![u] = Offered(com[u], d)]
        /\ UNCHANGED user

\* HandleUserCommerceConfirm
UserCommerceConfirm(u) ==
  /\ user[u].UserLogged
  /\ \/ CannotGoOn(u)
     \/ /\ PuedeSeguirComerciando(u)
        /\ com' = [com EXCEPT ![u].Confirmo = TRUE]
        /\ UNCHANGED user

\* HandleUserCommerceReject
UserCommerceReject(u) ==
  /\ user[u].UserLogged
  /\ Finish({u} \union {v \in Other(u) : user[v].UserLogged})

\* HandleUserCommerceEnd
UserCommerceEnd(u) ==
  /\ user[u].UserLogged
  /\ Finish({u} \union {v \in Other(u) : com[v].DestUsu = u})

\* HandleCommerceStart with an NPC, and HandleBankStart: another window opens.
OpenNpcWindow(u) ==
  /\ user[u].UserLogged /\ ~user[u].Muerto /\ ~user[u].Comerciando
  /\ user' = [user EXCEPT ![u].Comerciando = TRUE]
  /\ UNCHANGED com

\* HandleCommerceEnd and HandleBankEnd
CloseNpcWindow(u) ==
  /\ user[u].UserLogged
  /\ user' = [user EXCEPT ![u].Comerciando = FALSE]
  /\ UNCHANGED com

-------------------------------------------------------------------------------
(* What interrupts a trade *)

\* ConnectUser: a character of a name that is not in the game enters the slot, dead
\* or alive; the session and Comerciando are as the last one left them.
ConnectUser(u, n) ==
  /\ ~user[u].UserLogged
  /\ \A v \in Users : user[v].UserLogged => user[v].name # n
  /\ \E dead \in BOOLEAN, gold \in 0..MAXORO :
       user' = [user EXCEPT ![u] =
         [user[u] EXCEPT !.UserLogged = TRUE, !.name = n, !.Muerto = dead, !.GLD = gold]]
  /\ UNCHANGED com

\* CloseSocket and ResetUserSlot leave the session in the slot.
CloseSocket(u) ==
  /\ user[u].UserLogged
  /\ user' = [user EXCEPT ![u].UserLogged = FALSE]
  /\ UNCHANGED com

\* UserDie: the dead may drop gold, and its own session ends.
UserDie(u) ==
  /\ user[u].UserLogged /\ ~user[u].Muerto
  /\ \E gold \in Balance :
       /\ gold <= user[u].GLD /\ (gold < user[u].GLD => gold >= 0)
       /\ user' = [user EXCEPT ![u] =
            [user[u] EXCEPT !.Muerto = TRUE, !.Comerciando = FALSE, !.GLD = gold]]
  /\ com' = [com EXCEPT ![u] = NoSession]

RevivirUsuario(u) ==
  /\ user[u].UserLogged /\ user[u].Muerto
  /\ user' = [user EXCEPT ![u].Muerto = FALSE]
  /\ UNCHANGED com

\* DoRobar: t takes n of the gold of u, whatever window u has open, and keeps no more
\* than MAXORO (bound: no theft that would exceed the field).
DoRobar(t, u) ==
  /\ user[t].UserLogged /\ user[u].UserLogged /\ t # u
  /\ \E n \in 1..MaxGLD :
       /\ n <= user[u].GLD /\ user[t].GLD + n <= MaxGLD
       /\ user' = [user EXCEPT ![u].GLD = user[u].GLD - n,
                                ![t].GLD = IF user[t].GLD + n > MAXORO THEN MAXORO
                                           ELSE user[t].GLD + n]
  /\ UNCHANGED com

Next ==
  \/ \E u \in Users :
       \/ AceptarComercioUsu(u) \/ UserCommerceOffer(u) \/ UserCommerceConfirm(u)
       \/ UserCommerceReject(u) \/ UserCommerceEnd(u)
       \/ OpenNpcWindow(u) \/ CloseNpcWindow(u)
       \/ CloseSocket(u) \/ UserDie(u) \/ RevivirUsuario(u)
  \/ \E u, t \in Users : CommerceStart(u, t) \/ DoRobar(t, u)
  \/ \E u \in Users, n \in Names : ConnectUser(u, n)

Spec == Init /\ [][Next]_vars

-------------------------------------------------------------------------------
(* Properties *)

\* The records keep their types; an offer is never negative.
TypeOK ==
  /\ user \in [Users -> UserRecord]
  /\ com \in [Users -> Session]

\* Two users who trade with each other have not both accepted: the second acceptance
\* always executes the trade, so no agreed trade is left pending, whatever sessions
\* earlier occupants of the slots or interrupted trades left behind.
NeverBothAccepted ==
  \A u, v \in Users : Mutual(u, v) => ~(com[u].Acepto /\ com[v].Acepto)

\* No operation but the end of the session changes an offer that was confirmed.
ConfirmedOfferStands ==
  [][\A u \in Users :
       com[u].Confirmo => com'[u] = NoSession \/ com'[u].GoldAmount = com[u].GoldAmount
                          \/ CommerceStart(u, com'[u].DestUsu)]_vars

\* Both balances fit their field after the trade of u and v.
Fits(u, v) ==
  LET paid == com[u].GoldAmount - com[v].GoldAmount
  IN  user[u].GLD - paid \in Balance /\ user[v].GLD + paid \in Balance

\* A trade takes from each what it gives to the other, also when one holds less than
\* it offered or more than MAXORO, as long as the balances fit their fields.
TradeConserves ==
  [][\A u \in Users :
       Executed(u) =>
         \A v \in Other(u) :
           Fits(u, v) => user'[u].GLD + user'[v].GLD = user[u].GLD + user[v].GLD]_vars

\* Gold only changes hands between the two characters that opened the window to each
\* other: not with the next character of a slot that was closed during the trade.
TradeIsWithChosen ==
  [][\A u \in Users :
       Executed(u) =>
         \A v \in Other(u) :
           /\ user[v].UserLogged /\ user[v].name = com[u].DestNick
           /\ user[u].name = com[v].DestNick]_vars

\* What the documents say, and the code does not do:

\* "EnNegociacion --> Inactivo: Aborto (Rechazo, Cierre, Desconexion, Muerte)": the
\* death of one of two users that trade ends the trade for both.
DeathEndsBoth ==
  [][\A u, v \in Users :
       Mutual(u, v) /\ UserDie(u) => com'[v].DestUsu # u]_vars

\* "OfertaConfirmada --> EsperandoAceptacionMutua: AceptarComercioUsu": what changes
\* hands are two confirmed offers.
OnlyConfirmedTrade ==
  [][\A u \in Users :
       Executed(u) => com[u].Confirmo /\ \A v \in Other(u) : com[v].Confirmo]_vars
================================================================================
