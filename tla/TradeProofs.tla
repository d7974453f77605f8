------------------------------ MODULE TradeProofs ------------------------------
(***************************************************************************)
(* Proofs about Trade: types, acceptances, and what an executed trade does *)
(* to the gold of the two users, for every number of users and every width *)
(* of the balance.                                                         *)
(***************************************************************************)
EXTENDS Trade, TLAPS

-------------------------------------------------------------------------------
(* The 32-bit balance *)

\* The remainder by k of a number less than k away from 0..k-1.
LEMMA Remainder ==
  ASSUME NEW k \in Nat \ {0}, NEW x \in 0..(k - 1)
  PROVE  /\ x % k = x
         /\ (x + k) % k = x
         /\ (x - k) % k = x
OBVIOUS

LEMMA RemainderRange ==
  ASSUME NEW k \in Nat \ {0}, NEW x \in Int
  PROVE  x % k \in 0..(k - 1)
OBVIOUS

\* The cast gives a balance.
LEMMA CastIsBalance == ASSUME NEW n \in Int PROVE AsGLD(n) \in Balance
<1> DEFINE k == 2 * (MaxGLD + 1)
<1>1. k \in Nat \ {0} /\ n + MaxGLD + 1 \in Int
  BY TradeAssumption
<1>2. (n + MaxGLD + 1) % k \in 0..(k - 1)
  BY <1>1, RemainderRange
<1> QED BY <1>1, <1>2, TradeAssumption DEF AsGLD, Balance

\* ... and keeps a balance, also when it is one turn of the field away.
LEMMA CastOfBalance ==
  ASSUME NEW n \in Balance
  PROVE  /\ AsGLD(n) = n
         /\ AsGLD(n + 2 * (MaxGLD + 1)) = n
         /\ AsGLD(n - 2 * (MaxGLD + 1)) = n
<1> DEFINE k == 2 * (MaxGLD + 1)
           x == n + MaxGLD + 1
<1>1. k \in Nat \ {0} /\ x \in 0..(k - 1) /\ n \in Int /\ MaxGLD \in Nat
  BY TradeAssumption DEF Balance
<1>2. x % k = x /\ (x + k) % k = x /\ (x - k) % k = x
  <2> HIDE DEF k, x
  <2> QED BY <1>1, Remainder
<1>3. AsGLD(n) = n
  BY <1>1, <1>2 DEF AsGLD
<1>4. (n + k) + MaxGLD + 1 = x + k /\ (n - k) + MaxGLD + 1 = x - k
  BY <1>1
<1>5. AsGLD(n + k) = n /\ AsGLD(n - k) = n
  BY <1>1, <1>2, <1>4 DEF AsGLD
<1> QED BY <1>3, <1>5

-------------------------------------------------------------------------------
(* The invariant *)

\* Nobody trades with itself.
NotSelf == \A u \in Users : com[u].DestUsu # u

\* Who offers gold has no debt, and the amount fits its field.
OfferFits == \A u \in Users : com[u].GoldAmount > 0 => com[u].GoldAmount <= MaxGLD /\ user[u].GLD >= 0

IInv == TypeOK /\ NotSelf /\ OfferFits /\ NeverBothAccepted

LEMMA NoSessionType == NoSession \in Session
BY DEF NoSession, Session

\* The session of a user who starts to trade.
LEMMA StartedType ==
  ASSUME TypeOK, NEW u \in Users, NEW t \in Users
  PROVE  /\ Started(u, t) \in Session
         /\ Started(u, t).DestUsu = t
         /\ Started(u, t).GoldAmount = 0
         /\ ~Started(u, t).Acepto /\ ~Started(u, t).Confirmo
<1>1. user[t].name \in Names \union {None}
  BY DEF TypeOK, UserRecord
<1> QED BY <1>1 DEF Started, NoSession, Session

\* What a step does to the session of a user it does not start, offer or accept for.
LEMMA FinishKeeps ==
  ASSUME TypeOK, NEW S, Finish(S)
  PROVE  /\ TypeOK'
         /\ \A u \in Users : com'[u] = com[u] \/ com'[u] = NoSession
         /\ \A u \in Users : user'[u].GLD = user[u].GLD
<1>1. com' \in [Users -> Session]
  BY NoSessionType DEF TypeOK, Finish
<1>2. user' \in [Users -> UserRecord]
  BY DEF TypeOK, Finish, UserRecord
<1> QED BY <1>1, <1>2 DEF TypeOK, Finish, UserRecord

\* The balances that a trade leaves are balances, and the sessions have ended.
LEMMA TransferKeeps ==
  ASSUME TypeOK, NEW u \in Users, NEW v \in Users, u # v, Transfer(u, v)
  PROVE  /\ TypeOK'
         /\ \A w \in Users : com'[w] = com[w] \/ com'[w] = NoSession
         /\ com'[u] = NoSession /\ com'[v] = NoSession
         /\ user'[u].GLD = Credited(AsGLD(user[u].GLD - com[u].GoldAmount), com[v].GoldAmount)
         /\ user'[v].GLD = AsGLD(Credited(user[v].GLD, com[u].GoldAmount) - com[v].GoldAmount)
         /\ \A w \in Users \ {u, v} : user'[w] = user[w] /\ com'[w] = com[w]
<1> DEFINE gu == Credited(AsGLD(user[u].GLD - com[u].GoldAmount), com[v].GoldAmount)
           gv == AsGLD(Credited(user[v].GLD, com[u].GoldAmount) - com[v].GoldAmount)
<1>1. /\ user[u].GLD \in Int /\ user[v].GLD \in Int
      /\ com[u].GoldAmount \in Int /\ com[v].GoldAmount \in Int
  BY TradeAssumption DEF TypeOK, UserRecord, Session, Balance
<1>2. \A n \in Balance : n \in Int
  BY TradeAssumption DEF Balance
<1>3. gu \in Balance
  BY <1>1, <1>2, CastIsBalance DEF Credited
<1>4. gv \in Balance
  BY <1>1, <1>2, CastIsBalance DEF Credited
<1> HIDE DEF gu, gv
<1>5. /\ com' = [w \in Users |-> IF w \in {u, v} THEN NoSession ELSE com[w]]
      /\ user' = [w \in Users |->
           IF w \in {u, v}
           THEN [user[w] EXCEPT !.Comerciando = FALSE, !.GLD = IF w = u THEN gu ELSE gv]
           ELSE user[w]]
  BY DEF Transfer, gu, gv
<1>6. com' \in [Users -> Session]
  BY <1>5, NoSessionType DEF TypeOK
<1>7. user' \in [Users -> UserRecord]
  BY <1>3, <1>4, <1>5 DEF TypeOK, UserRecord
<1>8. user'[u].GLD = gu /\ user'[v].GLD = gv
  BY <1>5 DEF TypeOK, UserRecord
<1>9. \A w \in Users \ {u, v} : user'[w] = user[w] /\ com'[w] = com[w]
  BY <1>5
<1> QED BY <1>5, <1>6, <1>7, <1>8, <1>9 DEF TypeOK, gu, gv

\* A step that ends sessions, changes nothing else of them and leaves no offerer in
\* debt keeps the invariant.
LEMMA EndingKeeps ==
  ASSUME IInv, TypeOK',
         \A u \in Users : com'[u] = com[u] \/ com'[u] = NoSession,
         \A u \in Users : com'[u] = NoSession \/ user'[u].GLD = user[u].GLD \/ user'[u].GLD >= 0
  PROVE  IInv'
<1>1. NotSelf'
  BY TradeAssumption DEF IInv, NotSelf, NoSession
<1>2. OfferFits'
  BY DEF IInv, OfferFits, NoSession
<1>3. NeverBothAccepted'
  BY DEF IInv, NeverBothAccepted, Mutual, NoSession
<1> QED BY <1>1, <1>2, <1>3 DEF IInv

LEMMA FinishStep ==
  ASSUME IInv, NEW S, Finish(S)
  PROVE  IInv'
BY FinishKeeps, EndingKeeps DEF IInv

LEMMA CannotGoOnStep ==
  ASSUME IInv, NEW u \in Users, CannotGoOn(u)
  PROVE  IInv'
BY FinishStep DEF CannotGoOn

\* The trade that an acceptance executes is with another user.
LEMMA GoesOnWith ==
  ASSUME IInv, NEW u \in Users, PuedeSeguirComerciando(u)
  PROVE  /\ com[u].DestUsu \in Users /\ com[u].DestUsu # u /\ com[u].DestUsu # None
         /\ Other(u) = {com[u].DestUsu}
         /\ Mutual(u, com[u].DestUsu) /\ SameNames(u, com[u].DestUsu)
         /\ user[com[u].DestUsu].UserLogged
<1>1. PICK v \in Other(u) : user[v].UserLogged /\ Mutual(u, v) /\ SameNames(u, v)
  BY DEF PuedeSeguirComerciando
<1>2. v = com[u].DestUsu /\ v # None
  BY <1>1 DEF Other
<1>3. v \in Users
  BY <1>2 DEF IInv, TypeOK, Session
<1> QED BY <1>1, <1>2, <1>3 DEF IInv, NotSelf, Other

LEMMA AceptarStep ==
  ASSUME IInv, NEW u \in Users, AceptarComercioUsu(u)
  PROVE  IInv'
<1>1. CASE CannotGoOn(u)
  BY <1>1, CannotGoOnStep
<1> DEFINE v == com[u].DestUsu
<1>2. CASE PuedeSeguirComerciando(u) /\ ~com[v].Acepto /\ com' = [com EXCEPT ![u].Acepto = TRUE]
           /\ UNCHANGED user
  <2>1. v \in Users /\ v # u
    BY <1>2, GoesOnWith
  <2>2. com'[u] = [com[u] EXCEPT !.Acepto = TRUE] /\ \A w \in Users \ {u} : com'[w] = com[w]
    BY <1>2 DEF IInv, TypeOK
  <2>3. /\ com'[u].DestUsu = v /\ com'[u].GoldAmount = com[u].GoldAmount /\ com'[u] \in Session
    BY <2>2 DEF IInv, TypeOK, Session
  <2>4. TypeOK'
    BY <1>2, <2>2, <2>3 DEF IInv, TypeOK
  <2>5. NotSelf'
    BY <2>2, <2>3 DEF IInv, NotSelf
  <2>6. OfferFits'
    BY <1>2, <2>2, <2>3 DEF IInv, OfferFits
  <2>7. NeverBothAccepted'
    BY <1>2, <2>1, <2>2, <2>3 DEF IInv, NeverBothAccepted, Mutual
  <2> QED BY <2>4, <2>5, <2>6, <2>7 DEF IInv
<1>3. CASE PuedeSeguirComerciando(u) /\ com[v].Acepto /\ Transfer(u, v)
  <2>1. v \in Users /\ v # u
    BY <1>3, GoesOnWith
  <2>2. /\ TypeOK'
        /\ \A w \in Users : com'[w] = com[w] \/ com'[w] = NoSession
        /\ com'[u] = NoSession /\ com'[v] = NoSession
        /\ \A w \in Users \ {u, v} : user'[w] = user[w]
    BY <1>3, <2>1, TransferKeeps DEF IInv
  <2>3. \A w \in Users : com'[w] = NoSession \/ user'[w].GLD = user[w].GLD
    BY <2>2
  <2> HIDE DEF v
  <2> QED BY <2>2, <2>3, EndingKeeps
<1> QED BY <1>1, <1>2, <1>3 DEF AceptarComercioUsu, HasAccepted

LEMMA StartStep ==
  ASSUME IInv, NEW u \in Users, NEW t \in Users, CommerceStart(u, t)
  PROVE  IInv'
<1>1. /\ Started(u, t) \in Session /\ Started(u, t).DestUsu = t
      /\ Started(u, t).GoldAmount = 0 /\ ~Started(u, t).Acepto
  BY StartedType DEF IInv
<1>2. com' = [com EXCEPT ![u] = Started(u, t)] /\ t # u
  BY DEF CommerceStart
<1>3. com'[u] = Started(u, t) /\ \A w \in Users \ {u} : com'[w] = com[w]
  BY <1>2 DEF IInv, TypeOK
<1>4. user' \in [Users -> UserRecord] /\ \A w \in Users : user'[w].GLD = user[w].GLD
  BY DEF CommerceStart, IInv, TypeOK, UserRecord
<1>5. TypeOK'
  BY <1>1, <1>2, <1>4 DEF IInv, TypeOK
<1>6. NotSelf'
  BY <1>1, <1>2, <1>3 DEF IInv, NotSelf
<1>7. OfferFits'
  BY <1>1, <1>3, <1>4 DEF IInv, OfferFits
<1>8. NeverBothAccepted'
  BY <1>1, <1>3 DEF IInv, NeverBothAccepted, Mutual
<1> QED BY <1>5, <1>6, <1>7, <1>8 DEF IInv

\* The offer after a change by d, which the offerer can pay.
LEMMA OfferedFits ==
  ASSUME TypeOK, NEW u \in Users, NEW d \in (-MaxGLD..MaxGLD) \ {0},
         d <= user[u].GLD - com[u].GoldAmount
  PROVE  /\ Offered(com[u], d) \in Session
         /\ Offered(com[u], d).DestUsu = com[u].DestUsu
         /\ Offered(com[u], d).Acepto = com[u].Acepto
         /\ Offered(com[u], d).GoldAmount > 0 =>
              Offered(com[u], d).GoldAmount <= MaxGLD /\ user[u].GLD >= 0
<1> DEFINE g == IF com[u].GoldAmount + d < 0 THEN 0 ELSE com[u].GoldAmount + d
<1>1. com[u].GoldAmount \in Nat /\ user[u].GLD \in Int /\ user[u].GLD <= MaxGLD /\ d \in Int
  BY TradeAssumption DEF TypeOK, UserRecord, Session, Balance
<1>2. g \in Nat /\ (g > 0 => g <= MaxGLD /\ user[u].GLD >= 0)
  BY <1>1, TradeAssumption
<1> HIDE DEF g
<1>3. Offered(com[u], d) = [com[u] EXCEPT !.GoldAmount = g]
  BY DEF Offered, g
<1> QED BY <1>2, <1>3 DEF TypeOK, Session

LEMMA OfferStep ==
  ASSUME IInv, NEW u \in Users, UserCommerceOffer(u)
  PROVE  IInv'
<1>1. CASE Finish({u})
  BY <1>1, FinishStep
<1>2. CASE CannotGoOn(u)
  BY <1>2, CannotGoOnStep
<1>3. ASSUME NEW d \in (-MaxGLD..MaxGLD) \ {0}, d <= user[u].GLD - com[u].GoldAmount,
             com' = [com EXCEPT ![u] = Offered(com[u], d)], UNCHANGED user
      PROVE  IInv'
  <2>1. /\ Offered(com[u], d) \in Session
        /\ Offered(com[u], d).DestUsu = com[u].DestUsu
        /\ Offered(com[u], d).Acepto = com[u].Acepto
        /\ Offered(com[u], d).GoldAmount > 0 =>
             Offered(com[u], d).GoldAmount <= MaxGLD /\ user[u].GLD >= 0
    BY <1>3, OfferedFits DEF IInv
  <2>2. com'[u] = Offered(com[u], d) /\ \A w \in Users \ {u} : com'[w] = com[w]
    BY <1>3 DEF IInv, TypeOK
  <2>3. TypeOK'
    BY <1>3, <2>1 DEF IInv, TypeOK
  <2>4. NotSelf'
    BY <2>1, <2>2 DEF IInv, NotSelf
  <2>5. OfferFits'
    BY <1>3, <2>1, <2>2 DEF IInv, OfferFits
  <2>6. NeverBothAccepted'
    BY <2>1, <2>2 DEF IInv, NeverBothAccepted, Mutual
  <2> QED BY <2>3, <2>4, <2>5, <2>6 DEF IInv
<1> QED BY <1>1, <1>2, <1>3 DEF UserCommerceOffer

LEMMA ConfirmStep ==
  ASSUME IInv, NEW u \in Users, UserCommerceConfirm(u)
  PROVE  IInv'
<1>1. CASE CannotGoOn(u)
  BY <1>1, CannotGoOnStep
<1>2. CASE com' = [com EXCEPT ![u].Confirmo = TRUE] /\ UNCHANGED user
  <2>1. /\ com'[u] \in Session /\ com'[u].DestUsu = com[u].DestUsu
        /\ com'[u].Acepto = com[u].Acepto /\ com'[u].GoldAmount = com[u].GoldAmount
        /\ \A w \in Users \ {u} : com'[w] = com[w]
    BY <1>2 DEF IInv, TypeOK, Session
  <2>2. TypeOK'
    BY <1>2, <2>1 DEF IInv, TypeOK
  <2>3. NotSelf'
    BY <2>1 DEF IInv, NotSelf
  <2>4. OfferFits'
    BY <1>2, <2>1 DEF IInv, OfferFits
  <2>5. NeverBothAccepted'
    BY <2>1 DEF IInv, NeverBothAccepted, Mutual
  <2> QED BY <2>2, <2>3, <2>4, <2>5 DEF IInv
<1> QED BY <1>1, <1>2 DEF UserCommerceConfirm

\* A step that only writes the record of one user, and does not leave an offerer in debt.
LEMMA RecordStep ==
  ASSUME IInv, NEW u \in Users, NEW r \in UserRecord,
         user' = [user EXCEPT ![u] = r],
         com' = com \/ com' = [com EXCEPT ![u] = NoSession],
         com'[u] = NoSession \/ r.GLD = user[u].GLD \/ r.GLD >= 0
  PROVE  IInv'
<1>1. /\ user' \in [Users -> UserRecord] /\ user'[u] = r
      /\ \A w \in Users \ {u} : user'[w] = user[w]
  BY DEF IInv, TypeOK
<1>2. com' \in [Users -> Session] /\ \A w \in Users : com'[w] = com[w] \/ com'[w] = NoSession
  BY NoSessionType DEF IInv, TypeOK
<1>3. TypeOK'
  BY <1>1, <1>2 DEF TypeOK
<1> QED BY <1>1, <1>2, <1>3, EndingKeeps

LEMMA UserStep ==
  ASSUME IInv, NEW u \in Users,
         \/ OpenNpcWindow(u) \/ CloseNpcWindow(u) \/ CloseSocket(u) \/ RevivirUsuario(u)
  PROVE  IInv'
<1>1. PICK r \in {[user[u] EXCEPT !.Comerciando = b] : b \in BOOLEAN}
                \union {[user[u] EXCEPT !.UserLogged = FALSE], [user[u] EXCEPT !.Muerto = FALSE]} :
        user' = [user EXCEPT ![u] = r] /\ com' = com
  BY DEF OpenNpcWindow, CloseNpcWindow, CloseSocket, RevivirUsuario
<1>2. r \in UserRecord /\ r.GLD = user[u].GLD
  BY DEF IInv, TypeOK, UserRecord
<1> QED BY <1>1, <1>2, RecordStep

LEMMA DieStep ==
  ASSUME IInv, NEW u \in Users, UserDie(u)
  PROVE  IInv'
<1>1. PICK gold \in Balance :
        user' = [user EXCEPT ![u] =
          [user[u] EXCEPT !.Muerto = TRUE, !.Comerciando = FALSE, !.GLD = gold]]
  BY DEF UserDie
<1> DEFINE r == [user[u] EXCEPT !.Muerto = TRUE, !.Comerciando = FALSE, !.GLD = gold]
<1>2. r \in UserRecord
  BY DEF IInv, TypeOK, UserRecord
<1>3. com' = [com EXCEPT ![u] = NoSession] /\ com'[u] = NoSession
  BY DEF UserDie, IInv, TypeOK
<1> HIDE DEF r
<1>4. user' = [user EXCEPT ![u] = r]
  BY <1>1 DEF r
<1> QED BY <1>2, <1>3, <1>4, RecordStep

LEMMA ConnectStep ==
  ASSUME IInv, NEW u \in Users, NEW n \in Names, ConnectUser(u, n)
  PROVE  IInv'
<1>1. PICK dead \in BOOLEAN, gold \in 0..MAXORO :
        user' = [user EXCEPT ![u] =
          [user[u] EXCEPT !.UserLogged = TRUE, !.name = n, !.Muerto = dead, !.GLD = gold]]
  BY DEF ConnectUser
<1> DEFINE r == [user[u] EXCEPT !.UserLogged = TRUE, !.name = n, !.Muerto = dead, !.GLD = gold]
<1>2. gold \in Balance /\ gold >= 0
  BY TradeAssumption DEF Balance
<1>3. r \in UserRecord /\ r.GLD = gold
  BY <1>2 DEF IInv, TypeOK, UserRecord
<1>4. com' = com
  BY DEF ConnectUser
<1> HIDE DEF r
<1>5. user' = [user EXCEPT ![u] = r]
  BY <1>1 DEF r
<1> QED BY <1>2, <1>3, <1>4, <1>5, RecordStep

LEMMA RobarStep ==
  ASSUME IInv, NEW t \in Users, NEW u \in Users, DoRobar(t, u)
  PROVE  IInv'
<1>1. PICK n \in 1..MaxGLD :
        /\ n <= user[u].GLD /\ user[t].GLD + n <= MaxGLD
        /\ user' = [user EXCEPT ![u].GLD = user[u].GLD - n,
                                 ![t].GLD = IF user[t].GLD + n > MAXORO THEN MAXORO
                                            ELSE user[t].GLD + n]
  BY DEF DoRobar
<1> DEFINE g == IF user[t].GLD + n > MAXORO THEN MAXORO ELSE user[t].GLD + n
<1>2. user[u].GLD \in Balance /\ user[t].GLD \in Balance /\ MaxGLD \in Nat /\ MAXORO \in Nat
      /\ MAXORO <= MaxGLD
  BY TradeAssumption DEF IInv, TypeOK, UserRecord
<1>3. g \in Balance /\ user[u].GLD - n \in Balance /\ user[u].GLD - n >= 0
      /\ (user[t].GLD >= 0 => g >= 0)
  BY <1>1, <1>2 DEF Balance
<1>4. t # u /\ com' = com
  BY DEF DoRobar
<1> HIDE DEF g
<1>5. user' = [user EXCEPT ![u].GLD = user[u].GLD - n, ![t].GLD = g]
  BY <1>1 DEF g
<1>6. /\ user' \in [Users -> UserRecord] /\ user'[u].GLD = user[u].GLD - n /\ user'[t].GLD = g
      /\ \A w \in Users \ {t, u} : user'[w] = user[w]
  BY <1>3, <1>4, <1>5 DEF IInv, TypeOK, UserRecord
<1>7. TypeOK'
  BY <1>4, <1>6 DEF IInv, TypeOK
<1>8. NotSelf' /\ NeverBothAccepted'
  BY <1>4 DEF IInv, NotSelf, NeverBothAccepted, Mutual
<1>9. OfferFits'
  BY <1>3, <1>4, <1>6 DEF IInv, OfferFits
<1> QED BY <1>7, <1>8, <1>9 DEF IInv

-------------------------------------------------------------------------------
(* The invariant is inductive *)

LEMMA InitInv == Init => IInv
<1> SUFFICES ASSUME Init PROVE IInv
  OBVIOUS
<1>1. 0 \in Balance
  BY TradeAssumption DEF Balance
<1>2. TypeOK
  BY <1>1, NoSessionType DEF Init, TypeOK, UserRecord
<1>3. NotSelf /\ OfferFits /\ NeverBothAccepted
  BY TradeAssumption DEF Init, NotSelf, OfferFits, NeverBothAccepted, NoSession
<1> QED BY <1>2, <1>3 DEF IInv

LEMMA NextInv == IInv /\ [Next]_vars => IInv'
<1> SUFFICES ASSUME IInv, [Next]_vars PROVE IInv'
  OBVIOUS
<1>1. CASE UNCHANGED vars
  BY <1>1 DEF vars, IInv, TypeOK, NotSelf, OfferFits, NeverBothAccepted, Mutual
<1>2. ASSUME NEW u \in Users, AceptarComercioUsu(u) PROVE IInv'
  BY <1>2, AceptarStep
<1>3. ASSUME NEW u \in Users, UserCommerceOffer(u) PROVE IInv'
  BY <1>3, OfferStep
<1>4. ASSUME NEW u \in Users, UserCommerceConfirm(u) PROVE IInv'
  BY <1>4, ConfirmStep
<1>5. ASSUME NEW u \in Users, UserCommerceReject(u) \/ UserCommerceEnd(u) PROVE IInv'
  BY <1>5, FinishStep DEF UserCommerceReject, UserCommerceEnd
<1>6. ASSUME NEW u \in Users,
             OpenNpcWindow(u) \/ CloseNpcWindow(u) \/ CloseSocket(u) \/ RevivirUsuario(u)
      PROVE IInv'
  BY <1>6, UserStep
<1>7. ASSUME NEW u \in Users, UserDie(u) PROVE IInv'
  BY <1>7, DieStep
<1>8. ASSUME NEW u \in Users, NEW t \in Users, CommerceStart(u, t) PROVE IInv'
  BY <1>8, StartStep
<1>9. ASSUME NEW u \in Users, NEW t \in Users, DoRobar(t, u) PROVE IInv'
  BY <1>9, RobarStep
<1>10. ASSUME NEW u \in Users, NEW n \in Names, ConnectUser(u, n) PROVE IInv'
  BY <1>10, ConnectStep
<1> QED BY <1>1, <1>2, <1>3, <1>4, <1>5, <1>6, <1>7, <1>8, <1>9, <1>10 DEF Next

THEOREM Invariant == Spec => []IInv
BY InitInv, NextInv, PTL DEF Spec

\* Users, sessions and balances keep their types; no offer is negative.
THEOREM TypeCorrect == Spec => []TypeOK
<1>1. IInv => TypeOK
  BY DEF IInv
<1> QED BY <1>1, Invariant, PTL

\* Whatever sessions the slots inherit, no trade is left agreed by both and pending.
THEOREM AcceptancesExecute == Spec => []NeverBothAccepted
<1>1. IInv => NeverBothAccepted
  BY DEF IInv
<1> QED BY <1>1, Invariant, PTL

-------------------------------------------------------------------------------
(* What steps never do *)

\* The acceptance that executes a trade is a transfer to the other user.
LEMMA ExecutedTransfers ==
  ASSUME IInv, NEW u \in Users, Executed(u)
  PROVE  Transfer(u, com[u].DestUsu)
BY DEF Executed, AceptarComercioUsu, CannotGoOn, HasAccepted

\* Gold conserved by one transfer.
LEMMA TransferConserves ==
  ASSUME IInv, NEW u \in Users, NEW v \in Users, u # v, Transfer(u, v), Fits(u, v)
  PROVE  user'[u].GLD + user'[v].GLD = user[u].GLD + user[v].GLD
<1> DEFINE a == user[u].GLD
           b == user[v].GLD
           p == com[u].GoldAmount
           q == com[v].GoldAmount
           k == 2 * (MaxGLD + 1)
<1>1. /\ a \in Balance /\ b \in Balance /\ p \in Nat /\ q \in Nat
      /\ (p > 0 => p <= MaxGLD /\ a >= 0) /\ (q > 0 => q <= MaxGLD /\ b >= 0)
  BY DEF IInv, TypeOK, UserRecord, Session, OfferFits
<1>2. a - (p - q) \in Balance /\ b + (p - q) \in Balance
  BY DEF Fits
<1>3. /\ user'[u].GLD = AsGLD(AsGLD(a - p) + q)
      /\ user'[v].GLD = AsGLD(AsGLD(b + p) - q)
  BY TransferKeeps DEF IInv, Credited
<1> HIDE DEF a, b, p, q
<1>4. MaxGLD \in Nat /\ k \in Nat
  BY TradeAssumption
<1>5. a - p \in Balance /\ a - p + q = a - (p - q)
  BY <1>1, <1>4 DEF Balance
<1>6. user'[u].GLD = a - p + q
  BY <1>2, <1>3, <1>5, CastOfBalance
<1>7. CASE b + p <= MaxGLD
  <2>1. b + p \in Balance /\ (b + p) - q = b + (p - q)
    BY <1>1, <1>4, <1>7 DEF Balance
  <2>2. PICK n \in Balance : n = b + p
    BY <2>1
  <2>3. AsGLD(b + p) = n
    BY <2>2, CastOfBalance
  <2>4. n - q \in Balance
    BY <1>2, <2>1, <2>2
  <2>5. user'[v].GLD = n - q
    BY <1>3, <2>3, <2>4, CastOfBalance
  <2> QED BY <1>1, <1>4, <1>6, <2>2, <2>5 DEF a, b, Balance
<1>8. CASE b + p > MaxGLD
  <2>1. b + p - k \in Balance /\ b + p = (b + p - k) + k
        /\ (b + p - k) - q = (b + (p - q)) - k
    BY <1>1, <1>4, <1>8 DEF Balance
  <2>2. AsGLD(b + p) = b + p - k
    BY <2>1, CastOfBalance
  <2>3. AsGLD((b + (p - q)) - k) = b + (p - q)
    BY <1>2, CastOfBalance
  <2>4. user'[v].GLD = b + (p - q)
    BY <1>3, <2>1, <2>2, <2>3
  <2> QED BY <1>1, <1>4, <1>6, <2>4 DEF a, b, Balance
<1>9. b + p \in Int
  BY <1>1, <1>4 DEF Balance
<1> QED BY <1>4, <1>7, <1>8, <1>9

\* A trade neither makes nor loses gold, for every number of users and every width.
THEOREM TradesConserve == Spec => TradeConserves
<1>1. IInv /\ [Next]_vars =>
        [\A u \in Users :
           Executed(u) =>
             \A v \in Other(u) :
               Fits(u, v) => user'[u].GLD + user'[v].GLD = user[u].GLD + user[v].GLD]_vars
  <2> SUFFICES ASSUME IInv, NEW u \in Users, Executed(u), NEW v \in Other(u), Fits(u, v)
               PROVE  user'[u].GLD + user'[v].GLD = user[u].GLD + user[v].GLD
    OBVIOUS
  <2>1. v = com[u].DestUsu /\ v \in Users /\ v # u
    BY GoesOnWith DEF Executed
  <2>2. Transfer(u, v)
    BY <2>1, ExecutedTransfers
  <2> QED BY <2>1, <2>2, TransferConserves
<1> QED BY <1>1, Invariant, PTL DEF Spec, TradeConserves

\* Gold changes hands only between the characters that chose each other.
THEOREM TradesAreWithChosen == Spec => TradeIsWithChosen
<1>1. IInv /\ [Next]_vars =>
        [\A u \in Users :
           Executed(u) =>
             \A v \in Other(u) :
               /\ user[v].UserLogged /\ user[v].name = com[u].DestNick
               /\ user[u].name = com[v].DestNick]_vars
  BY GoesOnWith DEF Executed, SameNames
<1> QED BY <1>1, Invariant, PTL DEF Spec, TradeIsWithChosen

\* A confirmed offer is kept or its session ends.
THEOREM ConfirmedOffersStand == Spec => ConfirmedOfferStands
<1> DEFINE Stands(u) == com[u].Confirmo => com'[u] = NoSession
                          \/ com'[u].GoldAmount = com[u].GoldAmount
                          \/ CommerceStart(u, com'[u].DestUsu)
<1>1. ASSUME IInv, [Next]_vars, NEW w \in Users PROVE Stands(w)
  <2>1. CASE com'[w] = com[w] \/ com'[w] = NoSession
    BY <2>1
  <2>2. ASSUME NEW S, Finish(S) PROVE Stands(w)
    BY <1>1, <2>2, <2>1 DEF Finish, IInv, TypeOK
  <2>3. ASSUME NEW u \in Users, CannotGoOn(u) PROVE Stands(w)
    BY <2>2, <2>3 DEF CannotGoOn
  <2>4. ASSUME NEW u \in Users, AceptarComercioUsu(u) PROVE Stands(w)
    <3>1. CASE com' = [com EXCEPT ![u].Acepto = TRUE]
      BY <1>1, <3>1 DEF IInv, TypeOK, Session
    <3>2. CASE \E v \in Users : Transfer(u, v)
      BY <2>1, <3>2 DEF Transfer
    <3> QED BY <1>1, <2>3, <2>4, <3>1, <3>2, GoesOnWith DEF AceptarComercioUsu, HasAccepted
  <2>5. ASSUME NEW u \in Users, UserCommerceOffer(u) PROVE Stands(w)
    <3>1. CASE \E d \in Int : Changeable(u) /\ com' = [com EXCEPT ![u] = Offered(com[u], d)]
      BY <1>1, <3>1 DEF Changeable, IInv, TypeOK
    <3>2. MaxGLD \in Nat
      BY TradeAssumption
    <3> QED BY <2>2, <2>3, <2>5, <3>1, <3>2 DEF UserCommerceOffer
  <2>6. ASSUME NEW u \in Users, UserCommerceConfirm(u) PROVE Stands(w)
    <3>1. CASE com' = [com EXCEPT ![u].Confirmo = TRUE]
      BY <1>1, <3>1 DEF IInv, TypeOK, Session
    <3> QED BY <2>3, <2>6, <3>1 DEF UserCommerceConfirm
  <2>7. ASSUME NEW u \in Users, UserCommerceReject(u) \/ UserCommerceEnd(u) PROVE Stands(w)
    BY <2>2, <2>7 DEF UserCommerceReject, UserCommerceEnd
  <2>8. ASSUME NEW u \in Users, NEW t \in Users, CommerceStart(u, t) PROVE Stands(w)
    <3>1. CASE w = u
      <4>1. com'[w] = Started(u, t)
        BY <1>1, <2>8, <3>1 DEF CommerceStart, IInv, TypeOK
      <4>2. com'[w].DestUsu = t
        BY <1>1, <4>1, StartedType DEF IInv
      <4> QED BY <2>8, <3>1, <4>2
    <3>2. CASE w # u
      BY <1>1, <2>1, <2>8, <3>2 DEF CommerceStart, IInv, TypeOK
    <3> QED BY <3>1, <3>2
  <2>9. ASSUME NEW u \in Users,
               OpenNpcWindow(u) \/ CloseNpcWindow(u) \/ CloseSocket(u) \/ RevivirUsuario(u)
        PROVE Stands(w)
    BY <2>1, <2>9 DEF OpenNpcWindow, CloseNpcWindow, CloseSocket, RevivirUsuario
  <2>10. ASSUME NEW u \in Users, UserDie(u) PROVE Stands(w)
    BY <1>1, <2>1, <2>10 DEF UserDie, IInv, TypeOK
  <2>11. ASSUME NEW u \in Users, NEW t \in Users, DoRobar(t, u) PROVE Stands(w)
    BY <2>1, <2>11 DEF DoRobar
  <2>12. ASSUME NEW u \in Users, NEW n \in Names, ConnectUser(u, n) PROVE Stands(w)
    BY <2>1, <2>12 DEF ConnectUser
  <2>13. CASE UNCHANGED vars
    BY <2>1, <2>13 DEF vars
  <2> HIDE DEF Stands
  <2> QED BY <1>1, <2>4, <2>5, <2>6, <2>7, <2>8, <2>9, <2>10, <2>11, <2>12, <2>13 DEF Next
<1>2. IInv /\ [Next]_vars =>
        [\A u \in Users :
           com[u].Confirmo => com'[u] = NoSession \/ com'[u].GoldAmount = com[u].GoldAmount
                              \/ CommerceStart(u, com'[u].DestUsu)]_vars
  BY <1>1
<1> QED BY <1>2, Invariant, PTL DEF Spec, ConfirmedOfferStands
================================================================================
