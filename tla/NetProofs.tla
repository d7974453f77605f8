------------------------------- MODULE NetProofs -------------------------------
(***************************************************************************)
(* Proofs about the network layer.  About Net: type correctness, the       *)
(* agreement of s_sock_to_slot and the ConnIDs, and that slots live as     *)
(* SlotLife says.  At the end, about IpTable, the throttle of connections: *)
(* for every set of addresses and every size of table, interval and clock. *)
(***************************************************************************)
EXTENDS Net, IpTable, FiniteSetTheorems, WellFoundedInduction, TLAPS

-------------------------------------------------------------------------------
(* Operations on one slot *)

\* The operations on the records of a slot keep them records.
LEMMA RecordOps ==
  ASSUME NEW r \in UserRecord, NEW pk \in BOOLEAN
  PROVE  /\ ClosedSL(r) \in UserRecord
         /\ Leaving(r, pk) \in UserRecord
         /\ Leaving(ClosedSL(r), pk) \in UserRecord
         /\ Reset(r) \in UserRecord
         /\ \A id \in Nat \ {0} : Connected(r, id) \in UserRecord
         /\ Staying(r) \in UserRecord /\ Postponed(r, pk) \in UserRecord
         /\ ~Expires(r) => Counted(r) \in UserRecord
<1>1. ASSUME NEW q \in UserRecord PROVE ClosedSL(q) \in UserRecord
  BY <1>1 DEF UserRecord, ClosedSL, NoConn
<1>2. ASSUME NEW q \in UserRecord PROVE Leaving(q, pk) \in UserRecord
  BY <1>2, NetAssumption DEF UserRecord, Leaving
<1>3. Reset(r) \in UserRecord
  BY <1>1 DEF Reset, UserRecord
<1>4. ASSUME NEW id \in Nat \ {0} PROVE Connected(r, id) \in UserRecord
  BY DEF Connected, UserRecord
<1>5. Staying(r) \in UserRecord
  BY DEF Staying, UserRecord
<1>6. Postponed(r, pk) \in UserRecord
  BY NetAssumption DEF Postponed, UserRecord
<1>7. ASSUME ~Expires(r) PROVE Counted(r) \in UserRecord
  <2>1. r.Salir - 1 \in Nat
    BY <1>7 DEF Expires, UserRecord
  <2> QED BY <2>1 DEF Counted, UserRecord
<1> QED BY <1>1, <1>2, <1>3, <1>4, <1>5, <1>6, <1>7

\* The same for the socket and the write queue.
LEMMA NoNetType == NoNet \in NetRecord
BY DEF NetRecord, NoNet, NoSocket

LEMMA NetOps ==
  ASSUME NEW r \in NetRecord
  PROVE  /\ NoNet \in NetRecord
         /\ Written(r) \in NetRecord
         /\ \A n \in Nat : [r EXCEPT !.reads = n] \in NetRecord
                         /\ [r EXCEPT !.writes = n] \in NetRecord
         /\ \A n \in Nat : Attached(r, n) \in NetRecord
         /\ \A b \in BOOLEAN : Queued(r, b) \in NetRecord
<1>1. NoNet \in NetRecord
  BY DEF NetRecord, NoNet, NoSocket
<1>2. Popped(r) \in Nat
  BY DEF Popped, NetRecord
<1> DEFINE more == Popped(r) > 0 /\ r.socket # NoSocket
<1>3. (more /\ r.is_writing) \in BOOLEAN /\ (IF more THEN r.writes + 1 ELSE r.writes) \in Nat
  BY DEF NetRecord
<1>4. Written(r) = [r EXCEPT !.queue = Popped(r), !.is_writing = more /\ r.is_writing,
                             !.writes = IF more THEN r.writes + 1 ELSE r.writes]
  BY DEF Written, NetRecord
<1> HIDE DEF more
<1>5. ASSUME NEW q \in Nat, NEW b \in BOOLEAN, NEW w \in Nat
      PROVE  [r EXCEPT !.queue = q, !.is_writing = b, !.writes = w] \in NetRecord
  BY DEF NetRecord
<1>6. ASSUME NEW n \in Nat
      PROVE  [r EXCEPT !.reads = n] \in NetRecord /\ [r EXCEPT !.writes = n] \in NetRecord
  BY DEF NetRecord
<1>7. ASSUME NEW n \in Nat PROVE Attached(r, n) \in NetRecord
  <2>1. r.reads + 1 \in Nat
    BY DEF NetRecord
  <2> QED BY <2>1 DEF Attached, NetRecord
<1>8. ASSUME NEW b \in BOOLEAN PROVE Queued(r, b) \in NetRecord
  <2>1. r.queue + 1 \in Nat /\ (IF b THEN r.writes + 1 ELSE r.writes) \in Nat
    BY DEF NetRecord
  <2> QED BY <2>1, <1>5 DEF Queued
<1>9. Written(r) \in NetRecord
  <2>1. [r EXCEPT !.queue = Popped(r), !.is_writing = more /\ r.is_writing,
                  !.writes = IF more THEN r.writes + 1 ELSE r.writes] \in NetRecord
    <3> HIDE DEF NetRecord
    <3> QED BY <1>2, <1>3, <1>5
  <2> QED BY ONLY <1>4, <2>1, Zenon
<1> QED BY <1>1, <1>6, <1>7, <1>8, <1>9

\* Aborted(s) is a sequence of completions of slot s.
LEMMA AbortedType ==
  ASSUME TypeOK, NEW s \in Slots
  PROVE  /\ Aborted(s) \in Seq(Completion)
         /\ \A i \in 1..Len(Aborted(s)) : Aborted(s)[i].slot = s
<1> DEFINE post(op, n) == [i \in 1..n |-> [op |-> op, slot |-> s, conn |-> net[s].socket, ok |-> FALSE]]
<1>1. net[s] \in NetRecord /\ s \in Nat
  BY DEF TypeOK, Slots
<1>2. ASSUME NEW op \in {"read", "write"}, NEW n \in Nat
      PROVE  /\ post(op, n) \in Seq(Completion)
             /\ Len(post(op, n)) = n
             /\ \A i \in 1..n : post(op, n)[i].slot = s
  BY <1>1 DEF Completion, NetRecord
<1>3. Aborted(s) = post("read", net[s].reads) \o post("write", net[s].writes)
  BY DEF Aborted
<1>4. net[s].reads \in Nat /\ net[s].writes \in Nat
  BY <1>1 DEF NetRecord
<1> HIDE DEF post
<1>5. DEFINE f == post("read", net[s].reads)
             g == post("write", net[s].writes)
<1>6. /\ f \in Seq(Completion) /\ g \in Seq(Completion)
      /\ \A i \in 1..Len(f) : f[i].slot = s
      /\ \A i \in 1..Len(g) : g[i].slot = s
  BY <1>2, <1>4
<1> HIDE DEF f, g
<1>7. f \o g \in Seq(Completion) /\ \A i \in 1..Len(f \o g) : (f \o g)[i].slot = s
  BY <1>6
<1> QED BY <1>3, <1>7 DEF f, g

-------------------------------------------------------------------------------
(* The inductive invariant *)

\* ConnIDs in use were given before nextConnId.
FreshIds == \A s \in Slots : user[s].ConnID < nextConnId

\* Completions of reads and writes are those of a slot.
SlotsOK(q) == \A i \in 1..Len(q) : q[i].op # "accept" => q[i].slot \in Slots

ReadySlots == SlotsOK(ready)

HandlerSlot == pc = "handler" => at \in Slots

\* The loop of WSApiReiniciarSockets has freed the slots it passed.
RestartDone ==
  pc = "restart" =>
    \A s \in Slots : s < at => user[s].ConnID = NoConn /\ ~user[s].UserLogged

TypeInv == TypeOK /\ ReadySlots /\ HandlerSlot

\* Only characters leave: a connection that logs in starts by playing.
LeavingIsLogged == \A s \in Slots : user[s].Saliendo => user[s].UserLogged

\* What the slots, the sockets and the map keep between them.
Core == SockMapOK /\ FreshIds /\ NetReleased /\ DroppedIsLeaving /\ LeavingIsLogged

IInv == TypeInv /\ Core /\ RestartDone

\* A queue of completions stays one when its head is taken or others are added.
LEMMA QueueOps ==
  ASSUME NEW q \in Seq(Completion), SlotsOK(q)
  PROVE  /\ q # <<>> => Tail(q) \in Seq(Completion) /\ SlotsOK(Tail(q)) /\ Head(q) \in Completion
         /\ q # <<>> /\ Head(q).op # "accept" => Head(q).slot \in Slots
         /\ \A c \in Completion : (c.op = "accept" \/ c.slot \in Slots)
               => Append(q, c) \in Seq(Completion) /\ SlotsOK(Append(q, c))
         /\ \A r \in Seq(Completion) : SlotsOK(r) => q \o r \in Seq(Completion) /\ SlotsOK(q \o r)
BY DEF SlotsOK

\* BorraSlotSock leaves a partial function to the slots.
LEMMA SockToSlotWithoutType ==
  ASSUME TypeOK, NEW s \in Slots
  PROVE  SockToSlotWithout(s) \in [DOMAIN SockToSlotWithout(s) -> Slots]
BY DEF TypeOK, SockToSlotWithout

LEMMA CloseSocketType ==
  ASSUME TypeOK, NEW s \in Slots, NEW rest \in Seq(Completion), SlotsOK(rest),
         CloseSocket(s, rest)
  PROVE  /\ user' \in [Slots -> UserRecord] /\ net' \in [Slots -> NetRecord]
         /\ sockToSlot' \in [DOMAIN sockToSlot' -> Slots]
         /\ ready' \in Seq(Completion) /\ ReadySlots'
         /\ NumUsers' \in Nat /\ LastUser' \in Nat
<1>1. user' \in [Slots -> UserRecord]
  BY RecordOps DEF TypeOK, CloseSocket
<1>2. net' \in [Slots -> NetRecord]
  BY NoNetType DEF TypeOK, CloseSocket, ClosedNet
<1>3. ready' \in Seq(Completion) /\ ReadySlots'
  <2>1. Aborted(s) \in Seq(Completion) /\ SlotsOK(Aborted(s))
    BY AbortedType DEF SlotsOK
  <2>2. ready' = rest \o Aborted(s)
    BY DEF CloseSocket
  <2>3. rest \o Aborted(s) \in Seq(Completion) /\ SlotsOK(rest \o Aborted(s))
    BY <2>1, QueueOps
  <2> QED BY <2>2, <2>3 DEF ReadySlots, SlotsOK
<1>4. NumUsers' \in Nat
  BY DEF TypeOK, CloseSocket, NumUsersAfter
<1>5. LastUser' \in Nat
  BY DEF TypeOK, CloseSocket, LastUserAfter, Slots
<1>6. sockToSlot' \in [DOMAIN sockToSlot' -> Slots]
  BY SockToSlotWithoutType DEF CloseSocket
<1> QED BY <1>1, <1>2, <1>3, <1>4, <1>5, <1>6

LEMMA DisconnectType ==
  ASSUME TypeOK, NEW s \in Slots, NEW rest \in Seq(Completion), SlotsOK(rest),
         Disconnect(s, rest)
  PROVE  /\ user' \in [Slots -> UserRecord] /\ net' \in [Slots -> NetRecord]
         /\ sockToSlot' \in [DOMAIN sockToSlot' -> Slots]
         /\ ready' \in Seq(Completion) /\ ReadySlots'
         /\ NumUsers' \in Nat /\ LastUser' \in Nat
<1>1. CASE ~user[s].UserLogged /\ CloseSocket(s, rest)
  BY <1>1, CloseSocketType
<1>2. CASE user[s].UserLogged
  <2>1. PICK pk \in BOOLEAN : user' = [user EXCEPT ![s] = Leaving(ClosedSL(@), pk)]
    BY <1>2 DEF Disconnect
  <2>2. user' \in [Slots -> UserRecord]
    BY <2>1, RecordOps DEF TypeOK
  <2>3. net' \in [Slots -> NetRecord]
    BY <1>2, NoNetType DEF TypeOK, Disconnect, ClosedNet
  <2>4. ready' \in Seq(Completion) /\ ReadySlots'
    <3>1. Aborted(s) \in Seq(Completion) /\ SlotsOK(Aborted(s))
      BY AbortedType DEF SlotsOK
    <3>2. ready' = rest \o Aborted(s)
      BY <1>2 DEF Disconnect
    <3>3. rest \o Aborted(s) \in Seq(Completion) /\ SlotsOK(rest \o Aborted(s))
      BY <3>1, QueueOps
    <3> QED BY <3>2, <3>3 DEF ReadySlots, SlotsOK
  <2>5. sockToSlot' \in [DOMAIN sockToSlot' -> Slots]
    BY <1>2, SockToSlotWithoutType DEF Disconnect
  <2>6. NumUsers' \in Nat /\ LastUser' \in Nat
    BY <1>2 DEF TypeOK, Disconnect
  <2> QED BY <2>2, <2>3, <2>4, <2>5, <2>6
<1> QED BY <1>1, <1>2 DEF Disconnect

-------------------------------------------------------------------------------
(* Type correctness *)

LEMMA TypeInit == Init => TypeInv
<1> SUFFICES ASSUME Init PROVE TypeInv
  OBVIOUS
<1>1. user \in [Slots -> UserRecord]
  BY DEF Init, FreshSlot, UserRecord, NoConn
<1>2. net \in [Slots -> NetRecord]
  BY NoNetType DEF Init
<1>3. ready \in Seq(Completion) /\ SlotsOK(ready)
  BY DEF Init, SlotsOK
<1>4. sockToSlot \in [DOMAIN sockToSlot -> Slots]
  BY DEF Init
<1>5. at \in 1..(MaxUsers + 1)
  BY NetAssumption DEF Init
<1> QED BY <1>1, <1>2, <1>3, <1>4, <1>5 DEF TypeInv, TypeOK, Init, ReadySlots, HandlerSlot

LEMMA TypeStep == TypeInv /\ [Next]_vars => TypeInv'
<1> SUFFICES ASSUME TypeInv, [Next]_vars PROVE TypeInv'
  OBVIOUS
<1> USE DEF TypeInv
<1>h. ready # <<>> => Tail(ready) \in Seq(Completion) /\ SlotsOK(Tail(ready))
                      /\ Head(ready) \in Completion
  BY QueueOps DEF TypeOK, ReadySlots
<1>t. ready # <<>> /\ Head(ready).op # "accept" => Head(ready).slot \in Slots
  BY QueueOps DEF TypeOK, ReadySlots
<1>a. ASSUME NEW c \in Completion, c.op = "accept" \/ c.slot \in Slots
      PROVE  Append(ready, c) \in Seq(Completion) /\ SlotsOK(Append(ready, c))
  BY <1>a, QueueOps DEF TypeOK, ReadySlots
<1>s. Slots \subseteq Nat /\ Slots \subseteq 1..(MaxUsers + 1) /\ 1 \in 1..(MaxUsers + 1)
  BY NetAssumption DEF Slots
<1>1. CASE PollStart
  BY <1>1 DEF PollStart, TypeOK, ReadySlots, HandlerSlot
<1>2. CASE PollEnd
  BY <1>2 DEF PollEnd, TypeOK, ReadySlots, HandlerSlot
<1>3. CASE KernelAccepts
  <2> DEFINE c == [op |-> "accept", slot |-> 0, conn |-> accepted + 1, ok |-> TRUE]
  <2>1. c \in Completion /\ c.op = "accept" /\ accepted + 1 \in Nat
    BY DEF Completion, TypeOK
  <2>2. ready' = Append(ready, c) /\ accepted' = accepted + 1
    BY <1>3 DEF KernelAccepts
  <2> HIDE DEF c
  <2>3. ready' \in Seq(Completion) /\ SlotsOK(ready')
    BY <2>1, <2>2, <1>a
  <2> QED BY <1>3, <2>1, <2>2, <2>3 DEF KernelAccepts, TypeOK, ReadySlots, SlotsOK, HandlerSlot
<1>4. ASSUME NEW s \in Slots, KernelReads(s) PROVE TypeInv'
  <2>1. PICK ok \in BOOLEAN :
          ready' = Append(ready, [op |-> "read", slot |-> s, conn |-> net[s].socket, ok |-> ok])
    BY <1>4 DEF KernelReads
  <2> DEFINE c == [op |-> "read", slot |-> s, conn |-> net[s].socket, ok |-> ok]
  <2>2. c \in Completion /\ c.slot \in Slots
    BY <1>s DEF Completion, TypeOK, NetRecord
  <2> HIDE DEF c
  <2>3. ready' \in Seq(Completion) /\ SlotsOK(ready')
    BY <2>1, <2>2, <1>a DEF c
  <2>4. net' \in [Slots -> NetRecord]
    <3>1. net[s] \in NetRecord /\ net[s].reads - 1 \in Nat
      BY <1>4 DEF KernelReads, TypeOK, NetRecord
    <3> QED BY <1>4, <3>1, NetOps DEF KernelReads, TypeOK
  <2> QED BY <1>4, <2>3, <2>4 DEF KernelReads, TypeOK, ReadySlots, SlotsOK, HandlerSlot
<1>5. ASSUME NEW s \in Slots, KernelWrites(s) PROVE TypeInv'
  <2>1. PICK ok \in BOOLEAN :
          ready' = Append(ready, [op |-> "write", slot |-> s, conn |-> net[s].socket, ok |-> ok])
    BY <1>5 DEF KernelWrites
  <2> DEFINE c == [op |-> "write", slot |-> s, conn |-> net[s].socket, ok |-> ok]
  <2>2. c \in Completion /\ c.slot \in Slots
    BY <1>s DEF Completion, TypeOK, NetRecord
  <2> HIDE DEF c
  <2>3. ready' \in Seq(Completion) /\ SlotsOK(ready')
    BY <2>1, <2>2, <1>a DEF c
  <2>4. net' \in [Slots -> NetRecord]
    <3>1. net[s] \in NetRecord /\ net[s].writes - 1 \in Nat
      BY <1>5 DEF KernelWrites, TypeOK, NetRecord
    <3> QED BY <1>5, <3>1, NetOps DEF KernelWrites, TypeOK
  <2> QED BY <1>5, <2>3, <2>4 DEF KernelWrites, TypeOK, ReadySlots, SlotsOK, HandlerSlot
<1>6. CASE HandleAcceptRefused
  BY <1>6, <1>h DEF HandleAcceptRefused, NextIs, TypeOK, ReadySlots, SlotsOK, HandlerSlot
<1>7. ASSUME NEW s \in Slots, HandleAccept(s) PROVE TypeInv'
  <2>1. ready' \in Seq(Completion) /\ SlotsOK(ready') /\ Head(ready).conn \in Nat
    BY <1>7, <1>h DEF HandleAccept, NextIs, Completion
  <2>2. user' \in [Slots -> UserRecord]
    BY <1>7, RecordOps DEF HandleAccept, TypeOK
  <2>3. net' \in [Slots -> NetRecord]
    BY <2>1, <1>7, NetOps DEF HandleAccept, TypeOK
  <2>4. sockToSlot' \in [DOMAIN sockToSlot' -> Slots]
    BY <1>7 DEF HandleAccept, TypeOK
  <2> QED BY <1>7, <2>1, <2>2, <2>3, <2>4
          DEF HandleAccept, NextIs, TypeOK, ReadySlots, SlotsOK, HandlerSlot
<1>8. CASE HandleReadIgnored
  BY <1>8, <1>h DEF HandleReadIgnored, NextIs, TypeOK, ReadySlots, SlotsOK, HandlerSlot
<1>9. CASE HandleReadData
  <2>1. /\ ready' \in Seq(Completion) /\ SlotsOK(ready')
        /\ Head(ready).conn \in Nat /\ Head(ready).slot \in Slots
    BY <1>9, <1>h, <1>t DEF HandleReadData, NextIs, Completion
  <2>2. user' \in [Slots -> UserRecord]
    BY <1>9, <2>1 DEF HandleReadData, TypeOK, UserRecord
  <2> QED BY <1>9, <2>1, <2>2, <1>s DEF HandleReadData, TypeOK, ReadySlots, SlotsOK, HandlerSlot
<1>10. CASE HandlerReturns
  <2>1. at \in Slots
    BY <1>10 DEF HandlerReturns, HandlerSlot
  <2>2. net' \in [Slots -> NetRecord]
    <3>1. net[at] \in NetRecord
          /\ (IF net[at].socket = NoSocket THEN net[at].reads ELSE net[at].reads + 1) \in Nat
      BY <2>1 DEF TypeOK, NetRecord
    <3> QED BY <1>10, <3>1, NetOps DEF HandlerReturns, TypeOK
  <2> QED BY <1>10, <2>2 DEF HandlerReturns, TypeOK, ReadySlots, SlotsOK, HandlerSlot
<1>11. CASE HandleReadError
  <2>1. /\ Head(ready).slot \in Slots /\ Tail(ready) \in Seq(Completion)
        /\ SlotsOK(Tail(ready)) /\ Disconnect(Head(ready).slot, Tail(ready))
    BY <1>11, <1>h, <1>t DEF HandleReadError, NextIs
  <2> QED BY <1>11, <2>1, DisconnectType
          DEF HandleReadError, NextIs, TypeOK, ReadySlots, SlotsOK, HandlerSlot
<1>12. CASE HandleWriteError
  <2>1. /\ Head(ready).slot \in Slots /\ Tail(ready) \in Seq(Completion)
        /\ SlotsOK(Tail(ready)) /\ Disconnect(Head(ready).slot, Tail(ready))
    BY <1>12, <1>h, <1>t DEF HandleWriteError, NextIs
  <2> QED BY <1>12, <2>1, DisconnectType
          DEF HandleWriteError, NextIs, TypeOK, ReadySlots, SlotsOK, HandlerSlot
<1>13. CASE HandleWriteOk
  <2>1. ready' \in Seq(Completion) /\ SlotsOK(ready') /\ Head(ready).slot \in Slots
    BY <1>13, <1>h, <1>t DEF HandleWriteOk, NextIs
  <2>2. net' \in [Slots -> NetRecord]
    BY <1>13, <2>1, NetOps DEF HandleWriteOk, TypeOK
  <2> QED BY <1>13, <2>1, <2>2 DEF HandleWriteOk, NextIs, TypeOK, ReadySlots, SlotsOK, HandlerSlot
<1>14. CASE Login
  <2>1. user' \in [Slots -> UserRecord]
    BY <1>14 DEF Login, TypeOK, UserRecord
  <2> QED BY <1>14, <2>1 DEF Login, TypeOK, ReadySlots, SlotsOK, HandlerSlot
<1>15. CASE ReadPacket
  <2>1. user' \in [Slots -> UserRecord]
    BY <1>15 DEF ReadPacket, TypeOK, UserRecord
  <2> QED BY <1>15, <2>1 DEF ReadPacket, TypeOK, ReadySlots, SlotsOK, HandlerSlot
<1>16. ASSUME NEW s \in Slots, CerrarUsuario(s) PROVE TypeInv'
  <2>1. PICK pk \in BOOLEAN : user' = [user EXCEPT ![s] = Leaving(@, pk)]
    BY <1>16 DEF CerrarUsuario
  <2>2. user' \in [Slots -> UserRecord]
    BY <2>1, RecordOps DEF TypeOK
  <2> QED BY <1>16, <2>2 DEF CerrarUsuario, TypeOK, ReadySlots, SlotsOK, HandlerSlot
<1>17. ASSUME NEW s \in Slots, CancelExit(s) PROVE TypeInv'
  <2>1. user' \in [Slots -> UserRecord]
    <3>1. user[s] \in UserRecord /\ TRUE \in BOOLEAN
      BY DEF TypeOK
    <3>2. Staying(user[s]) \in UserRecord /\ \A pk \in BOOLEAN : Postponed(user[s], pk) \in UserRecord
      BY <3>1, RecordOps
    <3> QED BY <1>17, <3>2 DEF CancelExit, TypeOK
  <2> QED BY <1>17, <2>1 DEF CancelExit, TypeOK, ReadySlots, SlotsOK, HandlerSlot
<1>18. ASSUME NEW s \in Slots, Kick(s) PROVE TypeInv'
  BY <1>18, CloseSocketType DEF Kick, TypeOK, ReadySlots, HandlerSlot
<1>19. ASSUME NEW s \in Slots, Send(s) PROVE TypeInv'
  <2> DEFINE c == [op |-> "write", slot |-> s, conn |-> net[s].socket, ok |-> TRUE]
  <2>1. c \in Completion /\ c.slot \in Slots
    BY <1>s DEF Completion, TypeOK, NetRecord
  <2>2. PICK immediate \in BOOLEAN :
          /\ net' = [net EXCEPT ![s] = Queued(@, ~net[s].is_writing /\ ~immediate)]
          /\ ready' = IF immediate THEN Append(ready, c) ELSE ready
    BY <1>19 DEF Send
  <2> HIDE DEF c
  <2>3. ready' \in Seq(Completion) /\ SlotsOK(ready')
    BY <2>1, <2>2, <1>a DEF TypeOK, ReadySlots
  <2>4. net' \in [Slots -> NetRecord]
    <3>1. net[s] \in NetRecord /\ (~net[s].is_writing /\ ~immediate) \in BOOLEAN
      BY DEF TypeOK, NetRecord
    <3> QED BY <2>2, <3>1, NetOps DEF TypeOK
  <2> QED BY <1>19, <2>3, <2>4 DEF Send, TypeOK, ReadySlots, SlotsOK, HandlerSlot
<1>20. ASSUME NEW s \in Slots, SendOverflow(s) PROVE TypeInv'
  BY <1>20, DisconnectType DEF SendOverflow, TypeOK, ReadySlots, HandlerSlot
<1>21. CASE TickStart
  BY <1>21, <1>s DEF TickStart, TypeOK, ReadySlots, HandlerSlot
<1>22. CASE TickSlot
  <2>1. at \in Slots /\ at + 1 \in 1..(MaxUsers + 1)
    BY <1>22, NetAssumption DEF TickSlot, Slots
  <2>2. CASE CloseSocket(at, ready)
    BY <1>22, <2>1, <2>2, CloseSocketType DEF TickSlot, TypeOK, ReadySlots, HandlerSlot
  <2>3. CASE /\ ~Expires(user[at])
             /\ user' = [user EXCEPT ![at] = Counted(@)]
             /\ UNCHANGED <<net, sockToSlot, ready, NumUsers, LastUser>>
    <3>1. user' \in [Slots -> UserRecord]
      BY <2>1, <2>3, RecordOps DEF TypeOK
    <3> QED BY <1>22, <2>1, <2>3, <3>1 DEF TickSlot, TypeOK, ReadySlots, SlotsOK, HandlerSlot
  <2>4. CASE UNCHANGED <<user, net, sockToSlot, ready, NumUsers, LastUser>>
    BY <1>22, <2>1, <2>4 DEF TickSlot, TypeOK, ReadySlots, SlotsOK, HandlerSlot
  <2> QED BY <1>22, <2>2, <2>3, <2>4 DEF TickSlot
<1>23. CASE TickEnd
  BY <1>23, <1>s DEF TickEnd, TypeOK, ReadySlots, HandlerSlot
<1>24. CASE RestartStart
  BY <1>24, <1>s DEF RestartStart, TypeOK, ReadySlots, HandlerSlot
<1>25. CASE RestartSlot
  <2>1. at \in Slots /\ at + 1 \in 1..(MaxUsers + 1)
    BY <1>25, NetAssumption DEF RestartSlot, Slots
  <2>2. CASE CloseSocket(at, ready)
    BY <1>25, <2>1, <2>2, CloseSocketType DEF RestartSlot, TypeOK, ReadySlots, HandlerSlot
  <2>3. CASE UNCHANGED <<user, net, sockToSlot, ready, NumUsers, LastUser>>
    BY <1>25, <2>1, <2>3 DEF RestartSlot, TypeOK, ReadySlots, SlotsOK, HandlerSlot
  <2> QED BY <1>25, <2>2, <2>3 DEF RestartSlot
<1>26. CASE RestartEnd
  <2>1. net' \in [Slots -> NetRecord] /\ sockToSlot' \in [DOMAIN sockToSlot' -> Slots]
    BY <1>26, NoNetType DEF RestartEnd
  <2>2. ready' \in Seq(Completion) /\ SlotsOK(ready')
    BY <1>26 DEF RestartEnd, SlotsOK
  <2> QED BY <1>26, <1>s, <2>1, <2>2 DEF RestartEnd, TypeOK, ReadySlots, SlotsOK, HandlerSlot
<1>27. CASE UNCHANGED vars
  BY <1>27 DEF vars, TypeOK, ReadySlots, SlotsOK, HandlerSlot
<1> QED
  BY <1>1, <1>2, <1>3, <1>4, <1>5, <1>6, <1>7, <1>8, <1>9, <1>10, <1>11, <1>12, <1>13, <1>14,
     <1>15, <1>16, <1>17, <1>18, <1>19, <1>20, <1>21, <1>22, <1>23, <1>24, <1>25, <1>26, <1>27
  DEF Next, Kernel, Handle, Game

\* Every variable keeps its type, and the slots of the queued completions and of
\* the packet handler are slots, whatever MaxUsers and the other constants are.
THEOREM TypeCorrect == Spec => []TypeOK
<1>1. TypeInv => TypeOK
  BY DEF TypeInv
<1> QED BY <1>1, TypeInit, TypeStep, PTL DEF Spec

-------------------------------------------------------------------------------
(* The slots, the sockets and the map agree *)

\* A step that leaves the connections alone keeps Core, if it touches the network
\* part of connected slots only and lets no dropped character off.
LEMMA KeepCore ==
  ASSUME TypeInv, TypeInv', Core,
         sockToSlot' = sockToSlot, nextConnId' = nextConnId,
         \A s \in Slots :
           /\ user'[s].ConnID = user[s].ConnID
           /\ user'[s].ConnIDValida = user[s].ConnIDValida
           /\ user[s].ConnID = NoConn =>
                /\ net'[s] = net[s]
                /\ user'[s].UserLogged => user'[s].Saliendo
           /\ user'[s].Saliendo => user'[s].UserLogged
  PROVE  Core'
<1>1. SockMapOK'
  BY DEF Core, SockMapOK
<1>2. FreshIds'
  BY DEF Core, FreshIds
<1>3. NetReleased'
  BY DEF Core, NetReleased
<1>4. DroppedIsLeaving'
  BY DEF Core, DroppedIsLeaving
<1>5. LeavingIsLogged'
  BY DEF LeavingIsLogged
<1> QED BY <1>1, <1>2, <1>3, <1>4, <1>5 DEF Core

\* A step that takes the connection away from slot s, as CloseSocketSL does.
LEMMA DropCore ==
  ASSUME TypeInv, TypeInv', Core, NEW s \in Slots,
         sockToSlot' = SockToSlotWithout(s), nextConnId' = nextConnId,
         \A t \in Slots : t # s => user'[t] = user[t] /\ net'[t] = net[t],
         user'[s].ConnID = NoConn, ~user'[s].ConnIDValida, net'[s] = NoNet,
         user'[s].UserLogged <=> user'[s].Saliendo
  PROVE  Core'
<1> USE DEF Core
<1>1. \A t \in Slots : t # s /\ user[t].ConnID # NoConn => user[t].ConnID # user[s].ConnID
  BY DEF SockMapOK
<1>2. SockMapOK'
  <2>1. {user'[t].ConnID : t \in Slots} \ {NoConn}
          = ({user[t].ConnID : t \in Slots} \ {NoConn}) \ {user[s].ConnID}
    BY <1>1
  <2>2. DOMAIN sockToSlot' = DOMAIN sockToSlot \ {user[s].ConnID}
    BY DEF SockToSlotWithout
  <2>3. \A t \in Slots : user'[t].ConnID # NoConn => sockToSlot'[user'[t].ConnID] = t
    BY <1>1 DEF SockMapOK, SockToSlotWithout
  <2> QED BY <2>1, <2>2, <2>3 DEF SockMapOK
<1>3. FreshIds'
  BY DEF FreshIds, TypeInv, TypeOK, NoConn
<1>4. NetReleased'
  BY DEF NetReleased
<1>5. DroppedIsLeaving'
  BY DEF DroppedIsLeaving
<1>6. LeavingIsLogged'
  BY DEF LeavingIsLogged
<1> QED BY <1>2, <1>3, <1>4, <1>5, <1>6

\* The two ways of dropping a connection are such steps.
LEMMA CloseSocketEffect ==
  ASSUME TypeInv, NEW s \in Slots, NEW rest, CloseSocket(s, rest)
  PROVE  /\ sockToSlot' = SockToSlotWithout(s)
         /\ \A t \in Slots : t # s => user'[t] = user[t] /\ net'[t] = net[t]
         /\ user'[s].ConnID = NoConn /\ ~user'[s].ConnIDValida /\ net'[s] = NoNet
         /\ ~user'[s].UserLogged /\ ~user'[s].Saliendo
<1>1. user[s] \in UserRecord /\ user' = [user EXCEPT ![s] = Reset(user[s])]
      /\ net' = [net EXCEPT ![s] = NoNet]
  BY DEF CloseSocket, TypeInv, TypeOK, ClosedNet
<1>2. /\ Reset(user[s]).ConnID = NoConn /\ ~Reset(user[s]).ConnIDValida
      /\ ~Reset(user[s]).UserLogged /\ ~Reset(user[s]).Saliendo
  <2>1. ClosedSL(user[s]) \in UserRecord
    BY <1>1, RecordOps, TRUE \in BOOLEAN
  <2>2. ClosedSL(user[s]).ConnID = NoConn /\ ~ClosedSL(user[s]).ConnIDValida
    BY <1>1 DEF ClosedSL, UserRecord
  <2> QED BY <2>1, <2>2 DEF Reset, UserRecord
<1>3. sockToSlot' = SockToSlotWithout(s)
  BY DEF CloseSocket
<1> HIDE DEF Reset
<1> QED BY <1>1, <1>2, <1>3 DEF TypeInv, TypeOK

LEMMA DisconnectEffect ==
  ASSUME TypeInv, NEW s \in Slots, NEW rest, Disconnect(s, rest)
  PROVE  /\ sockToSlot' = SockToSlotWithout(s)
         /\ \A t \in Slots : t # s => user'[t] = user[t] /\ net'[t] = net[t]
         /\ user'[s].ConnID = NoConn /\ ~user'[s].ConnIDValida /\ net'[s] = NoNet
         /\ user'[s].UserLogged <=> user[s].UserLogged
         /\ user'[s].UserLogged <=> user'[s].Saliendo
<1>1. CASE ~user[s].UserLogged /\ CloseSocket(s, rest)
  BY <1>1, CloseSocketEffect
<1>2. CASE user[s].UserLogged
  <2>1. PICK pk \in BOOLEAN : user' = [user EXCEPT ![s] = Leaving(ClosedSL(user[s]), pk)]
    BY <1>2 DEF Disconnect
  <2>2. user[s] \in UserRecord /\ net' = [net EXCEPT ![s] = NoNet]
        /\ sockToSlot' = SockToSlotWithout(s)
    BY <1>2 DEF Disconnect, TypeInv, TypeOK, ClosedNet
  <2> DEFINE r == ClosedSL(user[s])
  <2>3. r \in UserRecord /\ r.ConnID = NoConn /\ ~r.ConnIDValida /\ r.UserLogged
    BY <1>2, <2>2 DEF ClosedSL, UserRecord, NoConn
  <2> HIDE DEF r
  <2>4. /\ Leaving(r, pk).ConnID = NoConn /\ ~Leaving(r, pk).ConnIDValida
        /\ Leaving(r, pk).UserLogged /\ Leaving(r, pk).Saliendo
    BY <2>3 DEF Leaving, UserRecord
  <2>5. user' = [user EXCEPT ![s] = Leaving(r, pk)]
    BY <2>1 DEF r
  <2> HIDE DEF Leaving
  <2> QED BY <1>2, <2>2, <2>4, <2>5 DEF TypeInv, TypeOK
<1> QED BY <1>1, <1>2 DEF Disconnect

\* The link of a record to the network and to its character.
SameLink(q, r) ==
  q.ConnID = r.ConnID /\ q.ConnIDValida = r.ConnIDValida /\ q.UserLogged = r.UserLogged

\* What the operations on the countdown leave alone, and what they do to Saliendo.
LEMMA CountdownOps ==
  ASSUME NEW r \in UserRecord
  PROVE  /\ SameLink(Staying(r), r) /\ ~Staying(r).Saliendo
         /\ SameLink(Counted(r), r) /\ Counted(r).Saliendo = r.Saliendo
         /\ \A pk \in BOOLEAN :
              /\ SameLink(Postponed(r, pk), r) /\ Postponed(r, pk).Saliendo = r.Saliendo
              /\ SameLink(Leaving(r, pk), r)
              /\ Leaving(r, pk).Saliendo <=> r.UserLogged \/ r.Saliendo
<1>1. SameLink(Staying(r), r) /\ ~Staying(r).Saliendo
  BY DEF Staying, SameLink, UserRecord
<1>2. SameLink(Counted(r), r) /\ Counted(r).Saliendo = r.Saliendo
  BY DEF Counted, SameLink, UserRecord
<1>3. ASSUME NEW pk \in BOOLEAN
      PROVE  SameLink(Postponed(r, pk), r) /\ Postponed(r, pk).Saliendo = r.Saliendo
  BY DEF Postponed, SameLink, UserRecord
<1>4. ASSUME NEW pk \in BOOLEAN
      PROVE  /\ SameLink(Leaving(r, pk), r)
             /\ Leaving(r, pk).Saliendo <=> r.UserLogged \/ r.Saliendo
  BY DEF Leaving, SameLink, UserRecord
<1> QED BY <1>1, <1>2, <1>3, <1>4

LEMMA CoreInit == Init => Core /\ RestartDone
<1> SUFFICES ASSUME Init PROVE Core /\ RestartDone
  OBVIOUS
<1>1. \A s \in Slots :
        /\ user[s].ConnID = NoConn /\ ~user[s].ConnIDValida
        /\ ~user[s].UserLogged /\ ~user[s].Saliendo /\ net[s] = NoNet
  BY DEF Init, FreshSlot
<1>2. DOMAIN sockToSlot = {} /\ nextConnId = 1 /\ pc = "idle"
  BY DEF Init
<1>3. SockMapOK
  BY <1>1, <1>2 DEF SockMapOK
<1>4. FreshIds
  BY <1>1, <1>2 DEF FreshIds, NoConn
<1> QED BY <1>1, <1>2, <1>3, <1>4 DEF Core, NetReleased, DroppedIsLeaving, LeavingIsLogged, RestartDone

LEMMA CoreStep == IInv /\ TypeInv' /\ [Next]_vars => Core'
<1> SUFFICES ASSUME TypeInv, Core, RestartDone, TypeInv', [Next]_vars PROVE Core'
  BY DEF IInv
<1>r. \A s \in Slots : user[s] \in UserRecord /\ net[s] \in NetRecord
  BY DEF TypeInv, TypeOK
<1>d. \A s \in Slots :
        /\ user[s].ConnID = NoConn /\ user[s].UserLogged => user[s].Saliendo
        /\ user[s].Saliendo => user[s].UserLogged
  BY DEF Core, DroppedIsLeaving, LeavingIsLogged
<1>n. \A s \in Slots : user[s].ConnID = NoConn => ~user[s].ConnIDValida /\ net[s] = NoNet
  BY DEF Core, NetReleased
<1>q. ready # <<>> /\ Head(ready).op # "accept" => Head(ready).slot \in Slots
  BY QueueOps DEF TypeInv, TypeOK, ReadySlots
<1>u. ASSUME UNCHANGED <<user, sockToSlot, nextConnId>>,
             \A s \in Slots : user[s].ConnID = NoConn => net'[s] = net[s]
      PROVE  Core'
  BY <1>u, <1>d, KeepCore
<1>1. CASE PollStart
  BY <1>1, <1>u DEF PollStart
<1>2. CASE PollEnd
  BY <1>2, <1>u DEF PollEnd
<1>3. CASE KernelAccepts
  BY <1>3, <1>u DEF KernelAccepts
<1>4. ASSUME NEW s \in Slots, KernelReads(s) PROVE Core'
  <2>1. user[s].ConnID # NoConn
    BY <1>4, <1>n DEF KernelReads, NoNet
  <2>2. \A t \in Slots : t # s => net'[t] = net[t]
    BY <1>4 DEF KernelReads, TypeInv, TypeOK
  <2> QED BY <1>4, <2>1, <2>2, <1>u DEF KernelReads
<1>5. ASSUME NEW s \in Slots, KernelWrites(s) PROVE Core'
  <2>1. user[s].ConnID # NoConn
    BY <1>5, <1>n DEF KernelWrites, NoNet
  <2>2. \A t \in Slots : t # s => net'[t] = net[t]
    BY <1>5 DEF KernelWrites, TypeInv, TypeOK
  <2> QED BY <1>5, <2>1, <2>2, <1>u DEF KernelWrites
<1>6. CASE HandleAcceptRefused
  BY <1>6, <1>u DEF HandleAcceptRefused
<1>7. ASSUME NEW s \in Slots, HandleAccept(s) PROVE Core'
  <2> DEFINE r == Connected(user[s], nextConnId)
  <2>1. nextConnId \in Nat /\ nextConnId # NoConn /\ user[s].ConnID = NoConn
    BY <1>7 DEF HandleAccept, NextOpenUser, IsOpen, TypeInv, TypeOK, NoConn
  <2>2. /\ r.ConnID = nextConnId
        /\ r.UserLogged = user[s].UserLogged /\ r.Saliendo = user[s].Saliendo
    BY <1>r DEF Connected, UserRecord
  <2> HIDE DEF r
  <2>3. /\ user' = [user EXCEPT ![s] = r] /\ nextConnId' = nextConnId + 1
        /\ sockToSlot' = [k \in DOMAIN sockToSlot \union {nextConnId} |->
                            IF k = nextConnId THEN s ELSE sockToSlot[k]]
    BY <1>7 DEF HandleAccept, r
  <2>4. /\ user'[s] = r
        /\ \A t \in Slots : t # s => user'[t] = user[t]
    BY <2>3 DEF TypeInv, TypeOK
  <2>5. \A t \in Slots : t # s => net'[t] = net[t]
    BY <1>7 DEF HandleAccept, TypeInv, TypeOK
  <2>6. \A t \in Slots : user[t].ConnID < nextConnId /\ user[t].ConnID # nextConnId
                        /\ user[t].ConnID \in Int
    BY <1>r DEF Core, FreshIds, TypeInv, TypeOK, UserRecord, NoConn
  <2>7. SockMapOK'
    <3>1. {user'[t].ConnID : t \in Slots} \ {NoConn}
            = ({user[t].ConnID : t \in Slots} \ {NoConn}) \union {nextConnId}
      BY <2>1, <2>2, <2>4
    <3>2. DOMAIN sockToSlot' = DOMAIN sockToSlot \union {nextConnId}
      BY <2>3
    <3>3. \A t \in Slots : user'[t].ConnID # NoConn => sockToSlot'[user'[t].ConnID] = t
      BY <2>2, <2>3, <2>4, <2>6 DEF Core, SockMapOK
    <3> QED BY <3>1, <3>2, <3>3 DEF Core, SockMapOK
  <2>8. FreshIds'
    BY <2>1, <2>2, <2>3, <2>4, <2>6 DEF FreshIds
  <2>9. NetReleased'
    BY <2>1, <2>2, <2>4, <2>5, <1>n DEF NetReleased
  <2>10. DroppedIsLeaving'
    BY <2>1, <2>2, <2>4, <1>d DEF DroppedIsLeaving
  <2>11. LeavingIsLogged'
    BY <2>2, <2>4, <1>d DEF LeavingIsLogged
  <2> QED BY <2>7, <2>8, <2>9, <2>10, <2>11 DEF Core
<1>8. CASE HandleReadIgnored
  BY <1>8, <1>u DEF HandleReadIgnored
<1>9. CASE HandleReadData
  <2> DEFINE h == Head(ready).slot
             r == [user[h] EXCEPT !.incomingData = @ \union {Head(ready).conn}]
  <2>1. h \in Slots
    BY <1>9, <1>q DEF HandleReadData, NextIs
  <2>2. /\ r.ConnID = user[h].ConnID /\ r.ConnIDValida = user[h].ConnIDValida
        /\ r.UserLogged = user[h].UserLogged /\ r.Saliendo = user[h].Saliendo
    BY <2>1, <1>r DEF UserRecord
  <2>3. user' = [user EXCEPT ![h] = r]
    BY <1>9 DEF HandleReadData
  <2> HIDE DEF h, r
  <2>4. \A t \in Slots : user'[t] = IF t = h THEN r ELSE user[t]
    BY <2>1, <2>3 DEF TypeInv, TypeOK
  <2>5. UNCHANGED <<net, sockToSlot, nextConnId>>
    BY <1>9 DEF HandleReadData
  <2> QED BY <2>2, <2>4, <2>5, <1>d, KeepCore
<1>10. CASE HandlerReturns
  <2>1. at \in Slots
    BY <1>10 DEF HandlerReturns, TypeInv, HandlerSlot
  <2>2. \A t \in Slots : t # at => net'[t] = net[t]
    BY <1>10, <2>1 DEF HandlerReturns, TypeInv, TypeOK
  <2>3. net[at] = NoNet => net'[at] = net[at]
    BY <1>10, <2>1, <1>r DEF HandlerReturns, TypeInv, TypeOK, NoNet, NoSocket, NetRecord
  <2> QED BY <1>10, <2>1, <2>2, <2>3, <1>n, <1>u DEF HandlerReturns
<1>11. CASE HandleReadError
  <2>1. Head(ready).slot \in Slots /\ Disconnect(Head(ready).slot, Tail(ready))
        /\ nextConnId' = nextConnId
    BY <1>11, <1>q DEF HandleReadError, NextIs
  <2> QED BY <2>1, DisconnectEffect, DropCore
<1>12. CASE HandleWriteError
  <2>1. Head(ready).slot \in Slots /\ Disconnect(Head(ready).slot, Tail(ready))
        /\ nextConnId' = nextConnId
    BY <1>12, <1>q DEF HandleWriteError, NextIs
  <2> QED BY <2>1, DisconnectEffect, DropCore
<1>13. CASE HandleWriteOk
  <2> DEFINE h == Head(ready).slot
  <2>1. h \in Slots
    BY <1>13, <1>q DEF HandleWriteOk, NextIs
  <2>2. \A t \in Slots : net'[t] = IF t = h THEN Written(net[h]) ELSE net[t]
    BY <1>13, <2>1 DEF HandleWriteOk, TypeInv, TypeOK
  <2>3. Written(NoNet) = NoNet
    <3>1. Popped(NoNet) = 0
      BY DEF Popped, NoNet
    <3>2. Written(NoNet) = [NoNet EXCEPT !.queue = 0, !.is_writing = FALSE, !.writes = 0]
      BY <3>1 DEF Written, NoNet
    <3> QED BY <3>2 DEF NoNet
  <2> QED BY <1>13, <2>1, <2>2, <2>3, <1>n, <1>u DEF HandleWriteOk
<1>14. CASE Login
  <2> DEFINE r == [user[at] EXCEPT !.UserLogged = TRUE]
  <2>1. at \in Slots /\ user[at].ConnIDValida /\ user' = [user EXCEPT ![at] = r]
    BY <1>14 DEF Login, TypeInv, HandlerSlot
  <2>2. r.ConnID = user[at].ConnID /\ r.ConnIDValida = user[at].ConnIDValida /\ r.UserLogged
    BY <2>1, <1>r DEF UserRecord
  <2> HIDE DEF r
  <2>3. \A t \in Slots : user'[t] = IF t = at THEN r ELSE user[t]
    BY <2>1 DEF TypeInv, TypeOK
  <2>4. UNCHANGED <<net, sockToSlot, nextConnId>>
    BY <1>14 DEF Login
  <2>5. user[at].ConnID # NoConn
    BY <2>1, <1>n
  <2>6. \A t \in Slots : user'[t].Saliendo => user'[t].UserLogged
    BY <2>2, <2>3, <1>d
  <2>7. \A t \in Slots :
          /\ user'[t].ConnID = user[t].ConnID
          /\ user'[t].ConnIDValida = user[t].ConnIDValida
          /\ user[t].ConnID = NoConn => user'[t] = user[t]
    BY <2>2, <2>3, <2>5
  <2> QED BY <2>4, <2>6, <2>7, <1>d, KeepCore
<1>15. CASE ReadPacket
  <2> DEFINE r == [user[at] EXCEPT !.incomingData = {}]
  <2>1. at \in Slots /\ user' = [user EXCEPT ![at] = r]
    BY <1>15 DEF ReadPacket, TypeInv, HandlerSlot
  <2>2. /\ r.ConnID = user[at].ConnID /\ r.ConnIDValida = user[at].ConnIDValida
        /\ r.UserLogged = user[at].UserLogged /\ r.Saliendo = user[at].Saliendo
    BY <2>1, <1>r DEF UserRecord
  <2> HIDE DEF r
  <2>3. \A t \in Slots : user'[t] = IF t = at THEN r ELSE user[t]
    BY <2>1 DEF TypeInv, TypeOK
  <2>4. UNCHANGED <<net, sockToSlot, nextConnId>>
    BY <1>15 DEF ReadPacket
  <2> QED BY <2>2, <2>3, <2>4, <1>d, KeepCore
<1>16. ASSUME NEW s \in Slots, CerrarUsuario(s) PROVE Core'
  <2>1. PICK pk \in BOOLEAN : user' = [user EXCEPT ![s] = Leaving(@, pk)]
    BY <1>16 DEF CerrarUsuario
  <2>2. \A t \in Slots : user'[t] = IF t = s THEN Leaving(user[s], pk) ELSE user[t]
    BY <2>1 DEF TypeInv, TypeOK
  <2>3. UNCHANGED <<net, sockToSlot, nextConnId>>
    BY <1>16 DEF CerrarUsuario
  <2> QED BY <2>2, <2>3, <1>r, <1>d, CountdownOps, KeepCore DEF SameLink
<1>17. ASSUME NEW s \in Slots, CancelExit(s) PROVE Core'
  <2>1. UNCHANGED <<net, sockToSlot, nextConnId>> /\ user[s].Saliendo
    BY <1>17 DEF CancelExit
  <2>2. CASE user[s].ConnIDValida /\ user' = [user EXCEPT ![s] = Staying(@)]
    <3>1. \A t \in Slots : user'[t] = IF t = s THEN Staying(user[s]) ELSE user[t]
      BY <2>2 DEF TypeInv, TypeOK
    <3>2. user[s].ConnID # NoConn
      BY <2>2, <1>n
    <3> QED BY <2>1, <3>1, <3>2, <1>r, <1>d, CountdownOps, KeepCore DEF SameLink
  <2>3. CASE \E pk \in BOOLEAN : user' = [user EXCEPT ![s] = Postponed(@, pk)]
    <3>1. PICK pk \in BOOLEAN : user' = [user EXCEPT ![s] = Postponed(@, pk)]
      BY <2>3
    <3>2. \A t \in Slots : user'[t] = IF t = s THEN Postponed(user[s], pk) ELSE user[t]
      BY <3>1 DEF TypeInv, TypeOK
    <3> QED BY <2>1, <3>2, <1>r, <1>d, CountdownOps, KeepCore DEF SameLink
  <2> QED BY <1>17, <2>2, <2>3 DEF CancelExit
<1>18. ASSUME NEW s \in Slots, Kick(s) PROVE Core'
  BY <1>18, CloseSocketEffect, DropCore DEF Kick
<1>19. ASSUME NEW s \in Slots, Send(s) PROVE Core'
  <2>1. user[s].ConnID # NoConn /\ UNCHANGED <<user, sockToSlot, nextConnId>>
    BY <1>19 DEF Send, CanSend
  <2>2. \A t \in Slots : t # s => net'[t] = net[t]
    BY <1>19 DEF Send, TypeInv, TypeOK
  <2> QED BY <2>1, <2>2, <1>u
<1>20. ASSUME NEW s \in Slots, SendOverflow(s) PROVE Core'
  BY <1>20, DisconnectEffect, DropCore DEF SendOverflow
<1>21. CASE TickStart
  BY <1>21, <1>u DEF TickStart
<1>22. CASE TickSlot
  <2>1. at \in Slots /\ nextConnId' = nextConnId
    BY <1>22 DEF TickSlot
  <2>2. CASE CloseSocket(at, ready)
    BY <2>1, <2>2, CloseSocketEffect, DropCore
  <2>3. CASE /\ user[at].Saliendo
             /\ user' = [user EXCEPT ![at] = Counted(@)]
             /\ UNCHANGED <<net, sockToSlot>>
    <3>1. \A t \in Slots : user'[t] = IF t = at THEN Counted(user[at]) ELSE user[t]
      BY <2>1, <2>3 DEF TypeInv, TypeOK
    <3> QED BY <2>1, <2>3, <3>1, <1>r, <1>d, CountdownOps, KeepCore DEF SameLink
  <2>4. CASE UNCHANGED <<user, net, sockToSlot>>
    BY <2>1, <2>4, <1>u
  <2> QED BY <1>22, <2>2, <2>3, <2>4 DEF TickSlot
<1>23. CASE TickEnd
  BY <1>23, <1>u DEF TickEnd
<1>24. CASE RestartStart
  BY <1>24, <1>u DEF RestartStart
<1>25. CASE RestartSlot
  <2>1. at \in Slots /\ nextConnId' = nextConnId
    BY <1>25 DEF RestartSlot
  <2>2. CASE CloseSocket(at, ready)
    BY <2>1, <2>2, CloseSocketEffect, DropCore
  <2>3. CASE UNCHANGED <<user, net, sockToSlot>>
    BY <2>1, <2>3, <1>u
  <2> QED BY <1>25, <2>2, <2>3 DEF RestartSlot
<1>26. CASE RestartEnd
  <2>1. \A s \in Slots : s < at /\ user[s].ConnID = NoConn /\ ~user[s].UserLogged
    BY <1>26, NetAssumption DEF RestartEnd, RestartDone, Slots
  <2>2. user' = user /\ DOMAIN sockToSlot' = {} /\ nextConnId' = 1
        /\ \A s \in Slots : net'[s] = NoNet
    BY <1>26 DEF RestartEnd
  <2>3. SockMapOK'
    BY <2>1, <2>2 DEF SockMapOK
  <2>4. FreshIds'
    BY <2>1, <2>2 DEF FreshIds, NoConn
  <2>5. NetReleased'
    BY <2>1, <2>2, <1>n DEF NetReleased
  <2>6. DroppedIsLeaving'
    BY <2>1, <2>2 DEF DroppedIsLeaving
  <2>7. LeavingIsLogged'
    BY <2>2, <1>d DEF LeavingIsLogged
  <2> QED BY <2>3, <2>4, <2>5, <2>6, <2>7 DEF Core
<1>27. CASE UNCHANGED vars
  BY <1>27, <1>u DEF vars
<1> QED
  BY <1>1, <1>2, <1>3, <1>4, <1>5, <1>6, <1>7, <1>8, <1>9, <1>10, <1>11, <1>12, <1>13, <1>14,
     <1>15, <1>16, <1>17, <1>18, <1>19, <1>20, <1>21, <1>22, <1>23, <1>24, <1>25, <1>26, <1>27
  DEF Next, Kernel, Handle, Game

LEMMA RestartDoneStep == IInv /\ [Next]_vars => RestartDone'
<1> SUFFICES ASSUME TypeInv, RestartDone, [Next]_vars, pc' = "restart"
             PROVE  \A s \in Slots : s < at' => user'[s].ConnID = NoConn /\ ~user'[s].UserLogged
  BY DEF IInv, RestartDone
<1>1. CASE RestartStart
  BY <1>1, NetAssumption DEF RestartStart, Slots
<1>2. CASE RestartSlot
  <2>1. at \in Slots /\ at' = at + 1 /\ pc = "restart"
    BY <1>2 DEF RestartSlot
  <2>2. \A s \in Slots : s < at => user[s].ConnID = NoConn /\ ~user[s].UserLogged
    BY <2>1 DEF RestartDone
  <2>3. \A s \in Slots : s < at + 1 => s < at \/ s = at
    BY <2>1, NetAssumption DEF Slots
  <2>4. CASE CloseSocket(at, ready)
    BY <2>1, <2>2, <2>3, <2>4, CloseSocketEffect
  <2>5. CASE ~InUse(at) /\ UNCHANGED user
    BY <2>1, <2>2, <2>3, <2>5 DEF InUse
  <2> QED BY <1>2, <2>4, <2>5 DEF RestartSlot
<1>3. CASE UNCHANGED vars
  BY <1>3 DEF vars, RestartDone
<1>4. CASE Kernel \/ Handle \/ HandlerReturns \/ PollStart \/ PollEnd
  BY <1>4 DEF Kernel, KernelAccepts, KernelReads, KernelWrites, Handle, HandleAcceptRefused,
     HandleAccept, HandleReadIgnored, HandleReadData, HandleReadError, HandleWriteError,
     HandleWriteOk, NextIs, HandlerReturns, PollStart, PollEnd
<1>5. CASE Game
  BY <1>5 DEF Game, Login, ReadPacket, CerrarUsuario, CancelExit, Kick, Send, SendOverflow,
     GameCode
<1>6. CASE TickStart \/ TickSlot \/ TickEnd \/ RestartEnd
  BY <1>6 DEF TickStart, TickSlot, TickEnd, RestartEnd
<1> QED BY <1>1, <1>2, <1>3, <1>4, <1>5, <1>6 DEF Next

LEMMA IInvInvariant == Spec => []IInv
<1>1. Init => IInv
  BY TypeInit, CoreInit DEF IInv
<1>2. IInv /\ [Next]_vars => IInv'
  <2>1. IInv /\ [Next]_vars => TypeInv'
    BY TypeStep DEF IInv
  <2> QED BY <2>1, CoreStep, RestartDoneStep DEF IInv
<1> QED BY <1>1, <1>2, PTL DEF Spec

\* s_sock_to_slot is the inverse of the ConnIDs of the slots in every state, also
\* while WSApiReiniciarSockets closes the slots and starts the numbering again.
THEOREM SockMapCorrect == Spec => []SockMapOK
<1>1. IInv => SockMapOK
  BY DEF IInv, Core
<1> QED BY <1>1, IInvInvariant, PTL

\* No slot without connection holds a socket, an operation or a chunk.
THEOREM NetIsReleased == Spec => []NetReleased
<1>1. IInv => NetReleased
  BY DEF IInv, Core
<1> QED BY <1>1, IInvInvariant, PTL

\* Every character without connection is counting down to its exit.
THEOREM DroppedLeaves == Spec => []DroppedIsLeaving
<1>1. IInv => DroppedIsLeaving
  BY DEF IInv, Core
<1> QED BY <1>1, IInvInvariant, PTL

-------------------------------------------------------------------------------
(* What each step does to the record of a slot *)

\* Every step leaves every record as it was but for one slot, whose record it
\* changes in one of the ways the rest of this module argues about.
Closes(s) == \E rest : CloseSocket(s, rest)

Drops(s) == user[s].UserLogged /\ \E rest : Disconnect(s, rest)

Counts(s) ==
  /\ user'[s].ConnID = user[s].ConnID
  /\ user'[s].UserLogged <=> user[s].UserLogged
  /\ NumUsers' = NumUsers

Enters(s) ==
  /\ user'[s].ConnID = user[s].ConnID /\ user[s].ConnID # NoConn
  /\ ~user[s].UserLogged /\ user'[s].UserLogged /\ ~user'[s].Saliendo
  /\ NumUsers' = NumUsers + 1

Arrives(s) ==
  /\ user[s].ConnID = NoConn /\ user'[s].ConnID # NoConn
  /\ ~user[s].UserLogged /\ ~user'[s].UserLogged
  /\ NumUsers' = NumUsers

OneSlot(s) == Closes(s) \/ Drops(s) \/ Counts(s) \/ Enters(s) \/ Arrives(s)

OneSlotMoves ==
  \/ \E s \in Slots : OneSlot(s) /\ \A t \in Slots \ {s} : user'[t] = user[t]
  \/ user' = user /\ NumUsers' = NumUsers

LEMMA OneSlotStep ==
  ASSUME IInv, [Next]_vars
  PROVE  OneSlotMoves
<1>r. \A s \in Slots : user[s] \in UserRecord
  BY DEF IInv, TypeInv, TypeOK
<1>u. user \in [Slots -> UserRecord] /\ TypeInv
  BY DEF IInv, TypeInv, TypeOK
<1>q. ready # <<>> /\ Head(ready).op # "accept" => Head(ready).slot \in Slots
  BY QueueOps DEF IInv, TypeInv, TypeOK, ReadySlots
<1>c. ASSUME NEW s \in Slots, NEW rest, CloseSocket(s, rest) PROVE OneSlotMoves
  BY <1>c, <1>u, CloseSocketEffect DEF OneSlotMoves, OneSlot, Closes
<1>x. ASSUME NEW s \in Slots, NEW rest, Disconnect(s, rest) PROVE OneSlotMoves
  <2>1. CASE user[s].UserLogged
    BY <1>x, <2>1, <1>u, DisconnectEffect DEF OneSlotMoves, OneSlot, Drops
  <2>2. CASE ~user[s].UserLogged
    BY <1>x, <2>2, <1>c DEF Disconnect
  <2> QED BY <2>1, <2>2
<1>k. ASSUME NEW s \in Slots, NEW r \in UserRecord, user' = [user EXCEPT ![s] = r],
             r.ConnID = user[s].ConnID, r.UserLogged = user[s].UserLogged,
             NumUsers' = NumUsers
      PROVE  OneSlotMoves
  <2>1. user'[s] = r /\ \A t \in Slots \ {s} : user'[t] = user[t]
    BY <1>k, <1>u
  <2>2. Counts(s)
    BY <1>k, <2>1 DEF Counts
  <2> QED BY <2>1, <2>2 DEF OneSlotMoves, OneSlot
<1>n. ASSUME user' = user, NumUsers' = NumUsers PROVE OneSlotMoves
  BY <1>n DEF OneSlotMoves
<1>1. CASE PollStart \/ PollEnd \/ Kernel \/ HandlerReturns
  BY <1>1, <1>n DEF PollStart, PollEnd, Kernel, KernelAccepts, KernelReads, KernelWrites,
     HandlerReturns
<1>2. CASE HandleAcceptRefused \/ HandleReadIgnored \/ HandleWriteOk
  BY <1>2, <1>n DEF HandleAcceptRefused, HandleReadIgnored, HandleWriteOk
<1>3. ASSUME NEW s \in Slots, HandleAccept(s) PROVE OneSlotMoves
  <2> DEFINE r == Connected(user[s], nextConnId)
  <2>1. nextConnId # NoConn /\ user[s].ConnID = NoConn /\ ~user[s].UserLogged
    BY <1>3 DEF HandleAccept, NextOpenUser, IsOpen, IInv, TypeInv, TypeOK, NoConn
  <2>2. r.ConnID = nextConnId /\ r.UserLogged = user[s].UserLogged
    BY <1>r DEF Connected, UserRecord
  <2>3. user' = [user EXCEPT ![s] = r] /\ NumUsers' = NumUsers
    BY <1>3 DEF HandleAccept
  <2> HIDE DEF r
  <2>4. user'[s] = r /\ \A t \in Slots \ {s} : user'[t] = user[t]
    BY <2>3, <1>u
  <2>5. Arrives(s)
    BY <2>1, <2>2, <2>3, <2>4 DEF Arrives
  <2> QED BY <2>4, <2>5 DEF OneSlotMoves, OneSlot
<1>4. CASE HandleReadData
  <2> DEFINE h == Head(ready).slot
             r == [user[h] EXCEPT !.incomingData = @ \union {Head(ready).conn}]
  <2>1. h \in Slots /\ Head(ready).conn \in Nat
    BY <1>4, <1>q, QueueOps
       DEF HandleReadData, NextIs, IInv, TypeInv, TypeOK, ReadySlots, Completion
  <2>2. r \in UserRecord /\ r.ConnID = user[h].ConnID /\ r.UserLogged = user[h].UserLogged
    BY <2>1, <1>r DEF UserRecord
  <2>3. user' = [user EXCEPT ![h] = r] /\ NumUsers' = NumUsers
    BY <1>4 DEF HandleReadData
  <2> HIDE DEF h, r
  <2> QED BY <2>1, <2>2, <2>3, <1>k
<1>5. CASE HandleReadError \/ HandleWriteError
  BY <1>5, <1>q, <1>x DEF HandleReadError, HandleWriteError, NextIs
<1>6. CASE Login
  <2> DEFINE r == [user[at] EXCEPT !.UserLogged = TRUE]
  <2>1. at \in Slots /\ user[at].ConnIDValida /\ ~user[at].UserLogged
        /\ user' = [user EXCEPT ![at] = r] /\ NumUsers' = NumUsers + 1
    BY <1>6 DEF Login, IInv, TypeInv, HandlerSlot
  <2>2. r.ConnID = user[at].ConnID /\ r.UserLogged /\ r.Saliendo = user[at].Saliendo
    BY <2>1, <1>r DEF UserRecord
  <2>3. user[at].ConnID # NoConn /\ ~user[at].Saliendo
    BY <2>1 DEF IInv, Core, NetReleased, LeavingIsLogged
  <2> HIDE DEF r
  <2>4. user'[at] = r /\ \A t \in Slots \ {at} : user'[t] = user[t]
    BY <2>1, <1>u
  <2>5. Enters(at)
    BY <2>1, <2>2, <2>3, <2>4 DEF Enters
  <2> QED BY <2>1, <2>4, <2>5 DEF OneSlotMoves, OneSlot
<1>7. CASE ReadPacket
  <2> DEFINE r == [user[at] EXCEPT !.incomingData = {}]
  <2>1. at \in Slots /\ user' = [user EXCEPT ![at] = r] /\ NumUsers' = NumUsers
    BY <1>7 DEF ReadPacket, IInv, TypeInv, HandlerSlot
  <2>2. r \in UserRecord /\ r.ConnID = user[at].ConnID /\ r.UserLogged = user[at].UserLogged
    BY <2>1, <1>r DEF UserRecord
  <2> HIDE DEF r
  <2> QED BY <2>1, <2>2, <1>k
<1>8. ASSUME NEW s \in Slots, CerrarUsuario(s) PROVE OneSlotMoves
  <2>1. PICK pk \in BOOLEAN : user' = [user EXCEPT ![s] = Leaving(@, pk)]
    BY <1>8 DEF CerrarUsuario
  <2>2. Leaving(user[s], pk) \in UserRecord
    BY <1>r, RecordOps
  <2>3. SameLink(Leaving(user[s], pk), user[s]) /\ NumUsers' = NumUsers
    BY <1>8, <1>r, CountdownOps DEF CerrarUsuario
  <2> QED BY <2>1, <2>2, <2>3, <1>k DEF SameLink
<1>9. ASSUME NEW s \in Slots, CancelExit(s) PROVE OneSlotMoves
  <2>1. TRUE \in BOOLEAN /\ NumUsers' = NumUsers
    BY <1>9 DEF CancelExit
  <2>2. /\ Staying(user[s]) \in UserRecord
        /\ \A pk \in BOOLEAN : Postponed(user[s], pk) \in UserRecord
    BY <2>1, <1>r, RecordOps
  <2>3. \/ user' = [user EXCEPT ![s] = Staying(@)]
        \/ \E pk \in BOOLEAN : user' = [user EXCEPT ![s] = Postponed(@, pk)]
    BY <1>9 DEF CancelExit
  <2> QED BY <2>1, <2>2, <2>3, <1>r, <1>k, CountdownOps DEF SameLink
<1>10. ASSUME NEW s \in Slots, Kick(s) PROVE OneSlotMoves
  BY <1>10, <1>c DEF Kick
<1>11. ASSUME NEW s \in Slots, Send(s) PROVE OneSlotMoves
  BY <1>11, <1>n DEF Send
<1>12. ASSUME NEW s \in Slots, SendOverflow(s) PROVE OneSlotMoves
  BY <1>12, <1>x DEF SendOverflow
<1>13. CASE TickStart \/ TickEnd \/ RestartStart \/ RestartEnd \/ UNCHANGED vars
  BY <1>13, <1>n DEF TickStart, TickEnd, RestartStart, RestartEnd, vars
<1>14. CASE TickSlot
  <2>1. at \in Slots
    BY <1>14 DEF TickSlot
  <2>2. CASE CloseSocket(at, ready)
    BY <2>1, <2>2, <1>c
  <2>3. CASE /\ ~Expires(user[at]) /\ user' = [user EXCEPT ![at] = Counted(@)]
             /\ NumUsers' = NumUsers
    <3>1. Counted(user[at]) \in UserRecord
      BY <2>1, <2>3, <1>r, RecordOps, TRUE \in BOOLEAN
    <3>2. SameLink(Counted(user[at]), user[at])
      BY <2>1, <1>r, CountdownOps
    <3> QED BY <2>1, <2>3, <3>1, <3>2, <1>k DEF SameLink
  <2>4. CASE UNCHANGED <<user, NumUsers>>
    BY <2>4, <1>n
  <2> QED BY <1>14, <2>2, <2>3, <2>4 DEF TickSlot
<1>15. CASE RestartSlot
  <2>1. at \in Slots
    BY <1>15 DEF RestartSlot
  <2>2. CASE CloseSocket(at, ready)
    BY <2>1, <2>2, <1>c
  <2>3. CASE UNCHANGED <<user, NumUsers>>
    BY <2>3, <1>n
  <2> QED BY <1>15, <2>2, <2>3 DEF RestartSlot
<1> QED
  BY <1>1, <1>2, <1>3, <1>4, <1>5, <1>6, <1>7, <1>8, <1>9, <1>10, <1>11, <1>12, <1>13, <1>14,
     <1>15 DEF Next, Handle, Game

-------------------------------------------------------------------------------
(* NumUsers *)

Logged == {s \in Slots : user[s].UserLogged}

LEMMA LoggedFinite == IsFiniteSet(Logged) /\ Cardinality(Logged) \in Nat
<1>1. IsFiniteSet(Slots)
  BY FS_Interval, NetAssumption DEF Slots
<1>2. IsFiniteSet(Logged)
  BY <1>1, FS_Subset DEF Logged
<1> QED BY <1>2, FS_CardinalityType

LEMMA NumUsersStep == IInv /\ NumUsersExact /\ [Next]_vars => NumUsersExact'
<1> SUFFICES ASSUME IInv, NumUsers = Cardinality(Logged), [Next]_vars
             PROVE  NumUsers' = Cardinality(Logged')
  BY DEF NumUsersExact, Logged
<1>1. CASE user' = user /\ NumUsers' = NumUsers
  BY <1>1 DEF Logged
<1>2. ASSUME NEW s \in Slots, OneSlot(s), \A t \in Slots \ {s} : user'[t] = user[t]
      PROVE  NumUsers' = Cardinality(Logged')
  <2>1. CASE Closes(s)
    <3>1. PICK rest : CloseSocket(s, rest)
      BY <2>1 DEF Closes
    <3>2. ~user'[s].UserLogged
      BY <3>1, CloseSocketEffect DEF IInv
    <3>3. Logged' = Logged \ {s}
      BY <1>2, <3>2 DEF Logged
    <3>4. CASE user[s].UserLogged
      <4>1. s \in Logged
        BY <3>4 DEF Logged
      <4>2. Cardinality(Logged') = Cardinality(Logged) - 1
        BY <3>3, <4>1, LoggedFinite, FS_RemoveElement
      <4>3. Cardinality(Logged) > 0
        BY <4>1, LoggedFinite, FS_EmptySet
      <4>4. NumUsers' = NumUsers - 1
        BY <3>1, <3>4, <4>3 DEF CloseSocket, NumUsersAfter
      <4> QED BY <4>2, <4>4
    <3>5. CASE ~user[s].UserLogged
      <4>1. Logged' = Logged
        BY <3>3, <3>5 DEF Logged
      <4>2. NumUsers' = NumUsers
        BY <3>1, <3>5 DEF CloseSocket, NumUsersAfter
      <4> QED BY <4>1, <4>2
    <3> QED BY <3>4, <3>5
  <2>2. CASE Drops(s)
    <3>1. PICK rest : Disconnect(s, rest)
      BY <2>2 DEF Drops
    <3>2. user'[s].UserLogged /\ user[s].UserLogged /\ NumUsers' = NumUsers
      BY <2>2, <3>1, DisconnectEffect DEF IInv, Drops, Disconnect
    <3>3. Logged' = Logged
      BY <1>2, <3>2 DEF Logged
    <3> QED BY <3>2, <3>3
  <2>3. CASE Counts(s)
    <3>1. Logged' = Logged
      BY <1>2, <2>3 DEF Logged, Counts
    <3> QED BY <2>3, <3>1 DEF Counts
  <2>4. CASE Enters(s)
    <3>1. Logged' = Logged \union {s} /\ s \notin Logged
      BY <1>2, <2>4 DEF Logged, Enters
    <3> QED BY <2>4, <3>1, LoggedFinite, FS_AddElement DEF Enters
  <2>5. CASE Arrives(s)
    <3>1. Logged' = Logged
      BY <1>2, <2>5 DEF Logged, Arrives
    <3> QED BY <2>5, <3>1 DEF Arrives
  <2> QED BY <1>2, <2>1, <2>2, <2>3, <2>4, <2>5 DEF OneSlot
<1> QED BY <1>1, <1>2, OneSlotStep DEF OneSlotMoves

\* NumUsers is the number of characters in the game.
THEOREM NumUsersCorrect == Spec => []NumUsersExact
<1>1. Init => NumUsersExact
  <2> SUFFICES ASSUME Init PROVE NumUsersExact
    OBVIOUS
  <2>1. {s \in Slots : user[s].UserLogged} = {}
    BY DEF Init, FreshSlot
  <2> QED BY <2>1, FS_EmptySet DEF NumUsersExact, Init
<1> QED BY <1>1, NumUsersStep, IInvInvariant, PTL DEF Spec

\* When WSApiReiniciarSockets is done every slot is free and nobody is online.
THEOREM RestartFrees == Spec => RestartFreesAll
<1>1. IInv /\ NumUsersExact /\ [Next]_vars =>
        [pc = "restart" /\ pc' = "idle"
           => NumUsers' = 0 /\ \A s \in Slots : user'[s].ConnID = NoConn /\ ~user'[s].UserLogged]_vars
  <2> SUFFICES ASSUME IInv, NumUsersExact, [Next]_vars, pc = "restart", pc' = "idle"
               PROVE  /\ NumUsers' = 0
                      /\ \A s \in Slots : user'[s].ConnID = NoConn /\ ~user'[s].UserLogged
    OBVIOUS
  <2>1. RestartEnd
    <3>1. ~(Kernel \/ Handle \/ HandlerReturns \/ PollStart \/ PollEnd)
      BY DEF Kernel, KernelAccepts, KernelReads, KernelWrites, Handle, HandleAcceptRefused,
         HandleAccept, HandleReadIgnored, HandleReadData, HandleReadError, HandleWriteError,
         HandleWriteOk, NextIs, HandlerReturns, PollStart, PollEnd
    <3>2. ~Game
      BY DEF Game, Login, ReadPacket, CerrarUsuario, CancelExit, Kick, Send, SendOverflow,
         GameCode
    <3>3. ~(TickStart \/ TickSlot \/ TickEnd \/ RestartStart \/ RestartSlot \/ UNCHANGED vars)
      BY DEF TickStart, TickSlot, TickEnd, RestartStart, RestartSlot, vars
    <3> QED BY <3>1, <3>2, <3>3 DEF Next
  <2>2. \A s \in Slots : user[s].ConnID = NoConn /\ ~user[s].UserLogged
    BY <2>1, NetAssumption DEF RestartEnd, IInv, RestartDone, Slots
  <2>3. Logged = {} /\ NumUsers = Cardinality(Logged)
    BY <2>2 DEF Logged, NumUsersExact
  <2>4. NumUsers = 0
    BY <2>3, FS_EmptySet
  <2> QED BY <2>1, <2>2, <2>4 DEF RestartEnd
<1> QED BY <1>1, IInvInvariant, NumUsersCorrect, PTL DEF Spec, RestartFreesAll

-------------------------------------------------------------------------------
(* Slots live as SlotLife says *)

\* A step that moves one slot from a phase to another along SlotLife is a step of it.
Moves ==
  {<<"free", "connected">>, <<"connected", "playing">>, <<"playing", "leaving">>,
   <<"leaving", "playing">>, <<"playing", "limbo">>, <<"leaving", "limbo">>,
   <<"connected", "free">>, <<"playing", "free">>, <<"leaving", "free">>, <<"limbo", "free">>}

LEMMA LifeStep ==
  ASSUME NEW s \in Slots, \A t \in Slots \ {s} : user'[t] = user[t],
         \/ Phase(user'[s]) = Phase(user[s])
         \/ <<Phase(user[s]), Phase(user'[s])>> \in Moves
  PROVE  [Life!Next]_(Life!vars)
<1> DEFINE ph == [t \in Slots |-> Phase(user[t])]
           to == Phase(user'[s])
<1>1. [t \in Slots |-> Phase(user[t])]' = [ph EXCEPT ![s] = to]
  OBVIOUS
<1>2. ph[s] = Phase(user[s])
  OBVIOUS
<1>3. CASE to = ph[s]
  BY <1>1, <1>3 DEF Life!vars
<1>4. CASE <<ph[s], to>> \in Moves
  <2> HIDE DEF ph, to
  <2>1. \/ ph[s] = "free" /\ to = "connected"
        \/ ph[s] = "connected" /\ to = "playing"
        \/ ph[s] = "playing" /\ to = "leaving"
        \/ ph[s] = "leaving" /\ to = "playing"
        \/ ph[s] \in {"playing", "leaving"} /\ to = "limbo"
        \/ ph[s] \in {"connected", "playing", "leaving", "limbo"} /\ to = "free"
    BY <1>4 DEF Moves
  <2> QED BY <1>1, <2>1 DEF ph, Life!Next, Life!Goes, Life!Accept, Life!Login, Life!AskToLeave,
             Life!StayAfterAll, Life!LoseConnection, Life!Free
<1> QED BY <1>2, <1>3, <1>4

LEMMA LifeNext ==
  ASSUME IInv, [Next]_vars
  PROVE  [Life!Next]_(Life!vars)
<1>1. CASE user' = user
  BY <1>1 DEF Life!vars
<1>2. ASSUME NEW s \in Slots, OneSlot(s), \A t \in Slots \ {s} : user'[t] = user[t]
      PROVE  [Life!Next]_(Life!vars)
  <2>1. CASE Closes(s)
    <3>1. user'[s].ConnID = NoConn /\ ~user'[s].UserLogged
      BY <2>1, CloseSocketEffect DEF IInv, Closes
    <3> QED BY <1>2, <3>1, LifeStep DEF Phase, Moves
  <2>2. CASE Drops(s)
    <3>1. user[s].UserLogged /\ user'[s].ConnID = NoConn /\ user'[s].UserLogged
      BY <2>2, DisconnectEffect DEF IInv, Drops
    <3> QED BY <1>2, <3>1, LifeStep DEF Phase, Moves
  <2>3. CASE Counts(s)
    BY <1>2, <2>3, LifeStep DEF Counts, Phase, Moves
  <2>4. CASE Enters(s)
    BY <1>2, <2>4, LifeStep DEF Enters, Phase, Moves
  <2>5. CASE Arrives(s)
    BY <1>2, <2>5, LifeStep DEF Arrives, Phase, Moves
  <2> QED BY <1>2, <2>1, <2>2, <2>3, <2>4, <2>5 DEF OneSlot
<1> QED BY <1>1, <1>2, OneSlotStep DEF OneSlotMoves

\* Net implements SlotLife: whatever completions, timers and commands do to a slot
\* and in any order, a character that lost its connection keeps its slot until it
\* is freed, and only a connection that is not playing logs in.
THEOREM NetImplementsSlotLife == Spec => ImplementsSlotLife
<1>1. Init => Life!Init
  BY DEF Init, Life!Init, FreshSlot, Phase
<1>2. IInv /\ [Next]_vars => [Life!Next]_(Life!vars)
  BY LifeNext
<1> QED BY <1>1, <1>2, IInvInvariant, PTL DEF Spec, ImplementsSlotLife, Life!Spec

-------------------------------------------------------------------------------
(* The outgoing queues *)

\* A completion of a write of connection conn, which was of slot s, is in q.
Waiting(q, s, conn) ==
  \E i \in 1..Len(q) : q[i].op = "write" /\ q[i].slot = s /\ q[i].conn = conn

\* The record of slot s: chunks are queued only on a socket and while it is writing,
\* with a write in progress or its completion in q; and it is writing only then.
\* (A Send that finds is_writing set starts no write, so NoStall alone is not kept.)
FlowAt(n, q, s) ==
  IF n.queue > 0
  THEN n.is_writing /\ n.socket # NoSocket /\ (n.writes > 0 \/ Waiting(q, s, n.socket))
  ELSE ~n.is_writing

Flow == \A s \in Slots : FlowAt(net[s], ready, s)

\* A completion stays in the queue until it is handled, whatever is added.
LEMMA WaitingOps ==
  ASSUME NEW q \in Seq(Completion), NEW s, NEW conn, Waiting(q, s, conn)
  PROVE  /\ \A c : Waiting(Append(q, c), s, conn)
         /\ \A r \in Seq(Completion) : Waiting(q \o r, s, conn)
         /\ q # <<>> /\ ~(Head(q).op = "write" /\ Head(q).slot = s) => Waiting(Tail(q), s, conn)
<1>1. PICK i \in 1..Len(q) : q[i].op = "write" /\ q[i].slot = s /\ q[i].conn = conn
  BY DEF Waiting
<1>2. ASSUME NEW c PROVE Waiting(Append(q, c), s, conn)
  <2>1. i \in 1..Len(Append(q, c)) /\ Append(q, c)[i] = q[i]
    BY <1>1
  <2> QED BY <1>1, <2>1 DEF Waiting
<1>3. ASSUME NEW r \in Seq(Completion) PROVE Waiting(q \o r, s, conn)
  <2>1. i \in 1..Len(q \o r) /\ (q \o r)[i] = q[i]
    BY <1>1
  <2> QED BY <1>1, <2>1 DEF Waiting
<1>4. ASSUME q # <<>>, ~(Head(q).op = "write" /\ Head(q).slot = s) PROVE Waiting(Tail(q), s, conn)
  <2>1. i # 1
    BY <1>1, <1>4
  <2>2. i - 1 \in 1..Len(Tail(q)) /\ Tail(q)[i - 1] = q[i]
    BY <1>1, <1>4, <2>1
  <2> QED BY <1>1, <2>2 DEF Waiting
<1> QED BY <1>2, <1>3, <1>4

LEMMA WaitingNew ==
  ASSUME NEW q \in Seq(Completion), NEW c \in Completion, c.op = "write"
  PROVE  Waiting(Append(q, c), c.slot, c.conn)
<1>1. Len(q) + 1 \in 1..Len(Append(q, c)) /\ Append(q, c)[Len(q) + 1] = c
  OBVIOUS
<1> QED BY <1>1 DEF Waiting

\* Nothing of the network is in order whatever is queued.
LEMMA NoNetFlows == \A q, s : FlowAt(NoNet, q, s)
BY DEF FlowAt, NoNet

\* What the steps do to the records of the network, as fields.
LEMMA NetFields ==
  ASSUME NEW r \in NetRecord
  PROVE  /\ \A n \in Nat : /\ [r EXCEPT !.reads = n].queue = r.queue
                           /\ [r EXCEPT !.reads = n].writes = r.writes
                           /\ [r EXCEPT !.reads = n].socket = r.socket
                           /\ [r EXCEPT !.reads = n].is_writing = r.is_writing
         /\ \A n \in Nat : /\ [r EXCEPT !.writes = n].queue = r.queue
                           /\ [r EXCEPT !.writes = n].writes = n
                           /\ [r EXCEPT !.writes = n].socket = r.socket
                           /\ [r EXCEPT !.writes = n].is_writing = r.is_writing
         /\ \A conn : Attached(r, conn).queue = 0 /\ ~Attached(r, conn).is_writing
         /\ \A start \in BOOLEAN : /\ Queued(r, start).queue = r.queue + 1
                                   /\ Queued(r, start).is_writing
                                   /\ Queued(r, start).socket = r.socket
                                   /\ Queued(r, start).writes = IF start THEN r.writes + 1 ELSE r.writes
         /\ Written(r).queue = Popped(r) /\ Written(r).socket = r.socket
         /\ Written(r).is_writing = (Popped(r) > 0 /\ r.socket # NoSocket /\ r.is_writing)
         /\ Written(r).writes = IF Popped(r) > 0 /\ r.socket # NoSocket THEN r.writes + 1 ELSE r.writes
<1>1. \A n \in Nat : /\ [r EXCEPT !.reads = n].queue = r.queue
                     /\ [r EXCEPT !.reads = n].writes = r.writes
                     /\ [r EXCEPT !.reads = n].socket = r.socket
                     /\ [r EXCEPT !.reads = n].is_writing = r.is_writing
  BY DEF NetRecord
<1>2. \A n \in Nat : /\ [r EXCEPT !.writes = n].queue = r.queue
                     /\ [r EXCEPT !.writes = n].writes = n
                     /\ [r EXCEPT !.writes = n].socket = r.socket
                     /\ [r EXCEPT !.writes = n].is_writing = r.is_writing
  BY DEF NetRecord
<1>3. \A conn : Attached(r, conn).queue = 0 /\ ~Attached(r, conn).is_writing
  BY DEF NetRecord, Attached
<1>4. \A start \in BOOLEAN : /\ Queued(r, start).queue = r.queue + 1
                             /\ Queued(r, start).is_writing
                             /\ Queued(r, start).socket = r.socket
                             /\ Queued(r, start).writes = IF start THEN r.writes + 1 ELSE r.writes
  BY DEF NetRecord, Queued
<1>5. /\ Written(r).queue = Popped(r) /\ Written(r).socket = r.socket
      /\ Written(r).is_writing = (Popped(r) > 0 /\ r.socket # NoSocket /\ r.is_writing)
      /\ Written(r).writes = IF Popped(r) > 0 /\ r.socket # NoSocket THEN r.writes + 1 ELSE r.writes
  BY DEF NetRecord, Written
<1> QED BY <1>1, <1>2, <1>3, <1>4, <1>5

\* A slot whose record is unchanged, or reset, stays in order while completions are
\* added or one that is not of a write of it is handled.
LEMMA FlowKeeps ==
  ASSUME TypeOK, Flow, NEW s \in Slots, NEW n \in NetRecord, NEW q,
         \/ q = ready
         \/ \E c : q = Append(ready, c)
         \/ \E r \in Seq(Completion) : q = ready \o r
         \/ /\ ready # <<>> /\ ~(Head(ready).op = "write" /\ Head(ready).slot = s)
            /\ q = Tail(ready) \/ \E r \in Seq(Completion) : q = Tail(ready) \o r,
         n.queue = net[s].queue, n.is_writing = net[s].is_writing, n.socket = net[s].socket,
         n.writes = net[s].writes
  PROVE  FlowAt(n, q, s)
<1>1. FlowAt(net[s], ready, s) /\ ready \in Seq(Completion)
  BY DEF Flow, TypeOK
<1>2. ASSUME Waiting(ready, s, n.socket) PROVE Waiting(q, s, n.socket)
  <2>1. \/ q = ready
        \/ \E c : q = Append(ready, c)
        \/ \E r \in Seq(Completion) : q = ready \o r
        \/ /\ ready # <<>> /\ ~(Head(ready).op = "write" /\ Head(ready).slot = s)
           /\ q = Tail(ready)
        \/ /\ ready # <<>> /\ ~(Head(ready).op = "write" /\ Head(ready).slot = s)
           /\ \E r \in Seq(Completion) : q = Tail(ready) \o r
    OBVIOUS
  <2>2. CASE q = ready
    BY <1>2, <2>2
  <2>3. CASE \E c : q = Append(ready, c)
    BY <1>1, <1>2, <2>3, WaitingOps
  <2>4. CASE \E r \in Seq(Completion) : q = ready \o r
    BY <1>1, <1>2, <2>4, WaitingOps
  <2>5. CASE ready # <<>> /\ ~(Head(ready).op = "write" /\ Head(ready).slot = s)
    <3>1. Waiting(Tail(ready), s, n.socket) /\ Tail(ready) \in Seq(Completion)
      BY <1>1, <1>2, <2>5, WaitingOps
    <3>2. \A r \in Seq(Completion) : Waiting(Tail(ready) \o r, s, n.socket)
      BY <3>1, WaitingOps
    <3> QED BY <2>1, <2>2, <2>3, <2>4, <3>1, <3>2
  <2> QED BY <2>1, <2>2, <2>3, <2>4, <2>5
<1> QED BY <1>1, <1>2 DEF FlowAt

LEMMA FlowStep == IInv /\ Flow /\ [Next]_vars => Flow'
<1> SUFFICES ASSUME IInv, Flow, [Next]_vars PROVE Flow'
  OBVIOUS
<1> USE DEF TypeInv
<1>1. /\ TypeOK /\ net \in [Slots -> NetRecord] /\ ready \in Seq(Completion)
      /\ ready # <<>> => Tail(ready) \in Seq(Completion) /\ Head(ready) \in Completion
      /\ ready # <<>> /\ Head(ready).op # "accept" => Head(ready).slot \in Slots
      /\ \A s \in Slots : s \in Nat
  BY QueueOps DEF IInv, TypeOK, ReadySlots, Slots
\* A step that touches the record of slot s only, seen from every slot.
<1>2. ASSUME NEW s \in Slots, NEW n, net' = [net EXCEPT ![s] = n],
             FlowAt(n, ready', s),
             \/ ready' = ready
             \/ \E c : ready' = Append(ready, c)
             \/ \E r \in Seq(Completion) : ready' = ready \o r
             \/ /\ ready # <<>> /\ (Head(ready).op = "write" => Head(ready).slot = s)
                /\ ready' = Tail(ready) \/ \E r \in Seq(Completion) : ready' = Tail(ready) \o r
      PROVE  Flow'
  <2>1. ASSUME NEW t \in Slots PROVE FlowAt(net'[t], ready', t)
    <3>1. CASE t = s
      BY <1>1, <1>2, <3>1
    <3>2. CASE t # s
      <4>1. net'[t] = net[t] /\ net[t] \in NetRecord
        BY <1>1, <1>2, <3>2
      <4>2. FlowAt(net[t], ready', t)
        BY <1>1, <1>2, <3>2, <4>1, FlowKeeps
      <4> QED BY <4>1, <4>2
    <3> QED BY <3>1, <3>2
  <2> QED BY <2>1 DEF Flow
\* A step that touches no record.
<1>3. ASSUME net' = net,
             \/ ready' = ready
             \/ \E c : ready' = Append(ready, c)
             \/ ready # <<>> /\ Head(ready).op # "write" /\ ready' = Tail(ready)
      PROVE  Flow'
  <2>1. ASSUME NEW t \in Slots PROVE FlowAt(net[t], ready', t)
    <3>1. net[t] \in NetRecord
      BY <1>1
    <3> QED BY <1>1, <1>3, <3>1, FlowKeeps
  <2> QED BY <1>3, <2>1 DEF Flow
<1>4. ASSUME NEW s \in Slots, NEW rest, CloseSocket(s, rest) \/ Disconnect(s, rest),
             \/ rest = ready
             \/ /\ ready # <<>> /\ (Head(ready).op = "write" => Head(ready).slot = s)
                /\ rest = Tail(ready)
      PROVE  Flow'
  <2>1. net' = [net EXCEPT ![s] = NoNet] /\ ready' = rest \o Aborted(s)
    BY <1>4 DEF CloseSocket, Disconnect, ClosedNet
  <2>2. Aborted(s) \in Seq(Completion)
    BY <1>1, AbortedType
  <2>3. FlowAt(NoNet, ready', s)
    BY NoNetFlows
  <2> HIDE DEF IInv
  <2> QED BY <1>2, <1>4, <2>1, <2>2, <2>3
<1>5. CASE PollStart \/ PollEnd \/ Login \/ ReadPacket \/ TickStart \/ TickEnd \/ RestartStart \/ UNCHANGED vars
  BY <1>3, <1>5 DEF PollStart, PollEnd, Login, ReadPacket, TickStart, TickEnd, RestartStart, vars
<1>6. ASSUME NEW s \in Slots, CerrarUsuario(s) \/ CancelExit(s) PROVE Flow'
  BY <1>3, <1>6 DEF CerrarUsuario, CancelExit
<1>7. CASE KernelAccepts
  BY <1>3, <1>7 DEF KernelAccepts
<1>8. ASSUME NEW s \in Slots, KernelReads(s) PROVE Flow'
  <2> DEFINE n == [net[s] EXCEPT !.reads = net[s].reads - 1]
  <2>1. net' = [net EXCEPT ![s] = n] /\ \E c : ready' = Append(ready, c)
    BY <1>8 DEF KernelReads
  <2>2. net[s] \in NetRecord /\ net[s].reads - 1 \in Nat
    BY <1>1, <1>8 DEF KernelReads, NetRecord
  <2>3. /\ n \in NetRecord /\ n.queue = net[s].queue /\ n.is_writing = net[s].is_writing
        /\ n.socket = net[s].socket /\ n.writes = net[s].writes
    <3>1. n \in NetRecord
      BY <2>2, NetOps
    <3>2. /\ n.queue = net[s].queue /\ n.is_writing = net[s].is_writing
          /\ n.socket = net[s].socket /\ n.writes = net[s].writes
      BY <2>2, NetFields
    <3> QED BY <3>1, <3>2
  <2> HIDE DEF n
  <2>4. FlowAt(n, ready', s)
    BY <1>1, <2>1, <2>3, FlowKeeps
  <2> QED BY <1>2, <2>1, <2>4
<1>9. ASSUME NEW s \in Slots, KernelWrites(s) PROVE Flow'
  <2> DEFINE n == [net[s] EXCEPT !.writes = net[s].writes - 1]
  <2>1. PICK ok \in BOOLEAN :
          ready' = Append(ready, [op |-> "write", slot |-> s, conn |-> net[s].socket, ok |-> ok])
    BY <1>9 DEF KernelWrites
  <2> DEFINE c == [op |-> "write", slot |-> s, conn |-> net[s].socket, ok |-> ok]
  <2>2. net[s] \in NetRecord /\ net[s].writes - 1 \in Nat
    BY <1>1, <1>9 DEF KernelWrites, NetRecord
  <2>3. c \in Completion /\ c.op = "write" /\ c.slot = s /\ c.conn = net[s].socket
    BY <1>1, <2>2 DEF Completion, NetRecord
  <2>4. /\ n.queue = net[s].queue /\ n.is_writing = net[s].is_writing
        /\ n.socket = net[s].socket
    BY <2>2, NetFields
  <2>5. net' = [net EXCEPT ![s] = n] /\ ready' = Append(ready, c)
    BY <1>9, <2>1 DEF KernelWrites
  <2> HIDE DEF c, n
  <2>6. Waiting(ready', s, n.socket)
    BY <1>1, <2>3, <2>4, <2>5, WaitingNew
  <2>7. FlowAt(net[s], ready, s)
    BY DEF Flow
  <2>8. FlowAt(n, ready', s)
    BY <2>4, <2>6, <2>7 DEF FlowAt
  <2> QED BY <1>2, <2>5, <2>8
<1>10. CASE HandleAcceptRefused \/ HandleReadIgnored \/ HandleReadData
  BY <1>3, <1>10 DEF HandleAcceptRefused, HandleReadIgnored, HandleReadData, NextIs
<1>11. ASSUME NEW s \in Slots, HandleAccept(s) PROVE Flow'
  <2> DEFINE n == Attached(net[s], Head(ready).conn)
  <2>1. /\ net' = [net EXCEPT ![s] = n] /\ ready' = Tail(ready)
        /\ ready # <<>> /\ Head(ready).op # "write"
    BY <1>11 DEF HandleAccept, NextIs
  <2>2. n.queue = 0 /\ ~n.is_writing
    BY <1>1, NetFields
  <2> HIDE DEF n
  <2>3. FlowAt(n, ready', s)
    BY <2>2 DEF FlowAt
  <2> QED BY <1>2, <2>1, <2>3
<1>12. CASE HandlerReturns
  <2> DEFINE m == IF net[at].socket = NoSocket THEN net[at].reads ELSE net[at].reads + 1
             n == [net[at] EXCEPT !.reads = m]
  <2>1. at \in Slots /\ net[at] \in NetRecord
    BY <1>1, <1>12 DEF HandlerReturns, HandlerSlot, IInv
  <2>2. net' = [net EXCEPT ![at] = n] /\ ready' = ready
    BY <1>12 DEF HandlerReturns
  <2>3. m \in Nat
    BY <2>1 DEF NetRecord
  <2> HIDE DEF m
  <2>4. /\ n \in NetRecord /\ n.queue = net[at].queue /\ n.is_writing = net[at].is_writing
        /\ n.socket = net[at].socket /\ n.writes = net[at].writes
    <3>1. n \in NetRecord
      BY <2>1, <2>3, NetOps
    <3>2. /\ n.queue = net[at].queue /\ n.is_writing = net[at].is_writing
          /\ n.socket = net[at].socket /\ n.writes = net[at].writes
      BY <2>1, <2>3, NetFields
    <3> QED BY <3>1, <3>2
  <2> HIDE DEF n
  <2>5. FlowAt(n, ready', at)
    BY <1>1, <2>1, <2>2, <2>4, FlowKeeps
  <2> QED BY <1>2, <2>1, <2>2, <2>5
<1>13. CASE HandleReadError \/ HandleWriteError
  <2>1. /\ Disconnect(Head(ready).slot, Tail(ready)) /\ ready # <<>>
        /\ Head(ready).slot \in Slots
    BY <1>1, <1>13 DEF HandleReadError, HandleWriteError, NextIs
  <2> QED BY <1>4, <2>1
<1>14. CASE HandleWriteOk
  <2> DEFINE s == Head(ready).slot
             n == Written(net[s])
  <2>1. /\ net' = [net EXCEPT ![s] = n] /\ ready' = Tail(ready) /\ ready # <<>>
        /\ s \in Slots /\ net[s] \in NetRecord
    BY <1>1, <1>14 DEF HandleWriteOk, NextIs
  <2> HIDE DEF s
  <2>2. /\ n.queue = Popped(net[s]) /\ n.socket = net[s].socket
        /\ n.is_writing = (Popped(net[s]) > 0 /\ net[s].socket # NoSocket /\ net[s].is_writing)
        /\ n.writes = IF Popped(net[s]) > 0 /\ net[s].socket # NoSocket THEN net[s].writes + 1 ELSE net[s].writes
    BY <2>1, NetFields
  <2>3. Popped(net[s]) > 0 => net[s].queue > 0 /\ net[s].writes + 1 > 0
    BY <2>1 DEF Popped, NetRecord
  <2>4. FlowAt(net[s], ready, s)
    BY <2>1 DEF Flow
  <2> HIDE DEF n
  <2>5. CASE Popped(net[s]) > 0
    <3>1. net[s].is_writing /\ net[s].socket # NoSocket
      BY <2>3, <2>4, <2>5 DEF FlowAt
    <3> QED BY <1>2, <2>1, <2>2, <2>3, <2>5, <3>1 DEF FlowAt, s
  <2>6. CASE ~(Popped(net[s]) > 0)
    <3>1. FlowAt(n, ready', s)
      BY <2>2, <2>6 DEF FlowAt
    <3> QED BY <1>2, <2>1, <3>1 DEF s
  <2> QED BY <2>5, <2>6
<1>15. ASSUME NEW s \in Slots, Kick(s) \/ SendOverflow(s) PROVE Flow'
  BY <1>4, <1>15 DEF Kick, SendOverflow
<1>16. ASSUME NEW s \in Slots, Send(s) PROVE Flow'
  <2>1. PICK immediate \in IF net[s].is_writing THEN {FALSE} ELSE BOOLEAN :
       /\ net' = [net EXCEPT ![s] = Queued(@, ~net[s].is_writing /\ ~immediate)]
       /\ ready' = IF immediate
                   THEN Append(ready, [op |-> "write", slot |-> s,
                                       conn |-> net[s].socket, ok |-> TRUE])
                   ELSE ready
    BY <1>16 DEF Send
  <2> DEFINE start == (~net[s].is_writing) /\ ~immediate
             n == Queued(net[s], start)
             c == [op |-> "write", slot |-> s, conn |-> net[s].socket, ok |-> TRUE]
  <2>2. net[s] \in NetRecord /\ net[s].socket # NoSocket
    BY <1>1, <1>16 DEF Send, CanSend
  <2>3. net' = [net EXCEPT ![s] = n]
    BY <2>1
  <2>4. start \in BOOLEAN
    OBVIOUS
  <2>5. /\ c \in Completion /\ c.op = "write" /\ c.slot = s /\ c.conn = net[s].socket
    BY <1>1, <2>2 DEF Completion, NetRecord
  <2>6. ready' = Append(ready, c) \/ ready' = ready
    BY <2>1
  <2>7. immediate => ready' = Append(ready, c)
    BY <2>1
  <2> HIDE DEF c
  <2>8. net[s].is_writing \/ start \/ immediate
    OBVIOUS
  <2> HIDE DEF start
  <2>9. /\ n.queue = net[s].queue + 1 /\ n.is_writing /\ n.socket = net[s].socket
        /\ n.writes = IF start THEN net[s].writes + 1 ELSE net[s].writes
    BY <2>2, <2>4, NetFields
  <2> HIDE DEF n
  <2>10. n.writes > 0 \/ Waiting(ready', s, n.socket)
    <3>1. CASE immediate
      BY <1>1, <2>5, <2>7, <2>9, <3>1, WaitingNew
    <3>2. CASE start
      BY <2>2, <2>9, <3>2 DEF NetRecord
    <3>3. CASE net[s].is_writing /\ ~start
      <4>1. net[s].writes > 0 \/ Waiting(ready, s, net[s].socket)
        BY <3>3 DEF Flow, FlowAt
      <4>2. Waiting(ready, s, net[s].socket) => Waiting(ready', s, net[s].socket)
        BY <1>1, <2>6, WaitingOps
      <4> QED BY <2>9, <3>3, <4>1, <4>2
    <3> QED BY <2>8, <3>1, <3>2, <3>3
  <2>11. FlowAt(n, ready', s)
    BY <2>2, <2>9, <2>10 DEF FlowAt, NetRecord
  <2> QED BY <1>2, <2>3, <2>6, <2>11
<1>17. CASE TickSlot
  BY <1>3, <1>4, <1>17 DEF TickSlot
<1>18. CASE RestartSlot
  BY <1>3, <1>4, <1>18 DEF RestartSlot
<1>19. CASE RestartEnd
  BY <1>19, NoNetFlows DEF RestartEnd, Flow
<1> QED
  BY <1>5, <1>6, <1>7, <1>8, <1>9, <1>10, <1>11, <1>12, <1>13, <1>14, <1>15, <1>16, <1>17, <1>18,
     <1>19 DEF Next, Kernel, Handle, Game

\* No chunk is left behind: a queue that is not empty has a write in progress or a
\* completion of its own socket to be handled, also after completions of the slot's
\* former connections popped chunks of it (DoWrite, HandleWrite).
THEOREM NothingStalls == Spec => []NoStall
<1>1. Init => Flow
  BY NoNetFlows DEF Init, Flow
<1>2. Flow => NoStall
  BY DEF Flow, FlowAt, Waiting, NoStall
<1> QED BY <1>1, <1>2, FlowStep, IInvInvariant, PTL DEF Spec

-------------------------------------------------------------------------------
(* The throttle of connections.  The search is a recursive function, which is  *)
(* to the provers the choice of a function that satisfies its own equation.    *)
(* That there is one, and what it answers, is proved by induction on the pairs *)
(* left to look at.                                                            *)

\* A set of naturals with one element in it has a least one.
LEMMA LeastOf ==
  ASSUME NEW T \in SUBSET Nat, T # {}
  PROVE  \E m \in T : \A k \in T : m <= k
<1> DEFINE R == OpToRel(<, Nat)
<1>1. R = {ss \in Nat \X Nat : ss[1] < ss[2]}
  BY Zenon DEF OpToRel
<1>2. IsWellFoundedOn(R, Nat)
  BY NatLessThanWellFounded
<1> HIDE DEF R
<1>3. PICK m \in T : \A k \in T : ~ (<<k, m>> \in R)
  BY <1>2, WFMin
<1>4. ASSUME NEW k \in T PROVE m <= k
  <2>1. <<k, m>> \in Nat \X Nat /\ <<k, m>>[1] = k /\ <<k, m>>[2] = m
    OBVIOUS
  <2>2. ~(k < m)
    BY <1>1, <1>3, <2>1
  <2> QED BY <2>2
<1> QED BY <1>4

\* Induction, over a set of naturals: one with zero and every successor is all of them.
LEMMA AllNaturals ==
  ASSUME NEW S \in SUBSET Nat, 0 \in S, \A n \in S : n + 1 \in S
  PROVE  \A n \in Nat : n \in S
<1> SUFFICES ASSUME NEW n \in Nat, n \notin S PROVE FALSE
  OBVIOUS
<1>1. PICK m \in Nat \ S : \A k \in Nat \ S : m <= k
  BY LeastOf
<1>2. m # 0
  BY <1>1
<1>3. m - 1 \in Nat /\ m - 1 \in S
  BY <1>1, <1>2
<1>4. m \in S
  BY <1>3
<1> QED BY <1>1, <1>4

(***************************************************************************)
(* The search                                                              *)
(***************************************************************************)

\* What the search relies on: the pairs it may look at are there.
Readable ==
  /\ MaxValue \in Nat /\ EntrysCounter \in Nat /\ MaxValue <= EntrysCounter
  /\ \A k \in 0..EntrysCounter : IpTables[k].ip \in Int

\* What it answers.
Answer == [found : BOOLEAN, at : 0..MaxValue]

\* The two halves the loop goes on with after it looked at pair m.
Upper(s, m) == [s EXCEPT !.First = m + 1, !.Middle = m]
Lower(s, m) == [s EXCEPT !.Last = m - 1, !.Middle = m]

\* The loop from s, answered by f after its first turn.
Turn(f, s, ip) ==
  LET m == (s.First + s.Last) \div 2
  IN  IF s.First > s.Last THEN [found |-> FALSE, at |-> s.Middle]
      ELSE IF IpTables[m].ip < ip THEN f[Upper(s, m)]
      ELSE IF IpTables[m].ip > ip THEN f[Lower(s, m)]
      ELSE [found |-> TRUE, at |-> m]

Turns(f, ip) == [s \in Search |-> Turn(f, s, ip)]

\* The pair in the middle is between the bounds, and both halves are shorter.
LEMMA Halves ==
  ASSUME MaxValue \in Nat, NEW s \in Search, s.First <= s.Last,
         NEW m, m = (s.First + s.Last) \div 2
  PROVE  /\ m \in 0..MaxValue /\ s.First <= m /\ m <= s.Last
         /\ m < MaxValue \/ s.First = MaxValue
         /\ Upper(s, m) \in Search /\ Upper(s, m).First = m + 1 /\ Upper(s, m).Last = s.Last
         /\ Lower(s, m) \in Search /\ Lower(s, m).First = s.First /\ Lower(s, m).Last = m - 1
<1>1. s.First \in 0 .. MaxValue + 1 /\ s.Last \in -1 .. MaxValue /\ s.Middle \in 0..MaxValue
  BY DEF Search
<1>2. m \in 0..MaxValue /\ s.First <= m /\ m <= s.Last /\ (m < MaxValue \/ s.First = MaxValue)
  BY <1>1
<1>3. m + 1 \in 0 .. MaxValue + 1 /\ m - 1 \in -1..MaxValue
  BY <1>2
<1>4. /\ Upper(s, m) \in Search /\ Upper(s, m).First = m + 1 /\ Upper(s, m).Last = s.Last
  <2> DEFINE n == m + 1
             q == [s EXCEPT !.First = n]
  <2> HIDE DEF n
  <2>1. q \in Search /\ q.First = n /\ q.Last = s.Last
    BY <1>3, Z3T(20) DEF Search, n
  <2>2. Upper(s, m) = [q EXCEPT !.Middle = m]
    BY Zenon DEF Upper, n
  <2> HIDE DEF q
  <2>3. [q EXCEPT !.Middle = m] \in Search /\ [q EXCEPT !.Middle = m].First = n /\ [q EXCEPT !.Middle = m].Last = s.Last
    BY <1>2, <2>1, Z3T(20) DEF Search
  <2> QED BY <2>2, <2>3 DEF n
<1>5. /\ Lower(s, m) \in Search /\ Lower(s, m).First = s.First /\ Lower(s, m).Last = m - 1
  <2> DEFINE n == m - 1
             q == [s EXCEPT !.Last = n]
  <2> HIDE DEF n
  <2>1. q \in Search /\ q.First = s.First /\ q.Last = n
    BY <1>3, Z3T(20) DEF Search, n
  <2>2. Lower(s, m) = [q EXCEPT !.Middle = m]
    BY Zenon DEF Lower, n
  <2> HIDE DEF q
  <2>3. [q EXCEPT !.Middle = m] \in Search /\ [q EXCEPT !.Middle = m].First = s.First /\ [q EXCEPT !.Middle = m].Last = n
    BY <1>2, <2>1, Z3T(20) DEF Search
  <2> QED BY <2>2, <2>3 DEF n
<1> QED BY <1>2, <1>4, <1>5

\* A turn answers when the rest of the loop does.
LEMMA TurnsAnswer ==
  ASSUME Readable, NEW ip \in Int, NEW f \in [Search -> Answer]
  PROVE  Turns(f, ip) \in [Search -> Answer]
<1> SUFFICES ASSUME NEW s \in Search PROVE Turn(f, s, ip) \in Answer
  BY DEF Turns
<1> DEFINE m == (s.First + s.Last) \div 2
<1>1. CASE s.First > s.Last
  <2>1. s.Middle \in 0..MaxValue
    BY DEF Search
  <2> QED BY <1>1, <2>1 DEF Turn, Answer
<1>2. CASE ~(s.First > s.Last)
  <2>1. s.First <= s.Last
    BY <1>2 DEF Search, Readable
  <2> HIDE DEF m
  <2>2. m \in 0..MaxValue /\ Upper(s, m) \in Search /\ Lower(s, m) \in Search
    BY <2>1, Halves DEF Readable, m
  <2>3. [found |-> TRUE, at |-> m] \in Answer
    BY <2>2 DEF Answer
  <2>4. f[Upper(s, m)] \in Answer /\ f[Lower(s, m)] \in Answer
    BY <2>2
  <2> QED BY <1>2, <2>3, <2>4 DEF Turn, m
<1> QED BY <1>1, <1>2

\* There is a function that answers the loop from everywhere.
LEMMA SearchEnds ==
  ASSUME Readable, NEW ip \in Int
  PROVE  \E f : f = Turns(f, ip)
<1> DEFINE Good(g, n) == \A s \in Search : s.Last - s.First < n => g[s] = Turn(g, s, ip)
           S == {n \in Nat : \E g \in [Search -> Answer] : Good(g, n)}
<1>0. MaxValue \in Nat /\ \A s \in Search : s.First \in 0 .. MaxValue + 1 /\ s.Last \in -1..MaxValue
  BY DEF Readable, Search
<1>1. 0 \in S
  <2> DEFINE g == [s \in Search |-> [found |-> FALSE, at |-> s.Middle]]
  <2>1. g \in [Search -> Answer]
    BY DEF Answer, Search
  <2>2. ASSUME NEW s \in Search, s.Last - s.First < 0 PROVE g[s] = Turn(g, s, ip)
    <3>1. s.First > s.Last
      BY <1>0, <2>2
    <3> QED BY <3>1 DEF Turn
  <2> QED BY <2>1, <2>2
<1>2. ASSUME NEW n \in S PROVE n + 1 \in S
  <2>1. PICK f \in [Search -> Answer] : Good(f, n)
    OBVIOUS
  <2> DEFINE g == Turns(f, ip)
  <2>2. g \in [Search -> Answer]
    BY TurnsAnswer
  <2>3. \A s \in Search : g[s] = Turn(f, s, ip)
    BY DEF Turns
  <2> HIDE DEF g
  <2>4. ASSUME NEW s \in Search, s.Last - s.First < n + 1 PROVE g[s] = Turn(g, s, ip)
    <3> DEFINE m == (s.First + s.Last) \div 2
    <3>1. CASE s.First > s.Last
      BY <2>3, <3>1 DEF Turn
    <3>2. CASE ~(s.First > s.Last)
      <4>1. s.First <= s.Last
        BY <1>0, <3>2
      <4> HIDE DEF m
      <4>2. /\ m \in 0..MaxValue /\ s.First <= m /\ m <= s.Last
            /\ Upper(s, m) \in Search /\ Upper(s, m).First = m + 1 /\ Upper(s, m).Last = s.Last
            /\ Lower(s, m) \in Search /\ Lower(s, m).First = s.First /\ Lower(s, m).Last = m - 1
        BY <1>0, <4>1, Halves DEF m
      <4>3. n \in Nat
        OBVIOUS
      <4>4. Upper(s, m).Last - Upper(s, m).First < n /\ Lower(s, m).Last - Lower(s, m).First < n
        BY <1>0, <2>4, <4>2, <4>3
      <4>5. f[Upper(s, m)] = Turn(f, Upper(s, m), ip) /\ f[Lower(s, m)] = Turn(f, Lower(s, m), ip)
        BY <2>1, <4>2, <4>4
      <4>6. g[Upper(s, m)] = f[Upper(s, m)] /\ g[Lower(s, m)] = f[Lower(s, m)]
        BY <2>3, <4>2, <4>5
      <4>7. Turn(g, s, ip) = Turn(f, s, ip)
        BY <4>6 DEF Turn, m
      <4> QED BY <2>3, <4>7
    <3> QED BY <3>1, <3>2
  <2>5. Good(g, n + 1)
    BY <2>4
  <2> QED BY <2>2, <2>5
<1>3. MaxValue + 1 \in S
  <2> HIDE DEF S
  <2>1. S \in SUBSET Nat
    BY DEF S
  <2>2. \A n \in Nat : n \in S
    BY <1>1, <1>2, <2>1, AllNaturals
  <2> QED BY <1>0, <2>2
<1>4. PICK f \in [Search -> Answer] : Good(f, MaxValue + 1)
  BY <1>3
<1>5. ASSUME NEW s \in Search PROVE f[s] = Turn(f, s, ip)
  BY <1>0, <1>4
<1>6. f = [s \in Search |-> Turn(f, s, ip)]
  BY <1>5
<1> QED BY <1>6 DEF Turns

\* What an answer r to the loop from s says of the address.
Right(r, s, ip) ==
  /\ r \in Answer
  /\ r.found => IpTables[r.at].ip = ip
  /\ Sorted /\ ~r.found => \A k \in PairsInUse : s.First <= k /\ k <= s.Last => IpTables[k].ip # ip

\* One turn keeps to it when the rest of the loop does.
LEMMA TurnIsRight ==
  ASSUME Readable, NEW ip \in Int, NEW f, NEW s \in Search,
         \A q \in Search : q.Last - q.First < s.Last - s.First => Right(f[q], q, ip)
  PROVE  Right(Turn(f, s, ip), s, ip)
<1> DEFINE m == (s.First + s.Last) \div 2
<1>0. /\ MaxValue \in Nat /\ PairsInUse \subseteq Nat
      /\ s.First \in 0 .. MaxValue + 1 /\ s.Last \in -1..MaxValue /\ s.Middle \in 0..MaxValue
  BY DEF Readable, Search, PairsInUse
<1>1. CASE s.First > s.Last
  <2> DEFINE r == [found |-> FALSE, at |-> s.Middle]
  <2>1. Turn(f, s, ip) = r
    BY <1>1 DEF Turn
  <2>2. r \in Answer /\ ~r.found
    BY <1>0 DEF Answer
  <2>3. \A k \in PairsInUse : ~(s.First <= k /\ k <= s.Last)
    BY <1>0, <1>1
  <2> QED BY <2>1, <2>2, <2>3 DEF Right
<1>2. CASE ~(s.First > s.Last)
  <2>1. s.First <= s.Last
    BY <1>0, <1>2
  <2> HIDE DEF m
  <2>2. /\ m \in 0..MaxValue /\ s.First <= m /\ m <= s.Last
        /\ m < MaxValue \/ s.First = MaxValue
        /\ Upper(s, m) \in Search /\ Upper(s, m).First = m + 1 /\ Upper(s, m).Last = s.Last
        /\ Lower(s, m) \in Search /\ Lower(s, m).First = s.First /\ Lower(s, m).Last = m - 1
    BY <1>0, <2>1, Halves DEF m
  <2>3. /\ Upper(s, m).Last - Upper(s, m).First < s.Last - s.First
        /\ Lower(s, m).Last - Lower(s, m).First < s.Last - s.First
    BY <1>0, <2>2
  <2>4. Right(f[Upper(s, m)], Upper(s, m), ip) /\ Right(f[Lower(s, m)], Lower(s, m), ip)
    BY <2>2, <2>3
  <2>5. IpTables[m].ip \in Int
    BY <2>2 DEF Readable
  \* A pair on the side that is given up is not the one.
  <2>6. ASSUME Sorted, NEW k \in PairsInUse, s.First <= k, k <= s.Last, IpTables[k].ip = ip
        PROVE  /\ IpTables[m].ip < ip => m + 1 <= k
               /\ IpTables[m].ip > ip => k <= m - 1
    <3>1. m \in PairsInUse
      BY <1>0, <2>2, <2>6 DEF PairsInUse
    <3>2. IpTables[m].ip < ip \/ IpTables[m].ip > ip => k # m
      BY <2>5, <2>6
    <3>3. k < m => IpTables[k].ip < IpTables[m].ip
      BY <2>6, <3>1 DEF Sorted
    <3>4. m < k => IpTables[m].ip < IpTables[k].ip
      BY <2>6, <3>1 DEF Sorted
    <3>5. k \in Int /\ m \in Int
      BY <1>0, <2>2
    <3>6. IpTables[m].ip < ip => ~(k < m)
      BY <2>5, <2>6, <3>3
    <3>7. IpTables[m].ip > ip => ~(m < k)
      BY <2>5, <2>6, <3>4
    <3> QED BY <3>2, <3>5, <3>6, <3>7
  <2>7. CASE IpTables[m].ip < ip
    <3>1. Turn(f, s, ip) = f[Upper(s, m)]
      BY <1>2, <2>7 DEF Turn, m
    <3>2. ASSUME Sorted, ~f[Upper(s, m)].found, NEW k \in PairsInUse, s.First <= k, k <= s.Last
          PROVE  IpTables[k].ip # ip
      <4>1. IpTables[k].ip = ip => m + 1 <= k
        BY <2>6, <2>7, <3>2
      <4> QED BY <2>2, <2>4, <3>2, <4>1 DEF Right
    <3> QED BY <2>4, <3>1, <3>2 DEF Right
  <2>8. CASE ~(IpTables[m].ip < ip) /\ IpTables[m].ip > ip
    <3>1. Turn(f, s, ip) = f[Lower(s, m)]
      BY <1>2, <2>8 DEF Turn, m
    <3>2. ASSUME Sorted, ~f[Lower(s, m)].found, NEW k \in PairsInUse, s.First <= k, k <= s.Last
          PROVE  IpTables[k].ip # ip
      <4>1. IpTables[k].ip = ip => k <= m - 1
        BY <2>6, <2>8, <3>2
      <4> QED BY <2>2, <2>4, <3>2, <4>1 DEF Right
    <3> QED BY <2>4, <3>1, <3>2 DEF Right
  <2>9. CASE ~(IpTables[m].ip < ip) /\ ~(IpTables[m].ip > ip)
    <3> DEFINE r == [found |-> TRUE, at |-> m]
    <3>1. Turn(f, s, ip) = r
      BY <1>2, <2>9 DEF Turn, m
    <3>2. r \in Answer /\ r.found /\ r.at = m
      BY <2>2 DEF Answer
    <3>3. IpTables[m].ip = ip
      BY <2>5, <2>9
    <3> QED BY <3>1, <3>2, <3>3 DEF Right
  <2> QED BY <2>7, <2>8, <2>9
<1> QED BY <1>1, <1>2

\* Where the search starts.
Start == [First |-> FirstPair, Last |-> MaxValue, Middle |-> 0]

LEMMA SearchIsRight ==
  ASSUME Readable, NEW ip \in Int
  PROVE  Right(FindTableIp(ip), Start, ip)
<1> DEFINE find[s \in Search] ==
             LET m == (s.First + s.Last) \div 2
             IN  IF s.First > s.Last THEN [found |-> FALSE, at |-> s.Middle]
                 ELSE IF IpTables[m].ip < ip THEN find[[s EXCEPT !.First = m + 1, !.Middle = m]]
                 ELSE IF IpTables[m].ip > ip THEN find[[s EXCEPT !.Last = m - 1, !.Middle = m]]
                 ELSE [found |-> TRUE, at |-> m]
<1>1. find = Turns(find, ip)
  <2> SUFFICES \E f : f = Turns(f, ip)
    BY DEF Turns, Turn, Upper, Lower
  <2> QED BY SearchEnds
<1>2. FindTableIp(ip) = find[Start]
  BY DEF FindTableIp, Start
<1> HIDE DEF find
<1>3. ASSUME NEW s \in Search PROVE find[s] = Turn(find, s, ip)
  BY <1>1 DEF Turns
<1> DEFINE S == {n \in Nat : \A s \in Search : s.Last - s.First < n => Right(find[s], s, ip)}
<1>4. /\ MaxValue \in Nat
      /\ \A s \in Search : s.First \in 0 .. MaxValue + 1 /\ s.Last \in -1..MaxValue
  BY DEF Readable, Search
<1>5. 0 \in S
  <2> SUFFICES ASSUME NEW s \in Search, s.Last - s.First < 0 PROVE Right(find[s], s, ip)
    OBVIOUS
  <2> DEFINE r == [found |-> FALSE, at |-> s.Middle]
  <2>1. s.First > s.Last
    BY <1>4
  <2>2. find[s] = r
    BY <1>3, <2>1 DEF Turn
  <2>3. r \in Answer /\ ~r.found
    BY DEF Answer, Search
  <2>4. \A k \in PairsInUse : ~(s.First <= k /\ k <= s.Last)
    BY <1>4, <2>1 DEF PairsInUse
  <2> QED BY <2>2, <2>3, <2>4 DEF Right
<1>6. ASSUME NEW n \in S PROVE n + 1 \in S
  <2> SUFFICES ASSUME NEW s \in Search, s.Last - s.First < n + 1 PROVE Right(find[s], s, ip)
    OBVIOUS
  <2>1. n \in Nat /\ \A q \in Search : q.Last - q.First < n => Right(find[q], q, ip)
    OBVIOUS
  <2>2. \A q \in Search : q.Last - q.First < s.Last - s.First => q.Last - q.First < n
    BY <1>4, <2>1
  <2>3. \A q \in Search : q.Last - q.First < s.Last - s.First => Right(find[q], q, ip)
    BY <2>1, <2>2
  <2>4. Right(Turn(find, s, ip), s, ip)
    BY <2>3, TurnIsRight
  <2> QED BY <1>3, <2>4
<1>7. MaxValue + 1 \in S
  <2> HIDE DEF S
  <2>1. S \in SUBSET Nat
    BY DEF S
  <2>2. \A n \in Nat : n \in S
    BY <1>5, <1>6, <2>1, AllNaturals
  <2> QED BY <1>4, <2>2
<1>8. Start \in Search /\ Start.Last = MaxValue /\ Start.First = 0
  BY <1>4 DEF Start, Search, FirstPair
<1>9. Start.Last - Start.First < MaxValue + 1
  BY <1>4, <1>8
<1> QED BY <1>2, <1>7, <1>8, <1>9

\* A search that finds an address ends on its pair, and among sorted pairs it finds
\* every address there is.
Finds ==
  /\ \A ip \in Ips : /\ FindTableIp(ip) \in Answer
                     /\ Known(ip) => IpTables[FindTableIp(ip).at].ip = ip
  /\ SortedFinds

LEMMA SearchFinds == Readable => Finds
<1> SUFFICES ASSUME Readable PROVE Finds
  OBVIOUS
<1>1. ASSUME NEW ip \in Ips
      PROVE  /\ FindTableIp(ip) \in Answer
             /\ Known(ip) => IpTables[FindTableIp(ip).at].ip = ip
  <2>1. ip \in Int
    BY IpsAssumption
  <2>2. Right(FindTableIp(ip), Start, ip)
    BY <2>1, SearchIsRight
  <2> QED BY <2>2 DEF Right, Known
<1>2. SortedFinds
  <2> SUFFICES ASSUME Sorted, NEW k \in PairsInUse PROVE Known(IpTables[k].ip)
    BY DEF SortedFinds
  <2> DEFINE ip == IpTables[k].ip
  <2>1. /\ k \in Int /\ Start.First <= k /\ k <= Start.Last /\ k \in 0..EntrysCounter
    BY DEF PairsInUse, Readable, Start, FirstPair
  <2>2. ip \in Int
    BY <2>1 DEF Readable
  <2> HIDE DEF ip
  <2>3. Right(FindTableIp(ip), Start, ip)
    BY <2>2, SearchIsRight
  <2>4. IpTables[k].ip = ip
    BY DEF ip
  <2>5. FindTableIp(ip).found
    BY <2>1, <2>3, <2>4 DEF Right, Answer
  <2> QED BY <2>5 DEF Known, ip
<1> QED BY <1>1, <1>2 DEF Finds

(***************************************************************************)
(* The inductive invariant                                                 *)
(***************************************************************************)

\* A time as a signed tick.
Stamp(t) == IF t < Half THEN t ELSE t - 2 * Half

\* The pairs that are not in use are zero.
Zeroed ==
  /\ MaxValue <= EntrysCounter
  /\ \A k \in MaxValue..EntrysCounter : IpTables[k] = Empty

\* A pair in use is of an address that was admitted since the purge, and its tick is
\* of a time no later than that.
StampedBy(e, l) == e.ip \in Ips /\ l[e.ip] # Never /\ \E t \in 0..l[e.ip] : e.tick = Stamp(t)
Stamped == \A k \in PairsInUse : StampedBy(IpTables[k], last)

\* The inductive invariant.
IpIInv == IpTypeOK /\ Zeroed /\ LastAdmissionStands /\ Stamped

LEMMA ReadableTable == IpTypeOK /\ Zeroed => Readable
<1> SUFFICES ASSUME IpTypeOK, Zeroed PROVE Readable
  OBVIOUS
<1>1. MaxValue \in Nat /\ EntrysCounter \in Nat
  BY NumbersAssumption DEF IpTypeOK
<1>2. ASSUME NEW k \in 0..EntrysCounter PROVE IpTables[k].ip \in Int
  <2>1. IpTables[k].ip \in Ips \union {0}
    BY DEF IpTypeOK
  <2> QED BY <2>1, IpsAssumption
<1> QED BY <1>1, <1>2 DEF Readable, Zeroed

\* Zero is nobody's address, so no search ends on a pair that is not in use.
LEMMA SearchInBounds == IpTypeOK /\ Zeroed => InBounds /\ Finds
<1> SUFFICES ASSUME IpTypeOK, Zeroed PROVE InBounds /\ Finds
  OBVIOUS
<1>1. Finds /\ MaxValue \in Nat /\ EntrysCounter \in Nat
  BY ReadableTable, SearchFinds DEF Readable
<1>2. ASSUME NEW ip \in Ips, Known(ip) PROVE FindTableIp(ip).at \in PairsInUse
  <2> DEFINE here == FindTableIp(ip).at
  <2>0. FindTableIp(ip) \in Answer /\ IpTables[here].ip = ip
    BY <1>1, <1>2 DEF Finds
  <2>1. here \in 0..MaxValue /\ IpTables[here].ip = ip
    BY <2>0 DEF Answer
  <2>2. ip # 0
    BY IpsAssumption
  <2> HIDE DEF here
  <2>3. here # MaxValue
    BY <1>1, <2>1, <2>2 DEF Zeroed, Empty
  <2> QED BY <1>1, <2>1, <2>3 DEF PairsInUse, here
<1> QED BY <1>1, <1>2 DEF InBounds, Zeroed

\* Ticks are the stamp of the time, and fit.
LEMMA NowStamped ==
  ASSUME IpTypeOK
  PROVE  Ticks = Stamp(now) /\ Ticks \in -Half .. Half - 1
<1>1. now \in Nat /\ now < 2 * Half /\ Half \in Nat
  BY NumbersAssumption DEF IpTypeOK
<1>2. Ticks = Stamp(now)
  BY DEF Ticks, Stamp
<1>3. CASE now < Half
  BY <1>1, <1>2, <1>3 DEF Ticks
<1>4. CASE ~(now < Half)
  <2>1. Ticks = now - 2 * Half
    BY <1>4 DEF Ticks
  <2> QED BY <1>1, <1>2, <1>4, <2>1
<1> QED BY <1>3, <1>4

LEMMA IpInitHolds == InitIpTables => IpIInv
<1> SUFFICES ASSUME InitIpTables PROVE IpIInv
  OBVIOUS
<1>1. IpTypeOK
  <2>1. 0 \in 0..MaxEntries /\ 0 \in 0..MaxNow /\ 0 \in -Half .. Half - 1 /\ Base * 1 = Base
    BY NumbersAssumption
  <2>2. Empty \in [ip : Ips \union {0}, tick : -Half .. Half - 1]
    BY <2>1 DEF Empty
  <2> QED BY <2>1, <2>2 DEF InitIpTables, IpTypeOK
<1>2. Zeroed
  BY NumbersAssumption DEF InitIpTables, Zeroed
<1>3. LastAdmissionStands /\ Stamped
  BY DEF InitIpTables, LastAdmissionStands, Stamped, PairsInUse
<1> QED BY <1>1, <1>2, <1>3 DEF IpIInv

\* The capacity is the first one again, or one of them more.
LEMMA BaseOf ==
  ASSUME IpTypeOK
  PROVE  EntrysCounter \div Multiplicado = Base
<1>1. Base \in Nat /\ Multiplicado \in Nat \ {0} /\ EntrysCounter = Base * Multiplicado
  BY NumbersAssumption DEF IpTypeOK
<1> QED BY <1>1

\* A new address: the pairs from its place on move up by one.  Each old pair is
\* still there, and each new one but the address's own is an old one.
LEMMA AcceptNewMoves ==
  ASSUME IpIInv, NEW ip \in Ips, AcceptNew(ip)
  PROVE  \E here \in 0..MaxValue :
           /\ MaxValue' = MaxValue + 1 /\ MaxValue' <= MaxEntries
           /\ MaxValue' <= EntrysCounter' /\ EntrysCounter' >= EntrysCounter
           /\ Multiplicado' \in Nat \ {0} /\ EntrysCounter' = Base * Multiplicado'
           /\ Multiplicado' > 1 => MaxValue' > Base * (Multiplicado' - 1)
           /\ IpTables' = [k \in 0..EntrysCounter' |-> IpTables'[k]]
           /\ IpTables'[here] = [ip |-> ip, tick |-> Ticks]
           /\ \A k \in 0 .. here - 1 : IpTables'[k] = IpTables[k]
           /\ \A k \in here + 1 .. MaxValue : IpTables'[k] = IpTables[k - 1]
           /\ \A k \in MaxValue + 1 .. EntrysCounter' : IpTables'[k] = Empty
<1> DEFINE here == FindTableIp(ip).at
<1>1. AddNewIpIntervalo(ip, here) /\ MaxValue < MaxEntries
  BY DEF AcceptNew
<1>2. here \in 0..MaxValue
  <2>1. FindTableIp(ip) \in Answer
    BY SearchInBounds DEF IpIInv, Finds
  <2> QED BY <2>1 DEF Answer
<1> HIDE DEF here
<1>3. /\ MaxValue \in Nat /\ EntrysCounter \in Nat /\ MaxValue <= EntrysCounter /\ MaxEntries \in Nat
      /\ Base \in Nat \ {0} /\ Multiplicado \in Nat \ {0} /\ EntrysCounter = Base * Multiplicado
      /\ Multiplicado > 1 => MaxValue > Base * (Multiplicado - 1)
  BY NumbersAssumption DEF IpIInv, IpTypeOK, Zeroed
<1>4. /\ MaxValue' = MaxValue + 1
      /\ Multiplicado' = IF Full THEN Multiplicado + 1 ELSE Multiplicado
      /\ EntrysCounter' = IF Full THEN (EntrysCounter \div Multiplicado) * Multiplicado' ELSE EntrysCounter
  BY <1>1 DEF AddNewIpIntervalo
<1>5. /\ MaxValue' <= EntrysCounter' /\ EntrysCounter' >= EntrysCounter /\ EntrysCounter' \in Nat
      /\ Multiplicado' \in Nat \ {0} /\ EntrysCounter' = Base * Multiplicado'
      /\ Multiplicado' > 1 => MaxValue' > Base * (Multiplicado' - 1)
  <2>1. CASE Full
    <3>1. Multiplicado' = Multiplicado + 1 /\ EntrysCounter' = Base * Multiplicado'
      BY <1>4, <2>1, BaseOf DEF IpIInv
    <3>2. EntrysCounter' = EntrysCounter + Base
      BY <1>3, <3>1
    <3>3. MaxValue = EntrysCounter
      BY <1>3, <2>1 DEF Full
    <3>4. Base * (Multiplicado' - 1) = EntrysCounter
      BY <1>3, <3>1
    <3> QED BY <1>3, <1>4, <3>1, <3>2, <3>3, <3>4
  <2>2. CASE ~Full
    <3>1. Multiplicado' = Multiplicado /\ EntrysCounter' = EntrysCounter
      BY <1>4, <2>2
    <3>2. MaxValue + 1 <= EntrysCounter
      BY <1>3, <2>2 DEF Full
    <3> DEFINE less == Base * (Multiplicado - 1)
    <3>3. less \in Int
      BY <1>3
    <3> HIDE DEF less
    <3>4. Multiplicado > 1 => MaxValue + 1 > less
      BY <1>3, <3>3 DEF less
    <3> QED BY <1>3, <1>4, <3>1, <3>2, <3>4 DEF less
  <2> QED BY <2>1, <2>2
<1>17. /\ MaxValue \in Nat /\ EntrysCounter \in Nat /\ MaxValue <= EntrysCounter
       /\ EntrysCounter' \in Nat /\ EntrysCounter' >= EntrysCounter /\ MaxValue <= EntrysCounter'
  BY <1>3, <1>4, <1>5
<1> DEFINE new == [ip |-> ip, tick |-> Ticks]
           grown == [k \in 0..EntrysCounter' |-> IF k <= EntrysCounter THEN IpTables[k] ELSE Empty]
           moved == [k \in 0..EntrysCounter' |-> grown[IF k \in MovedUp(here) THEN k - 1 ELSE k]]
<1>6. IpTables' = [moved EXCEPT ![here] = new]
  BY <1>1 DEF AddNewIpIntervalo
<1> HIDE DEF new
<1>7. DOMAIN moved = 0..EntrysCounter'
  OBVIOUS
<1>8. ASSUME NEW k \in 0..EntrysCounter', k \notin MovedUp(here) PROVE moved[k] = IF k <= EntrysCounter THEN IpTables[k] ELSE Empty
  BY <1>8
<1>9. ASSUME NEW k \in MovedUp(here) PROVE moved[k] = IpTables[k - 1]
  <2>1. k \in 0..EntrysCounter' /\ k - 1 \in 0..EntrysCounter' /\ k - 1 <= EntrysCounter
    BY <1>2, <1>17 DEF MovedUp
  <2>2. moved[k] = grown[k - 1]
    BY <1>9, <2>1
  <2> QED BY <2>1, <2>2
<1> HIDE DEF moved
<1>10. here \in 0..EntrysCounter'
  BY <1>2, <1>17
<1>11. IpTables' = [k \in 0..EntrysCounter' |-> IpTables'[k]] /\ IpTables'[here] = new
  BY <1>6, <1>7, <1>10
<1>12. ASSUME NEW k \in 0..EntrysCounter', k # here PROVE IpTables'[k] = moved[k]
  BY <1>6, <1>7, <1>12
<1>13. ASSUME NEW k \in 0 .. here - 1 PROVE IpTables'[k] = IpTables[k]
  <2>1. k \in 0..EntrysCounter' /\ k # here /\ k \notin MovedUp(here) /\ k <= EntrysCounter
    BY <1>2, <1>17 DEF MovedUp
  <2> QED BY <1>8, <1>12, <2>1
<1>14. ASSUME NEW k \in here + 1 .. MaxValue PROVE IpTables'[k] = IpTables[k - 1]
  <2>1. k \in 0..EntrysCounter' /\ k # here /\ k \in MovedUp(here)
    BY <1>2, <1>17 DEF MovedUp
  <2> QED BY <1>9, <1>12, <2>1
<1>15. ASSUME NEW k \in MaxValue + 1 .. EntrysCounter' PROVE IpTables'[k] = Empty
  <2>1. k \in 0..EntrysCounter' /\ k # here /\ k \notin MovedUp(here) /\ k >= MaxValue
    BY <1>2, <1>17 DEF MovedUp
  <2>2. IpTables'[k] = IF k <= EntrysCounter THEN IpTables[k] ELSE Empty
    BY <1>8, <1>12, <2>1
  <2>3. k <= EntrysCounter => IpTables[k] = Empty
    BY <1>17, <2>1 DEF IpIInv, Zeroed
  <2> QED BY <2>2, <2>3
<1>16. MaxValue' <= MaxEntries
  BY <1>1, <1>3, <1>4
<1> QED BY <1>2, <1>4, <1>5, <1>11, <1>13, <1>14, <1>15, <1>16 DEF new

\* What one admission does to what is known of the last ones.
Admitted(ip) == last' = [last EXCEPT ![ip] = now] /\ now' = now

LEMMA AdmittedStays ==
  ASSUME IpTypeOK, NEW ip \in Ips, Admitted(ip)
  PROVE  /\ last' \in [Ips -> 0..now' \union {Never}]
         /\ last'[ip] = now /\ \A j \in Ips : j # ip => last'[j] = last[j]
         /\ \A e : StampedBy(e, last) => StampedBy(e, last')
<1>1. now \in Nat /\ last \in [Ips -> 0..now \union {Never}] /\ now # Never
  BY NumbersAssumption, NeverAssumption DEF IpTypeOK
<1>2. /\ last' \in [Ips -> 0..now' \union {Never}]
      /\ last'[ip] = now /\ \A j \in Ips : j # ip => last'[j] = last[j]
  BY <1>1 DEF Admitted
<1>3. ASSUME NEW e, StampedBy(e, last)
      PROVE  StampedBy(e, last')
  <2>1. CASE e.ip # ip
    BY <1>2, <1>3, <2>1 DEF StampedBy
  <2>2. CASE e.ip = ip
    <3>1. last[ip] \in 0..now
      BY <1>1, <1>3, <2>2 DEF StampedBy
    <3>2. PICK t \in 0..last[ip] : e.tick = Stamp(t)
      BY <1>3, <2>2 DEF StampedBy
    <3>3. t \in 0..now
      BY <1>1, <3>1
    <3> QED BY <1>1, <1>2, <2>2, <3>2, <3>3 DEF StampedBy
  <2> QED BY <2>1, <2>2
<1> QED BY <1>2, <1>3

\* The record of a pair, and what stands of the last admissions, without the
\* conditions that only unfold.
Pair == [ip : Ips \union {0}, tick : -Half .. Half - 1]

LEMMA StandsMeans ==
  LastAdmissionStands <=>
    \A ip \in Ips : last[ip] # Never =>
      \E k \in PairsInUse : IpTables[k].ip = ip /\ IpTables[k].tick = Stamp(last[ip])
BY DEF LastAdmissionStands, Stamp

LEMMA AcceptNewStep ==
  ASSUME IpIInv, NEW ip \in Ips, AcceptNew(ip)
  PROVE  IpIInv'
<1>1. PICK here \in 0..MaxValue :
           /\ MaxValue' = MaxValue + 1 /\ MaxValue' <= MaxEntries
           /\ MaxValue' <= EntrysCounter' /\ EntrysCounter' >= EntrysCounter
           /\ Multiplicado' \in Nat \ {0} /\ EntrysCounter' = Base * Multiplicado'
           /\ Multiplicado' > 1 => MaxValue' > Base * (Multiplicado' - 1)
           /\ IpTables' = [k \in 0..EntrysCounter' |-> IpTables'[k]]
           /\ IpTables'[here] = [ip |-> ip, tick |-> Ticks]
           /\ \A k \in 0 .. here - 1 : IpTables'[k] = IpTables[k]
           /\ \A k \in here + 1 .. MaxValue : IpTables'[k] = IpTables[k - 1]
           /\ \A k \in MaxValue + 1 .. EntrysCounter' : IpTables'[k] = Empty
  BY AcceptNewMoves
<1>2. /\ MaxValue \in Nat /\ EntrysCounter \in Nat /\ MaxValue <= EntrysCounter /\ EntrysCounter' \in Int
      /\ \A k \in 0..EntrysCounter : IpTables[k] \in Pair
  <2>1. EntrysCounter' \in Int
    BY <1>1, NumbersAssumption
  <2> QED BY <2>1, NumbersAssumption DEF IpIInv, IpTypeOK, Zeroed, Pair
<1>3. Ticks = Stamp(now) /\ Ticks \in -Half .. Half - 1
  BY NowStamped DEF IpIInv
<1>4. /\ last' \in [Ips -> 0..now' \union {Never}]
      /\ last'[ip] = now /\ \A j \in Ips : j # ip => last'[j] = last[j]
      /\ \A e : StampedBy(e, last) => StampedBy(e, last')
  <2>1. Admitted(ip)
    BY DEF AcceptNew, Admitted
  <2> QED BY <2>1, AdmittedStays DEF IpIInv
<1> DEFINE new == [ip |-> ip, tick |-> Ticks]
<1>5. new \in Pair /\ new.ip = ip /\ new.tick = Stamp(now)
  BY <1>3 DEF Pair
<1>6. Empty \in Pair
  BY NumbersAssumption DEF Empty, Pair
<1> HIDE DEF new
<1>7. ASSUME NEW k \in 0..EntrysCounter'
      PROVE  \/ k = here /\ IpTables'[k] = new
             \/ k <= MaxValue /\ \E j \in PairsInUse : IpTables'[k] = IpTables[j]
             \/ k > MaxValue /\ IpTables'[k] = Empty
  <2>1. CASE k < here
    <3>1. k \in 0 .. here - 1 /\ k \in PairsInUse /\ k <= MaxValue
      BY <1>2, <2>1 DEF PairsInUse
    <3> QED BY <1>1, <3>1
  <2>2. CASE k = here
    BY <1>1, <2>2 DEF new
  <2>3. CASE k > here /\ k <= MaxValue
    <3>1. k \in here + 1 .. MaxValue /\ k - 1 \in PairsInUse
      BY <1>2, <2>3 DEF PairsInUse
    <3> QED BY <1>1, <2>3, <3>1
  <2>4. CASE k > MaxValue
    <3>1. k \in MaxValue + 1 .. EntrysCounter'
      BY <1>2, <2>4
    <3> QED BY <1>1, <2>4, <3>1
  <2> QED BY <1>2, <2>1, <2>2, <2>3, <2>4
<1>8. \A j \in PairsInUse : j \in 0..EntrysCounter
  BY <1>2 DEF PairsInUse
<1>9. IpTypeOK'
  <2>1. ASSUME NEW k \in 0..EntrysCounter' PROVE IpTables'[k] \in Pair
    BY <1>2, <1>5, <1>6, <1>7, <1>8
  <2>3. IpTables' \in [0..EntrysCounter' -> Pair]
    BY <1>1, <2>1
  <2>4. MaxValue' \in 0..MaxEntries
    BY <1>1, <1>2, NumbersAssumption
  <2>5. now' \in 0..MaxNow
    BY DEF AcceptNew, IpIInv, IpTypeOK
  <2> QED BY <1>1, <1>4, <2>3, <2>4, <2>5 DEF IpTypeOK, Pair
<1>10. Zeroed'
  <2>1. \A k \in MaxValue' .. EntrysCounter' : IpTables'[k] = Empty
    BY <1>1
  <2> QED BY <1>1, <2>1 DEF Zeroed, Empty
<1>11. LastAdmissionStands'
  <2> SUFFICES ASSUME NEW j \in Ips, last'[j] # Never
               PROVE  \E k \in 0 .. MaxValue' - 1 : IpTables'[k].ip = j /\ IpTables'[k].tick = Stamp(last'[j])
    BY DEF LastAdmissionStands, Stamp, PairsInUse
  <2>1. CASE j = ip
    <3>1. here \in 0 .. MaxValue' - 1
      BY <1>1, <1>2
    <3> QED BY <1>1, <1>4, <1>5, <2>1, <3>1 DEF new
  <2>2. CASE j # ip
    <3>1. last'[j] = last[j]
      BY <1>4, <2>2
    <3>2. PICK k \in PairsInUse : IpTables[k].ip = j /\ IpTables[k].tick = Stamp(last[j])
      BY <2>2, <3>1, StandsMeans DEF IpIInv
    <3>3. CASE k < here
      <4>1. k \in 0 .. here - 1 /\ k \in 0 .. MaxValue' - 1
        BY <1>1, <1>2, <3>3 DEF PairsInUse
      <4>2. IpTables'[k] = IpTables[k]
        BY <1>1, <4>1
      <4> QED BY <3>1, <3>2, <4>1, <4>2
    <3>4. CASE k >= here
      <4>1. k + 1 \in here + 1 .. MaxValue /\ k + 1 \in 0 .. MaxValue' - 1 /\ (k + 1) - 1 = k
        BY <1>1, <1>2, <3>4 DEF PairsInUse
      <4>2. IpTables'[k + 1] = IpTables[k]
        BY <1>1, <4>1
      <4> QED BY <3>1, <3>2, <4>1, <4>2
    <3> QED BY <1>2, <3>3, <3>4 DEF PairsInUse
  <2> QED BY <2>1, <2>2
<1>12. Stamped'
  <2> SUFFICES ASSUME NEW k \in 0 .. MaxValue' - 1 PROVE StampedBy(IpTables'[k], last')
    BY DEF Stamped, PairsInUse, StampedBy
  <2>1. k \in 0..EntrysCounter' /\ ~(k > MaxValue)
    BY <1>1, <1>2
  <2>2. CASE k = here /\ IpTables'[k] = new
    <3>1. now \in 0..last'[ip] /\ last'[ip] # Never
      BY <1>4, NeverAssumption, NumbersAssumption DEF IpIInv, IpTypeOK
    <3> QED BY <1>5, <2>2, <3>1 DEF StampedBy
  <2>3. CASE \E j \in PairsInUse : IpTables'[k] = IpTables[j]
    <3>1. PICK j \in PairsInUse : IpTables'[k] = IpTables[j]
      BY <2>3
    <3>2. StampedBy(IpTables[j], last)
      BY DEF IpIInv, Stamped
    <3> QED BY <1>4, <3>1, <3>2
  <2> QED BY <1>7, <2>1, <2>2, <2>3
<1> QED BY <1>9, <1>10, <1>11, <1>12 DEF IpIInv

\* An address that waited: the pair the search ended on is its own, and in use.
LEMMA AcceptAgainStep ==
  ASSUME IpIInv, NEW ip \in Ips, AcceptAgain(ip)
  PROVE  IpIInv'
<1> DEFINE here == FindTableIp(ip).at
           new == [IpTables[here] EXCEPT !.tick = Ticks]
<1>1. here \in PairsInUse /\ IpTables[here].ip = ip
  BY SearchInBounds DEF AcceptAgain, IpIInv, InBounds, Finds
<1>2. /\ MaxValue \in Nat /\ EntrysCounter \in Nat /\ MaxValue <= EntrysCounter
      /\ IpTables \in [0..EntrysCounter -> Pair]
  BY NumbersAssumption DEF IpIInv, IpTypeOK, Zeroed, Pair
<1>3. Ticks = Stamp(now) /\ Ticks \in -Half .. Half - 1
  BY NowStamped DEF IpIInv
<1>4. /\ last' \in [Ips -> 0..now' \union {Never}]
      /\ last'[ip] = now /\ \A j \in Ips : j # ip => last'[j] = last[j]
      /\ \A e : StampedBy(e, last) => StampedBy(e, last')
  <2>1. Admitted(ip)
    BY DEF AcceptAgain, Admitted
  <2> QED BY <2>1, AdmittedStays DEF IpIInv
<1>5. /\ MaxValue' = MaxValue /\ EntrysCounter' = EntrysCounter /\ Multiplicado' = Multiplicado /\ now' = now
      /\ IpTables' = [IpTables EXCEPT ![here] = new]
  BY DEF AcceptAgain
<1>6. new \in Pair /\ new.ip = ip /\ new.tick = Stamp(now)
  <2> DEFINE e == IpTables[here]
  <2>1. e \in Pair /\ e.ip = ip
    BY <1>1, <1>2 DEF PairsInUse
  <2> HIDE DEF e
  <2>2. [e EXCEPT !.tick = Ticks] \in Pair /\ [e EXCEPT !.tick = Ticks].ip = e.ip /\ [e EXCEPT !.tick = Ticks].tick = Ticks
    BY <1>3, <2>1, Z3T(20) DEF Pair
  <2> QED BY <1>3, <2>1, <2>2 DEF e
<1> HIDE DEF here, new
<1>7. here \in 0..EntrysCounter
  BY <1>1, <1>2 DEF PairsInUse
<1>8. /\ IpTables' \in [0..EntrysCounter -> Pair] /\ IpTables'[here] = new
      /\ \A k \in 0..EntrysCounter : k # here => IpTables'[k] = IpTables[k]
  BY <1>2, <1>5, <1>6, <1>7
<1>9. IpTypeOK'
  BY <1>4, <1>5, <1>8 DEF IpIInv, IpTypeOK, Pair
<1>10. Zeroed'
  <2>1. ASSUME NEW k \in MaxValue..EntrysCounter PROVE IpTables'[k] = Empty
    <3>1. k # here /\ k \in 0..EntrysCounter
      BY <1>1, <1>2 DEF PairsInUse
    <3> QED BY <1>8, <3>1 DEF IpIInv, Zeroed
  <2> QED BY <1>2, <1>5, <2>1 DEF Zeroed, Empty
<1>11. \A k \in PairsInUse : k \in 0..EntrysCounter
  BY <1>2 DEF PairsInUse
<1>12. LastAdmissionStands'
  <2> SUFFICES ASSUME NEW j \in Ips, last'[j] # Never
               PROVE  \E k \in PairsInUse : IpTables'[k].ip = j /\ IpTables'[k].tick = Stamp(last'[j])
    BY <1>5 DEF LastAdmissionStands, Stamp, PairsInUse
  <2>1. CASE j = ip
    BY <1>1, <1>4, <1>6, <1>8, <2>1
  <2>2. CASE j # ip
    <3>1. last'[j] = last[j]
      BY <1>4, <2>2
    <3>2. PICK k \in PairsInUse : IpTables[k].ip = j /\ IpTables[k].tick = Stamp(last[j])
      BY <2>2, <3>1, StandsMeans DEF IpIInv
    <3>3. k # here
      BY <1>1, <2>2, <3>2
    <3> QED BY <1>8, <1>11, <3>1, <3>2, <3>3
  <2> QED BY <2>1, <2>2
<1>13. Stamped'
  <2> SUFFICES ASSUME NEW k \in PairsInUse PROVE StampedBy(IpTables'[k], last')
    BY <1>5 DEF Stamped, PairsInUse, StampedBy
  <2>1. CASE k = here
    <3>1. now \in 0..last'[ip] /\ last'[ip] # Never
      BY <1>4, NeverAssumption, NumbersAssumption DEF IpIInv, IpTypeOK
    <3> QED BY <1>6, <1>8, <2>1, <3>1 DEF StampedBy
  <2>2. CASE k # here
    <3>1. IpTables'[k] = IpTables[k] /\ StampedBy(IpTables[k], last)
      BY <1>8, <1>11, <2>2 DEF IpIInv, Stamped
    <3> QED BY <1>4, <3>1
  <2> QED BY <2>1, <2>2
<1> QED BY <1>9, <1>10, <1>12, <1>13 DEF IpIInv

\* The purge leaves an empty table of the first capacity, and nothing to remember.
LEMMA PurgeStep ==
  ASSUME IpIInv, IpSecurityMantenimientoLista
  PROVE  IpIInv'
<1>1. /\ MaxValue' = 0 /\ Multiplicado' = 1 /\ EntrysCounter' = Base /\ now' = now
      /\ IpTables' = [k \in 0..Base |-> Empty] /\ last' = [ip \in Ips |-> Never]
  BY BaseOf DEF IpSecurityMantenimientoLista, BaseCapacity, IpIInv
<1>2. 0 \in 0..MaxEntries /\ 0 \in -Half .. Half - 1 /\ Base * 1 = Base /\ Base \in Nat
  BY NumbersAssumption
<1>3. Empty \in [ip : Ips \union {0}, tick : -Half .. Half - 1]
  BY <1>2 DEF Empty
<1>4. IpTypeOK'
  BY <1>1, <1>2, <1>3 DEF IpTypeOK, IpIInv
<1>5. Zeroed'
  BY <1>1, <1>2 DEF Zeroed, Empty
<1>6. LastAdmissionStands' /\ Stamped'
  BY <1>1 DEF LastAdmissionStands, Stamped, PairsInUse
<1> QED BY <1>4, <1>5, <1>6 DEF IpIInv

LEMMA TimeStep ==
  ASSUME IpIInv, TimePasses
  PROVE  IpIInv'
<1>1. /\ MaxValue' = MaxValue /\ EntrysCounter' = EntrysCounter /\ Multiplicado' = Multiplicado
      /\ IpTables' = IpTables /\ last' = last /\ now' = now + 1 /\ now < MaxNow
  BY DEF TimePasses, table
<1>2. now \in 0..MaxNow /\ MaxNow \in Nat /\ last \in [Ips -> 0..now \union {Never}]
  BY NumbersAssumption DEF IpIInv, IpTypeOK
<1>3. now' \in 0..MaxNow /\ 0..now \subseteq 0..now'
  BY <1>1, <1>2
<1>4. last' \in [Ips -> 0..now' \union {Never}]
  BY <1>1, <1>2, <1>3
<1>5. IpTypeOK'
  BY <1>1, <1>3, <1>4 DEF IpIInv, IpTypeOK
<1> QED BY <1>1, <1>5 DEF IpIInv, Zeroed, LastAdmissionStands, Stamped, StampedBy, PairsInUse, Empty

LEMMA SameStep ==
  ASSUME IpIInv, UNCHANGED ipVars
  PROVE  IpIInv'
BY DEF IpIInv, ipVars, IpTypeOK, Zeroed, LastAdmissionStands, Stamped, StampedBy, PairsInUse, Empty

LEMMA IpNextHolds == IpIInv /\ [IpNext]_ipVars => IpIInv'
<1> SUFFICES ASSUME IpIInv, [IpNext]_ipVars PROVE IpIInv'
  OBVIOUS
<1>1. ASSUME NEW ip \in Ips, AcceptNew(ip) PROVE IpIInv'
  BY <1>1, AcceptNewStep
<1>2. ASSUME NEW ip \in Ips, AcceptAgain(ip) PROVE IpIInv'
  BY <1>2, AcceptAgainStep
<1>3. ASSUME NEW ip \in Ips, Refuse(ip) PROVE IpIInv'
  <2>1. UNCHANGED ipVars
    BY <1>3 DEF Refuse, LeavesTick, ipVars
  <2> QED BY <2>1, SameStep
<1>4. ASSUME NEW ip \in Ips, Throw(ip) PROVE IpIInv'
  BY <1>4, SameStep DEF Throw
<1>5. CASE IpSecurityMantenimientoLista
  BY <1>5, PurgeStep
<1>6. CASE TimePasses
  BY <1>6, TimeStep
<1>7. CASE UNCHANGED ipVars
  BY <1>7, SameStep
<1> QED BY <1>1, <1>2, <1>3, <1>4, <1>5, <1>6, <1>7 DEF IpNext

\* The strengthened invariant of the throttle holds always: types and capacity,
\* zeros out of use, and every pair in use stamped by an admission.
THEOREM IpInvariant == IpSpec => []IpIInv
BY IpInitHolds, IpNextHolds, PTL DEF IpSpec

\* The table never leaves its array, whatever insertions out of order and
\* maintenances came before, and every search of an address ends inside the pairs
\* in use when it finds one (FindTableIp, AddNewIpIntervalo).
THEOREM TableIsSound == IpSpec => []TableSound
<1>1. IpIInv => TableSound
  BY SearchInBounds DEF IpIInv, TableSound
<1> QED BY <1>1, IpInvariant, PTL

\* No move of the pairs, growth or insertion loses an address's last admission.
THEOREM AdmissionsStand == IpSpec => []LastAdmissionStands
<1>1. IpIInv => LastAdmissionStands
  BY DEF IpIInv
<1> QED BY <1>1, IpInvariant, PTL

\* The bisection, started one pair too high, finds every address in a sorted table
\* of any size.
THEOREM SortedTablesFind == IpSpec => []SortedFinds
<1>1. IpIInv => SortedFinds
  BY SearchInBounds DEF IpIInv, Finds
<1> QED BY <1>1, IpInvariant, PTL

\* A refusal is within the interval of a later or the same admission of the address,
\* or the ticks changed sign since: stored ticks never come from anywhere else.
LEMMA RefusalsExplained == IpIInv => RefusalHasCause
<1> SUFFICES ASSUME IpIInv, NEW ip \in Ips, Known(ip), ~Elapsed(ip), ~(now >= Half /\ LastTicks(ip) >= 0)
             PROVE  last[ip] # Never /\ now - last[ip] < Interval
  BY DEF RefusalHasCause
<1> DEFINE here == FindTableIp(ip).at
           tick == IpTables[here].tick
<1>1. here \in PairsInUse /\ IpTables[here].ip = ip
  BY SearchInBounds DEF IpIInv, InBounds, Finds
<1>2. StampedBy(IpTables[here], last)
  BY <1>1 DEF IpIInv, Stamped
<1>3. last[ip] # Never
  BY <1>1, <1>2 DEF StampedBy
<1>4. PICK t \in 0..last[ip] : tick = Stamp(t)
  BY <1>1, <1>2 DEF StampedBy
<1>5. ~(tick + Interval <= Stamp(now)) /\ ~(now >= Half /\ tick >= 0)
  BY NowStamped DEF Elapsed, LastTicks, IpIInv
<1> HIDE DEF here, tick
<1>6. last[ip] \in 0..now /\ now \in Nat /\ Half \in Nat /\ Interval \in Nat /\ now < 2 * Half
  BY <1>3, NumbersAssumption DEF IpIInv, IpTypeOK
<1> DEFINE l == last[ip]
<1> HIDE DEF l
<1>7. t \in Nat /\ l \in Nat /\ t <= l /\ l <= now
  BY <1>4, <1>6 DEF l
<1>8. CASE now < Half
  <2>1. tick = t /\ Stamp(now) = now
    BY <1>4, <1>6, <1>7, <1>8 DEF Stamp
  <2>2. now - l < Interval
    BY <1>5, <1>6, <1>7, <2>1
  <2> QED BY <1>3, <2>2 DEF l
<1>9. CASE ~(now < Half)
  <2>1. Stamp(now) = now - 2 * Half
    BY <1>9 DEF Stamp
  <2>2. ~(t < Half) /\ tick = t - 2 * Half
    BY <1>4, <1>5, <1>6, <1>7, <1>9 DEF Stamp
  <2>3. now - l < Interval
    BY <1>5, <1>6, <1>7, <2>1, <2>2
  <2> QED BY <1>3, <2>3 DEF l
<1> QED BY <1>8, <1>9

\* No address is refused for nothing: only within its interval, or in the half of the
\* clock in which the signed comparison with an older tick cannot succeed.
THEOREM RefusalsHaveCause == IpSpec => []RefusalHasCause
BY RefusalsExplained, IpInvariant, PTL

================================================================================
