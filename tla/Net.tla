---------------------------------- MODULE Net ----------------------------------
(***************************************************************************)
(* The network layer of the server: TCP.cpp, a single-threaded asio        *)
(* io_context polled by the game loop.  A connection occupies a slot of    *)
(* UserList; the completion handlers of its reads and writes capture only  *)
(* the INDEX of the slot, so a completion that is still queued when the    *)
(* slot changes hands is delivered to the new occupant.                    *)
(*                                                                         *)
(* The socket accepted n-th by the kernel is identified here by n: the     *)
(* code cannot see that number, it is what completions and bytes are       *)
(* tagged with in order to state the properties.  ConnID is the number the *)
(* code gives (s_next_conn_id, which starts again after a restart).        *)
(*                                                                         *)
(* The thread runs one thing at a time: "poll" (PollRed draining the ready *)
(* queue), "handler" (the packet handler called by HandleRead for slot     *)
(* at), "tick" and "restart" (the loops over the slots of                  *)
(* PasarSegundoUsuarios and WSApiReiniciarSockets), or "idle" (the rest of *)
(* the game loop).  Game code runs in "idle" and in "handler".             *)
(***************************************************************************)
EXTENDS Integers, Sequences, FiniteSets

CONSTANTS
  MaxUsers,                \* number of slots
  IntervaloCerrarConexion, \* seconds a character stays after it leaves a PK map
  MaxQueue,                \* MAX_OUTGOING_BUFFER_SIZE, in chunks
  MaxConn                  \* bound: connections the clients open in a behaviour

ASSUME NetAssumption ==
  /\ MaxUsers \in Nat \ {0}
  /\ IntervaloCerrarConexion \in Nat \ {0}
  /\ MaxQueue \in Nat
  /\ MaxConn \in Nat

VARIABLES
  user,        \* UserList, by slot
  net,         \* s_client_sockets and s_client_write_queues, by slot
  sockToSlot,  \* s_sock_to_slot, a partial function from ConnID to slot
  nextConnId,  \* s_next_conn_id
  ready,       \* completed operations whose handler has not run (FIFO)
  NumUsers,
  LastUser,
  pc,          \* what the thread is doing
  at,          \* the slot the current loop or packet handler is at
  accepted     \* number of connections the kernel has accepted

vars == <<user, net, sockToSlot, nextConnId, ready, NumUsers, LastUser, pc, at, accepted>>

Slots == 1..MaxUsers
NoConn == -1
NoSocket == 0

UserRecord ==
  [ConnID : {NoConn} \union (Nat \ {0}), ConnIDValida : BOOLEAN,
   UserLogged : BOOLEAN, Saliendo : BOOLEAN, Salir : Nat,
   incomingData : SUBSET Nat]      \* the connections whose bytes are in the buffer

NetRecord ==
  [socket : Nat,                   \* the socket in s_client_sockets, or NoSocket
   reads : Nat, writes : Nat,      \* operations of the socket in progress
   queue : Nat,                    \* number of outgoing chunks
   is_writing : BOOLEAN]

Completion == [op : {"read", "write", "accept"}, slot : Nat, conn : Nat, ok : BOOLEAN]

FreshSlot ==
  [ConnID |-> NoConn, ConnIDValida |-> FALSE, UserLogged |-> FALSE,
   Saliendo |-> FALSE, Salir |-> 0, incomingData |-> {}]

NoNet ==
  [socket |-> NoSocket, reads |-> 0, writes |-> 0, queue |-> 0, is_writing |-> FALSE]

Init ==
  /\ user = [s \in Slots |-> FreshSlot]
  /\ net = [s \in Slots |-> NoNet]
  /\ sockToSlot = [k \in {} |-> 0]
  /\ nextConnId = 1
  /\ ready = <<>>
  /\ NumUsers = 0
  /\ LastUser = 0
  /\ pc = "idle"
  /\ at = 1
  /\ accepted = 0

-------------------------------------------------------------------------------
(* Operations on one slot *)

\* The aborted completions that cancelling and closing a socket posts.
Aborted(s) ==
  LET post(op, n) == [i \in 1..n |-> [op |-> op, slot |-> s, conn |-> net[s].socket, ok |-> FALSE]]
  IN  post("read", net[s].reads) \o post("write", net[s].writes)

\* (Mutant of the next definition: the outgoing queue survives the connection.)
ClosedNetKeepingQueue(s) == [NoNet EXCEPT !.queue = net[s].queue]

\* What CloseSocketSL leaves of the socket and the write queue of a slot ...
ClosedNet(s) == NoNet

\* ... and of its UserList record: the connection goes, the character stays.
ClosedSL(r) == [r EXCEPT !.ConnID = NoConn, !.ConnIDValida = FALSE]

\* (Mutant: the entry is forgotten in the map.)
SockToSlotKept(s) == sockToSlot

\* BorraSlotSock, for the connection of slot s.
SockToSlotWithout(s) ==
  [k \in DOMAIN sockToSlot \ {user[s].ConnID} |-> sockToSlot[k]]

\* (Mutant: only the characters on unsafe maps start to leave.)
LeavingIfPk(r, pk) ==
  IF r.UserLogged /\ ~r.Saliendo /\ pk
  THEN [r EXCEPT !.Saliendo = TRUE, !.Salir = IntervaloCerrarConexion]
  ELSE r

\* CerrarUsuario on the record of a slot; pk: a regular user on an unsafe map.
Leaving(r, pk) ==
  IF r.UserLogged /\ ~r.Saliendo
  THEN [r EXCEPT !.Saliendo = TRUE, !.Salir = IF pk THEN IntervaloCerrarConexion ELSE 0]
  ELSE r

\* ResetUserSlot after CloseSocketSL, and the drained incomingData.
Reset(r) ==
  [ClosedSL(r) EXCEPT !.UserLogged = FALSE, !.Saliendo = FALSE, !.Salir = 0,
                      !.incomingData = {}]

\* The closing of slot s takes LastUser down to the next logged slot.
LastUserAfter(s) ==
  IF s # LastUser THEN UNCHANGED LastUser
  ELSE /\ LastUser' \in 0..(s - 1)
       /\ LastUser' > 0 => user[LastUser'].UserLogged
       /\ \A t \in (LastUser' + 1)..(s - 1) : ~user[t].UserLogged

\* NumUsers after the closing of slot s; its mutant counts connections
\* that never logged in.
NumUsersAfterAnyClose(s) == IF NumUsers > 0 THEN NumUsers - 1 ELSE NumUsers

NumUsersAfter(s) == IF user[s].UserLogged /\ NumUsers > 0 THEN NumUsers - 1 ELSE NumUsers

\* CloseSocket(s): called with what is left of the ready queue.
CloseSocket(s, rest) ==
  /\ ready' = rest \o Aborted(s)
  /\ sockToSlot' = SockToSlotWithout(s)
  /\ LastUserAfter(s)
  /\ NumUsers' = NumUsersAfter(s)
  /\ user' = [user EXCEPT ![s] = Reset(@)]
  /\ net' = [net EXCEPT ![s] = ClosedNet(s)]

\* What every error path does: a logged character stays to leave in its own
\* time, a connection without character is closed at once.
Disconnect(s, rest) ==
  \/ /\ user[s].UserLogged
     /\ \E pk \in BOOLEAN : user' = [user EXCEPT ![s] = Leaving(ClosedSL(@), pk)]
     /\ net' = [net EXCEPT ![s] = ClosedNet(s)]
     /\ ready' = rest \o Aborted(s)
     /\ sockToSlot' = SockToSlotWithout(s)
     /\ UNCHANGED <<NumUsers, LastUser>>
  \/ /\ ~user[s].UserLogged
     /\ CloseSocket(s, rest)

\* A slot is open when it has neither a connection nor a character; the mutant
\* forgets the characters that lost their connection.
IsOpenWithoutConn(s) == user[s].ConnID = NoConn

IsOpen(s) == user[s].ConnID = NoConn /\ ~user[s].UserLogged

\* NextOpenUser returns s: the first open slot (MaxUsers + 1 when there is none).
NextOpenUser(s) == IsOpen(s) /\ \A t \in 1..(s - 1) : ~IsOpen(t)

-------------------------------------------------------------------------------
(* The kernel and asio: operations complete while the thread polls *)

\* A client connects and the pending async_accept completes (one at a time).
KernelAccepts ==
  /\ pc = "poll"
  /\ accepted < MaxConn
  /\ \A i \in 1..Len(ready) : ready[i].op # "accept"
  /\ accepted' = accepted + 1
  /\ ready' = Append(ready, [op |-> "accept", slot |-> 0, conn |-> accepted + 1, ok |-> TRUE])
  /\ UNCHANGED <<user, net, sockToSlot, nextConnId, NumUsers, LastUser, pc, at>>

\* A read of slot s completes with data, or fails (end of file, reset).
KernelReads(s) ==
  /\ pc = "poll"
  /\ net[s].reads > 0
  /\ net' = [net EXCEPT ![s].reads = @ - 1]
  /\ \E ok \in BOOLEAN :
       ready' = Append(ready, [op |-> "read", slot |-> s, conn |-> net[s].socket, ok |-> ok])
  /\ UNCHANGED <<user, sockToSlot, nextConnId, NumUsers, LastUser, pc, at, accepted>>

\* A write of slot s completes, or fails.
KernelWrites(s) ==
  /\ pc = "poll"
  /\ net[s].writes > 0
  /\ net' = [net EXCEPT ![s].writes = @ - 1]
  /\ \E ok \in BOOLEAN :
       ready' = Append(ready, [op |-> "write", slot |-> s, conn |-> net[s].socket, ok |-> ok])
  /\ UNCHANGED <<user, sockToSlot, nextConnId, NumUsers, LastUser, pc, at, accepted>>

-------------------------------------------------------------------------------
(* PollRed and the completion handlers *)

PollStart ==
  /\ pc = "idle"
  /\ pc' = "poll"
  /\ UNCHANGED <<user, net, sockToSlot, nextConnId, ready, NumUsers, LastUser, at, accepted>>

PollEnd ==
  /\ pc = "poll"
  /\ ready = <<>>
  /\ pc' = "idle"
  /\ UNCHANGED <<user, net, sockToSlot, nextConnId, ready, NumUsers, LastUser, at, accepted>>

\* The next completion to handle is one of operation op.
NextIs(op) == pc = "poll" /\ ready # <<>> /\ Head(ready).op = op

\* HandleAccept refuses: the anti-flood filter or no free slot.
HandleAcceptRefused ==
  /\ NextIs("accept")
  /\ ready' = Tail(ready)
  /\ UNCHANGED <<user, net, sockToSlot, nextConnId, NumUsers, LastUser, pc, at, accepted>>

\* What HandleAccept writes in the records of the slot.
Connected(r, id) == [r EXCEPT !.ConnID = id, !.ConnIDValida = TRUE, !.incomingData = {}]

Attached(r, conn) ==
  [r EXCEPT !.queue = 0, !.is_writing = FALSE, !.socket = conn, !.reads = @ + 1]

\* HandleAccept: the connection takes the first free slot and starts to read.
HandleAccept(s) ==
  /\ NextIs("accept")
  /\ NextOpenUser(s)
  /\ user' = [user EXCEPT ![s] = Connected(@, nextConnId)]
  /\ net' = [net EXCEPT ![s] = Attached(@, Head(ready).conn)]
  /\ sockToSlot' = [k \in DOMAIN sockToSlot \union {nextConnId} |->
                      IF k = nextConnId THEN s ELSE sockToSlot[k]]
  /\ nextConnId' = nextConnId + 1
  /\ ready' = Tail(ready)
  /\ UNCHANGED <<NumUsers, LastUser, pc, at, accepted>>

\* HandleRead ignores a completion whose slot has no connection any more.
HandleReadIgnored ==
  /\ NextIs("read")
  /\ LET s == Head(ready).slot IN net[s].socket = NoSocket \/ user[s].ConnID = NoConn
  /\ ready' = Tail(ready)
  /\ UNCHANGED <<user, net, sockToSlot, nextConnId, NumUsers, LastUser, pc, at, accepted>>

\* HandleRead with data: the bytes go to incomingData and the packet handler runs.
HandleReadData ==
  /\ NextIs("read")
  /\ Head(ready).ok
  /\ LET s == Head(ready).slot
     IN  /\ net[s].socket # NoSocket
         /\ user[s].ConnID # NoConn
         /\ user' = [user EXCEPT ![s].incomingData = @ \union {Head(ready).conn}]
         /\ at' = s
  /\ pc' = "handler"
  /\ ready' = Tail(ready)
  /\ UNCHANGED <<net, sockToSlot, nextConnId, NumUsers, LastUser, accepted>>

\* The packet handler returns to HandleRead, which reads again (IniciarLectura).
HandlerReturns ==
  /\ pc = "handler"
  /\ pc' = "poll"
  /\ net' = [net EXCEPT ![at].reads = IF net[at].socket = NoSocket THEN @ ELSE @ + 1]
  /\ UNCHANGED <<user, sockToSlot, nextConnId, ready, NumUsers, LastUser, at, accepted>>

\* HandleRead with an error or an end of file.
HandleReadError ==
  /\ NextIs("read")
  /\ ~Head(ready).ok
  /\ LET s == Head(ready).slot
     IN  /\ net[s].socket # NoSocket
         /\ user[s].ConnID # NoConn
         /\ Disconnect(s, Tail(ready))
  /\ UNCHANGED <<nextConnId, pc, at, accepted>>

\* HandleWrite with an error: it looks at nothing but the slot.
HandleWriteError ==
  /\ NextIs("write")
  /\ ~Head(ready).ok
  /\ Disconnect(Head(ready).slot, Tail(ready))
  /\ UNCHANGED <<nextConnId, pc, at, accepted>>

\* The record of a slot after HandleWrite took a chunk from its queue and DoWrite
\* sent the next one; the mutant marks the queue idle with chunks left in it.
Popped(r) == IF r.queue = 0 THEN 0 ELSE r.queue - 1

WrittenOnce(r) == [r EXCEPT !.queue = Popped(r), !.is_writing = FALSE]

Written(r) ==
  LET more == Popped(r) > 0 /\ r.socket # NoSocket
  IN  [r EXCEPT !.queue = Popped(r), !.is_writing = more /\ @,
                !.writes = IF more THEN @ + 1 ELSE @]

\* HandleWrite: the chunk is done.
HandleWriteOk ==
  /\ NextIs("write")
  /\ Head(ready).ok
  /\ net' = [net EXCEPT ![Head(ready).slot] = Written(@)]
  /\ ready' = Tail(ready)
  /\ UNCHANGED <<user, sockToSlot, nextConnId, NumUsers, LastUser, pc, at, accepted>>

-------------------------------------------------------------------------------
(* Game code: in the game loop or in a packet handler *)

GameCode == pc \in {"idle", "handler"}

\* ConnectUser: the connection that sent the packet gets its character.
Login ==
  /\ pc = "handler"
  /\ user[at].ConnIDValida
  /\ ~user[at].UserLogged
  /\ user' = [user EXCEPT ![at].UserLogged = TRUE]
  /\ NumUsers' = NumUsers + 1
  /\ UNCHANGED <<net, sockToSlot, nextConnId, ready, LastUser, pc, at, accepted>>

\* The packet handler consumes the bytes received so far.
ReadPacket ==
  /\ pc = "handler"
  /\ user' = [user EXCEPT ![at].incomingData = {}]
  /\ UNCHANGED <<net, sockToSlot, nextConnId, ready, NumUsers, LastUser, pc, at, accepted>>

\* CerrarUsuario: /salir, or the idle timeout of the game loop.
CerrarUsuario(s) ==
  /\ GameCode
  /\ \E pk \in BOOLEAN : user' = [user EXCEPT ![s] = Leaving(@, pk)]
  /\ UNCHANGED <<net, sockToSlot, nextConnId, ready, NumUsers, LastUser, pc, at, accepted>>

\* What CancelExit does to the countdown of a record.
Staying(r) == [r EXCEPT !.Saliendo = FALSE, !.Salir = 0]

Postponed(r, pk) == [r EXCEPT !.Salir = IF pk THEN IntervaloCerrarConexion ELSE 0]

\* (Mutant: the exit is cancelled with the connection lost too.)
CancelExitAlways(s) ==
  /\ GameCode
  /\ user[s].Saliendo
  /\ user' = [user EXCEPT ![s] = Staying(@)]
  /\ UNCHANGED <<net, sockToSlot, nextConnId, ready, NumUsers, LastUser, pc, at, accepted>>

\* CancelExit: the user moves or is attacked.  Without a connection the
\* countdown starts again instead (entry #52 of KNOWN-LEGACY-BUGS.md).
CancelExit(s) ==
  /\ GameCode
  /\ user[s].Saliendo
  /\ \/ /\ user[s].ConnIDValida
        /\ user' = [user EXCEPT ![s] = Staying(@)]
     \/ /\ ~user[s].ConnIDValida
        /\ \E pk \in BOOLEAN : user' = [user EXCEPT ![s] = Postponed(@, pk)]
  /\ UNCHANGED <<net, sockToSlot, nextConnId, ready, NumUsers, LastUser, pc, at, accepted>>

\* CloseSocket by the game: a kick, a ban, a refused login.
Kick(s) ==
  /\ GameCode
  /\ CloseSocket(s, ready)
  /\ UNCHANGED <<nextConnId, pc, at, accepted>>

\* EnviarDatosASlot to a slot with a connection.
CanSend(s) == user[s].ConnIDValida /\ user[s].ConnID # NoConn /\ net[s].socket # NoSocket

\* The record of a slot with one more chunk; start: DoWrite leaves a write in progress.
Queued(r, start) ==
  [r EXCEPT !.queue = @ + 1, !.is_writing = TRUE, !.writes = IF start THEN @ + 1 ELSE @]

\* The queue has room: DoWrite starts unless a write is in progress.  The write
\* may complete on the spot (immediate), its handler still runs in the next poll.
Send(s) ==
  /\ GameCode
  /\ CanSend(s)
  /\ net[s].queue < MaxQueue
  /\ \E immediate \in IF net[s].is_writing THEN {FALSE} ELSE BOOLEAN :
       /\ net' = [net EXCEPT ![s] = Queued(@, ~net[s].is_writing /\ ~immediate)]
       /\ ready' = IF immediate
                   THEN Append(ready, [op |-> "write", slot |-> s,
                                       conn |-> net[s].socket, ok |-> TRUE])
                   ELSE ready
  /\ UNCHANGED <<user, sockToSlot, nextConnId, NumUsers, LastUser, pc, at, accepted>>

\* The queue is full: the client is disconnected (backpressure, bug #19).
SendOverflow(s) ==
  /\ GameCode
  /\ CanSend(s)
  /\ net[s].queue >= MaxQueue
  /\ Disconnect(s, ready)
  /\ UNCHANGED <<nextConnId, pc, at, accepted>>

-------------------------------------------------------------------------------
(* PasarSegundoUsuarios, once a second, and WSApiReiniciarSockets *)

Expires(r) == r.Salir <= 1

Counted(r) == [r EXCEPT !.Salir = @ - 1]

TickStart ==
  /\ pc = "idle"
  /\ pc' = "tick"
  /\ at' = 1
  /\ UNCHANGED <<user, net, sockToSlot, nextConnId, ready, NumUsers, LastUser, accepted>>

\* The body of the loop for slot at: count down, close at zero.
TickSlot ==
  /\ pc = "tick"
  /\ at \in Slots
  /\ LET leaving == user[at].UserLogged /\ user[at].Saliendo
     IN  \/ /\ leaving /\ ~Expires(user[at])
            /\ user' = [user EXCEPT ![at] = Counted(@)]
            /\ UNCHANGED <<net, sockToSlot, ready, NumUsers, LastUser>>
         \/ /\ leaving /\ Expires(user[at])
            /\ CloseSocket(at, ready)
         \/ /\ ~leaving
            /\ UNCHANGED <<user, net, sockToSlot, ready, NumUsers, LastUser>>
  /\ at' = at + 1
  /\ UNCHANGED <<nextConnId, pc, accepted>>

TickEnd ==
  /\ pc = "tick"
  /\ at = MaxUsers + 1
  /\ pc' = "idle"
  /\ at' = 1
  /\ UNCHANGED <<user, net, sockToSlot, nextConnId, ready, NumUsers, LastUser, accepted>>

\* A slot WSApiReiniciarSockets has to close; the mutant misses the characters
\* that lost their connection.
InUseByConn(s) == user[s].ConnID # NoConn \/ user[s].ConnIDValida

InUse(s) == user[s].ConnID # NoConn \/ user[s].ConnIDValida \/ user[s].UserLogged

RestartStart ==
  /\ pc = "idle"
  /\ pc' = "restart"
  /\ at' = 1
  /\ UNCHANGED <<user, net, sockToSlot, nextConnId, ready, NumUsers, LastUser, accepted>>

\* The body of the loop: every slot in use is closed.
RestartSlot ==
  /\ pc = "restart"
  /\ at \in Slots
  /\ \/ /\ InUse(at)
        /\ CloseSocket(at, ready)
     \/ /\ ~InUse(at)
        /\ UNCHANGED <<user, net, sockToSlot, ready, NumUsers, LastUser>>
  /\ at' = at + 1
  /\ UNCHANGED <<nextConnId, pc, accepted>>

\* DetenerServidor, which destroys the io_context with its ready queue and
\* starts the ConnIDs again, and IniciaServidor on the same port.
RestartEnd ==
  /\ pc = "restart"
  /\ at = MaxUsers + 1
  /\ pc' = "idle"
  /\ at' = 1
  /\ ready' = <<>>
  /\ sockToSlot' = [k \in {} |-> 0]
  /\ nextConnId' = 1
  /\ net' = [s \in Slots |-> NoNet]
  /\ UNCHANGED <<user, NumUsers, LastUser, accepted>>

-------------------------------------------------------------------------------
Kernel == KernelAccepts \/ \E s \in Slots : KernelReads(s) \/ KernelWrites(s)

Handle ==
  \/ HandleAcceptRefused \/ \E s \in Slots : HandleAccept(s)
  \/ HandleReadIgnored \/ HandleReadData \/ HandleReadError
  \/ HandleWriteError \/ HandleWriteOk

Game ==
  \/ Login
  \/ ReadPacket
  \/ \E s \in Slots :
       CerrarUsuario(s) \/ CancelExit(s) \/ Kick(s) \/ Send(s) \/ SendOverflow(s)

Next ==
  \/ PollStart \/ PollEnd \/ Kernel \/ Handle \/ HandlerReturns \/ Game
  \/ TickStart \/ TickSlot \/ TickEnd
  \/ RestartStart \/ RestartSlot \/ RestartEnd

Spec == Init /\ [][Next]_vars

\* The loops of the thread run on; the game loop polls and ticks again and
\* again, and the network has lulls in which a poll runs out of work.
Fairness ==
  /\ WF_vars(Handle)
  /\ WF_vars(HandlerReturns)
  /\ WF_vars(TickSlot \/ TickEnd)
  /\ WF_vars(RestartSlot \/ RestartEnd)
  /\ SF_vars(PollEnd)
  /\ SF_vars(TickStart)
  /\ SF_vars(PollStart)

FairSpec == Spec /\ Fairness

-------------------------------------------------------------------------------
(* Properties *)

\* Every variable holds a value of its kind.
TypeOK ==
  /\ user \in [Slots -> UserRecord]
  /\ net \in [Slots -> NetRecord]
  /\ sockToSlot \in [DOMAIN sockToSlot -> Slots]
  /\ nextConnId \in Nat \ {0}
  /\ ready \in Seq(Completion)
  /\ NumUsers \in Nat
  /\ LastUser \in Nat
  /\ pc \in {"idle", "poll", "handler", "tick", "restart"}
  /\ at \in 1..(MaxUsers + 1)
  /\ accepted \in Nat

\* s_sock_to_slot and the ConnIDs of the slots are the two directions of one
\* relation: no entry outlives its connection, no two slots share a ConnID, also
\* when WSApiReiniciarSockets starts the numbering again.
SockMapOK ==
  /\ DOMAIN sockToSlot = {user[s].ConnID : s \in Slots} \ {NoConn}
  /\ \A s \in Slots : user[s].ConnID # NoConn => sockToSlot[user[s].ConnID] = s

\* A slot without connection holds nothing of the network: CloseSocketSL left no
\* socket, no operation in progress and no chunk for the next occupant.
NetReleased ==
  \A s \in Slots :
    user[s].ConnID = NoConn =>
      /\ ~user[s].ConnIDValida
      /\ net[s] = NoNet

\* A character without connection is on its way out: every path that drops the
\* socket of a logged user starts the countdown and CancelExit never stops it,
\* so that PasarSegundoUsuarios can free the slot.
DroppedIsLeaving ==
  \A s \in Slots : user[s].UserLogged /\ user[s].ConnID = NoConn => user[s].Saliendo

\* NumUsers counts the characters in the game, across every way of closing a slot.
NumUsersExact == NumUsers = Cardinality({s \in Slots : user[s].UserLogged})

\* A queue of chunks is always being pushed out: a write of the socket is in
\* progress or its completion is waiting (no chunk is left behind by HandleWrite).
NoStall ==
  \A s \in Slots :
    net[s].queue > 0 =>
      /\ net[s].is_writing
      /\ \/ net[s].writes > 0
         \/ \E i \in 1..Len(ready) :
              /\ ready[i].op = "write" /\ ready[i].slot = s
              /\ ready[i].conn = net[s].socket

\* WSApiReiniciarSockets leaves every slot free, those of the characters that
\* were waiting to leave without a connection too, and nobody counted as online.
RestartFreesAll ==
  [][pc = "restart" /\ pc' = "idle"
       => NumUsers' = 0 /\ \A s \in Slots : user'[s].ConnID = NoConn /\ ~user'[s].UserLogged]_vars

\* The phase of a slot with record r, in the terms of SlotLife.
Phase(r) ==
  CASE ~r.UserLogged /\ r.ConnID = NoConn -> "free"
    [] ~r.UserLogged /\ r.ConnID # NoConn -> "connected"
    [] r.UserLogged /\ r.ConnID = NoConn -> "limbo"
    [] r.UserLogged /\ r.ConnID # NoConn /\ r.Saliendo -> "leaving"
    [] r.UserLogged /\ r.ConnID # NoConn /\ ~r.Saliendo -> "playing"

Life == INSTANCE SlotLife WITH phase <- [s \in Slots |-> Phase(user[s])]

\* Slots live as SlotLife says: in particular NextOpenUser never gives the slot of
\* a character that lost its connection to a new one.
ImplementsSlotLife == Life!Spec

\* A character without connection is eventually freed, unless it is attacked
\* (CancelExit) for ever: no other interleaving of closings, stale completions
\* and ticks keeps it in the world.
DroppedIsFreed ==
  \A s \in Slots :
    <>[][~CancelExit(s)]_vars =>
      ((user[s].UserLogged /\ user[s].ConnID = NoConn)
         ~> ~(user[s].UserLogged /\ user[s].ConnID = NoConn))

\* What the tests and documents say, and the code does not do:

\* tests/test_tcp.cpp, "Aislamiento Multicliente": what is in the incoming buffer
\* of a slot was sent by the client connected to it.
ReceivedIsOwn ==
  \A s \in Slots : net[s].socket # NoSocket => user[s].incomingData \subseteq {net[s].socket}

\* docs/audit/02d-modsenddata-detalle.md: the broadcasts, which loop from 1 to
\* LastUser, reach every character with a connection.
LastUserCovers ==
  \A s \in Slots : user[s].UserLogged /\ user[s].ConnID # NoConn => s <= LastUser

\* KNOWN-LEGACY-BUGS.md, entry #52: the character of a lost connection stays for
\* 10 more seconds, so it is freed in the end.
DroppedIsFreedAnyway ==
  \A s \in Slots :
    (user[s].UserLogged /\ user[s].ConnID = NoConn)
       ~> ~(user[s].UserLogged /\ user[s].ConnID = NoConn)
================================================================================
