-------------------------------- MODULE IpTable --------------------------------
(***************************************************************************)
(* The throttle of connections by address (SecurityIp.cpp): a table of     *)
(* pairs of an address and the tick of its last admission, searched by     *)
(* bisection, grown by steps of its first capacity and emptied by the      *)
(* hourly maintenance.                                                     *)
(*                                                                         *)
(* IpTables of the code is an array of 2 * EntrysCounter + 1 longs.  Here  *)
(* it is a function on 0..EntrysCounter from numbers of pairs to pairs;    *)
(* the tick of the last pair has no place in the array.  Ticks are kept in *)
(* signed integers of 2 * Half values, as the 32 bits of the code; `now`   *)
(* is the time itself, which never wraps.                                  *)
(***************************************************************************)
EXTENDS Integers

CONSTANTS
  Ips,        \* addresses, as signed integers
  Base,       \* OptCountersValue, the first capacity
  Interval,   \* IntervaloEntreConexiones
  Half,       \* 2^31: ticks are in -Half..(Half - 1)
  MaxNow,     \* bound: the time stops here
  MaxEntries, \* bound: no more insertions than these between purges
  Never       \* no admission since the last purge

ASSUME IpsAssumption == Ips \subseteq Int \ {0}
ASSUME NumbersAssumption ==
  /\ Base \in Nat \ {0} /\ Interval \in Nat \ {0} /\ MaxEntries \in Nat
  /\ Half \in Nat /\ Half > Interval
  /\ MaxNow \in Nat /\ MaxNow < 2 * Half
ASSUME NeverAssumption == Never \notin Int

VARIABLES
  IpTables,      \* the pairs
  MaxValue,      \* how many of them are in use
  EntrysCounter, \* capacity
  Multiplicado,  \* how many times Base it is
  now,           \* time in milliseconds
  last           \* auxiliary: when each address was last admitted since the purge

ipVars == <<IpTables, MaxValue, EntrysCounter, Multiplicado, now, last>>
table == <<IpTables, MaxValue, EntrysCounter, Multiplicado>>

Empty == [ip |-> 0, tick |-> 0]

\* InitIpTables, of the code.
InitIpTables ==
  /\ EntrysCounter = Base
  /\ Multiplicado = 1
  /\ MaxValue = 0
  /\ IpTables = [k \in 0..Base |-> Empty]
  /\ now = 0
  /\ last = [ip \in Ips |-> Never]

\* static_cast<int32_t>(g_TimeSource()).
Ticks == IF now < Half THEN now ELSE now - 2 * Half

\* A plausible bug: arrays counted from one.
SecondPair == 1
FirstPair == 0

\* What the loop of FindTableIp keeps: the bounds, and the pair it looked at last.
Search == [First : 0 .. MaxValue + 1, Last : -1 .. MaxValue, Middle : 0..MaxValue]

\* FindTableIp: whether ip was found, and the pair the bisection looked at last.
\* It starts with one pair more than the ones in use.
FindTableIp(ip) ==
  LET find[s \in Search] ==
        LET m == (s.First + s.Last) \div 2
        IN  IF s.First > s.Last THEN [found |-> FALSE, at |-> s.Middle]
            ELSE IF IpTables[m].ip < ip THEN find[[s EXCEPT !.First = m + 1, !.Middle = m]]
            ELSE IF IpTables[m].ip > ip THEN find[[s EXCEPT !.Last = m - 1, !.Middle = m]]
            ELSE [found |-> TRUE, at |-> m]
  IN  find[[First |-> FirstPair, Last |-> MaxValue, Middle |-> 0]]

Known(ip) == FindTableIp(ip).found
LastTicks(ip) == IpTables[FindTableIp(ip).at].tick

\* The sum of the stored tick and the interval does not fit in a long.
Overflows(ip) == Known(ip) /\ LastTicks(ip) > Half - 1 - Interval
Elapsed(ip) == LastTicks(ip) + Interval <= Ticks

(***************************************************************************)
(* IpSecurityAceptarNuevaConexion                                          *)
(***************************************************************************)

\* A plausible bug: one pair too late.
FullLate == MaxValue > EntrysCounter

Full == MaxValue + 1 > EntrysCounter

\* The pairs that the memmove from pair `i` fills.
\* A plausible bug: it copies one pair less.
MovedUpShort(i) == i + 1 .. MaxValue - 1
MovedUp(i) == i + 1 .. MaxValue

\* AddNewIpIntervalo at pair `i`, and the tick its caller then stores there.
AddNewIpIntervalo(ip, i) ==
  /\ Multiplicado' = IF Full THEN Multiplicado + 1 ELSE Multiplicado
  /\ EntrysCounter' = IF Full THEN (EntrysCounter \div Multiplicado) * Multiplicado' ELSE EntrysCounter
  /\ LET grown == [k \in 0..EntrysCounter' |-> IF k <= EntrysCounter THEN IpTables[k] ELSE Empty]
         moved == [k \in 0..EntrysCounter' |-> grown[IF k \in MovedUp(i) THEN k - 1 ELSE k]]
     IN  IpTables' = [moved EXCEPT ![i] = [ip |-> ip, tick |-> Ticks]]
  /\ MaxValue' = MaxValue + 1

\* An address the search does not find is inserted where the search ended, which
\* may be one pair before its place.
AcceptNew(ip) ==
  /\ ~Known(ip)
  /\ MaxValue < MaxEntries
  /\ AddNewIpIntervalo(ip, FindTableIp(ip).at)
  /\ last' = [last EXCEPT ![ip] = now]
  /\ UNCHANGED now

\* An address that waited its interval is admitted and its tick refreshed.
AcceptAgain(ip) ==
  /\ Known(ip) /\ ~Overflows(ip) /\ Elapsed(ip)
  /\ IpTables' = [IpTables EXCEPT ![FindTableIp(ip).at].tick = Ticks]
  /\ last' = [last EXCEPT ![ip] = now]
  /\ UNCHANGED <<MaxValue, EntrysCounter, Multiplicado, now>>

\* A plausible bug: a refusal starts the interval again.
RefreshesTick(ip) == IpTables' = [IpTables EXCEPT ![FindTableIp(ip).at].tick = Ticks]

\* A refusal leaves the stored tick as it was.
LeavesTick(ip) == UNCHANGED IpTables

Refuse(ip) ==
  /\ Known(ip) /\ ~Overflows(ip) /\ ~Elapsed(ip)
  /\ LeavesTick(ip)
  /\ UNCHANGED <<MaxValue, EntrysCounter, Multiplicado, now, last>>

\* TickCountOverflowException, thrown before anything is changed (the handler of
\* the accept that called does not start the next accept then).
Throw(ip) == Overflows(ip) /\ UNCHANGED ipVars

(***************************************************************************)
(* IpSecurityMantenimientoLista                                            *)
(***************************************************************************)

BaseCapacity == EntrysCounter \div Multiplicado

IpSecurityMantenimientoLista ==
  /\ EntrysCounter' = BaseCapacity
  /\ Multiplicado' = 1
  /\ IpTables' = [k \in 0..EntrysCounter' |-> Empty]
  /\ MaxValue' = 0
  /\ last' = [ip \in Ips |-> Never]
  /\ UNCHANGED now

TimePasses ==
  /\ now < MaxNow
  /\ now' = now + 1
  /\ UNCHANGED <<table, last>>

IpNext ==
  \/ \E ip \in Ips : AcceptNew(ip) \/ AcceptAgain(ip) \/ Refuse(ip) \/ Throw(ip)
  \/ IpSecurityMantenimientoLista
  \/ TimePasses

IpSpec == InitIpTables /\ [][IpNext]_ipVars

(***************************************************************************)
(* Properties                                                              *)
(***************************************************************************)

PairsInUse == 0 .. MaxValue - 1

\* The capacity is a multiple of the first one, the smallest with room for the
\* pairs in use, whatever growths and maintenances came before; pairs are well
\* formed.
IpTypeOK ==
  /\ MaxValue \in 0..MaxEntries
  /\ Multiplicado \in Nat \ {0}
  /\ EntrysCounter = Base * Multiplicado
  /\ Multiplicado > 1 => MaxValue > Base * (Multiplicado - 1)
  /\ IpTables \in [0..EntrysCounter -> [ip : Ips \union {0}, tick : -Half .. Half - 1]]
  /\ now \in 0..MaxNow
  /\ last \in [Ips -> 0..now \union {Never}]

\* Nothing is read or written out of the array: the pairs in use have both of
\* their places, the others are still zero (among them the one with a single
\* place), and no search ends on one of those as if it were an address.
InBounds ==
  /\ MaxValue <= EntrysCounter
  /\ \A k \in MaxValue..EntrysCounter : IpTables[k] = Empty
  /\ \A ip \in Ips : Known(ip) => FindTableIp(ip).at \in PairsInUse

\* The table grows and shrinks by its rule, and nobody leaves its array.
TableSound == IpTypeOK /\ InBounds

\* The last admission of every address is in the table under its tick: neither
\* moving the pairs up, nor growing, nor an insertion out of order loses it.
LastAdmissionStands ==
  \A ip \in Ips : last[ip] # Never =>
    \E k \in PairsInUse : /\ IpTables[k].ip = ip
                          /\ IpTables[k].tick = IF last[ip] < Half THEN last[ip] ELSE last[ip] - 2 * Half

Sorted == \A j, k \in PairsInUse : j < k => IpTables[j].ip < IpTables[k].ip

\* While the table is sorted the search finds every address in it, although it
\* starts one pair too high and compares with a zero pair.
SortedFinds == Sorted => \A k \in PairsInUse : Known(IpTables[k].ip)

\* A connection is refused only within the interval of an admission of the same
\* address, or because the ticks changed sign since the admission it finds.
RefusalHasCause ==
  \A ip \in Ips : Known(ip) /\ ~Overflows(ip) /\ ~Elapsed(ip) =>
    \/ last[ip] # Never /\ now - last[ip] < Interval
    \/ now >= Half /\ LastTicks(ip) >= 0

Admits(ip) == ~Known(ip) \/ (~Overflows(ip) /\ Elapsed(ip))

\* An address that was admitted is not admitted again before its interval.
\* Insertions out of order break the search, and it is.
Throttled ==
  \A ip \in Ips : last[ip] # Never /\ now - last[ip] < Interval => ~Admits(ip)

================================================================================
