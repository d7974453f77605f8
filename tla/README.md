# TLA+ models of the Argentum Online server

Models, model-checking runs and proofs for the C++20 port of the Argentum Online 0.13 server
(`src/server`, with the VB6 original in `legacy/server/Codigo`). The server is a game loop: one
thread polls the network, runs the packet handlers, and calls timers. There are no locks and no
second thread; what interleaves are the *completions* of network operations, the *commands* of
different users and the *timers*, all acting on global tables indexed by slot (`UserList`,
`Parties`, `Npclist`, `MapData`). Most of what can go wrong is of one kind: two records in two
tables must agree, and are written apart by operations that any user may call in any order.

The handlers of incoming packets are stubs in the C++ (`Protocol.cpp`), so the guards they apply
before they call the ported functions are taken from `legacy/server/Codigo/Protocol.bas`.

## Inventory

For each component: its state; its operations; whom it talks to; what is hard; what makes it correct.
Its status, and what of it is left out, are in `components` of `PROJECT.json`; its hazards, each at its
line, in `hazards`.

**Network layer and slots** (`TCP.cpp`). State: sockets, read buffers and write queues by slot,
`s_sock_to_slot`, `s_next_conn_id`, and in `UserList` the connection fields and the exit countdown;
`NumUsers`, `LastUser`. Operations: accept, read and write completions, `EnviarDatosASlot`,
`CloseSocketSL`, `CloseSocket`, `CerrarUsuario`, `PasarSegundoUsuarios` (each second),
`WSApiReiniciarSockets`. It calls the packet handler and the close-user handler; everything that
sends calls it back. Hard: a completion captures only the slot's index and may be delivered after
the slot changed hands; sending may close the socket of the slot that is being handled; a dropped
character stays in the game for some seconds. Correct when the records of a connection agree, every
closed connection releases what it held, and every dropped character leaves.

**Parties** (`mdParty.cpp`, `clsParty.cpp`). State: `Parties`, each an array of places with waiting
experience, its founder, its count and its weighted sum of levels; `PartyIndex` and
`PartySolicitud` of each user. Operations: found, request, grant, leave, expel, hand over, share and
credit experience. Called by commands, by combat, by `CloseUser` and before a world save. Hard: two
records of every membership, compaction of places, dissolution under other users, a cached sum.

**Trade between users** (`mdlCOmercioConUsuario.cpp`). State: `ComUsu` of each user. Operations:
start, offer, confirm, accept, reject, end. Interrupted by deaths, thefts, closed sockets and other
windows. Hard: two session records that refer to each other by slot, offers checked when made and
paid later, acceptances that survive what they were given for.

**Users in the world, areas, NPC life cycle** (`Modulo_UsUaRiOs.cpp`, `ModAreas.cpp`,
`MODULO_NPCs.cpp`). State: position, character index and tile of each user and NPC, `CharList`,
`MapData`, connection groups, area masks, `Npclist`, `LastNPC`, masters and pets. Operations: enter,
step, warp, make and erase a character, spawn, die, respawn, tame, summon, release. Hard: tile,
character table, groups and masks are written apart and under two addressing formulas; NPC indexes are
reused while pets refer to them. Correct when the tables agree.

**Conduct and factions** (`SistemaCombate.cpp`, `ModFacciones.cpp`, parts of `Modulo_UsUaRiOs.cpp` and
`modHechizos.cpp`). State: reputations, kills, ranks, `AtacablePor`. Operations: attack, steal, help,
resurrect, enlist, be rewarded, be expelled. Hard: what a user is (criminal or not) follows from six sums
that every deed moves, and guards read it before or after the deed. Correct when crimes mark, defence is
free, soldiers spare citizens, and ranks follow their ladder.

**Vitals** (`modHechizos.cpp`, `SistemaCombate.cpp`, `Trabajo.cpp`). State: life, mana, stamina,
paralysis, stupidity, invisibility, hiding, meditation and their counters. Operations: spells, blows,
potions, the timer. Hard: the same flag is set and cleared by several files. Correct when death comes
with the end of life and frees, and when conditions end.

**Combat and creatures' minds** (`SistemaCombate.cpp`, `AI_NPC.cpp`, `modHechizos.cpp`). State: life,
target, attacker, hostility, experience left of each creature; pets. Hard: a blow that kills runs a death
that pays, frees and is seen by the callers above it. Correct when experience is paid once and lives end
once.

**Objects** (`InvUsuario.cpp`, `Modulo_InventANDobj.cpp`, `modBanco.cpp`, `Comercio.cpp`, `Trabajo.cpp`).
State: stacks by slot, equipment, backpacks, the floor, bank and merchant stocks, gold. Hard: transfers
credit before they debit, limits of a stack, backpacks that move the limit of the slots. Correct when what
is worn is held and objects come from somewhere, but for the defects that the ledger
(`docs/implementation/KNOWN-LEGACY-BUGS.md`) keeps on purpose.

**Guilds** (`modGuilds.cpp`, `clsClan.cpp`). State: members, applications, relations, elections, in memory
and in files. Hard: mutual relations kept in two vectors and two files, elections counted over days,
expulsions of users that are away. Correct when memory and files agree and relations are mutual.

**IP table** (`SecurityIp.cpp`). State: a sorted table of addresses and ticks. Operations: search,
insert, hourly purge. Hard: off-by-one in the search, a misplaced insertion, tick overflow.

**The rest** is sequential or input and output: the byte queue (`clsByteQueue.cpp`), send targets
(`modSendData.cpp`), path finding, queue and dictionary, configuration and persistence (`clsIniReader.cpp`,
`FileIO.cpp`), protocol encoders, doors and signs, entry points.

## Plan

| Order | Module | Composes | Abstract specification | Theorems |
|---|---|---|---|---|
| 1 done | `Net`, `NetProofs` | packet handlers, game loop | `SlotLife` | invariants, refinement |
| 2 done | `Party`, `PartyProofs` | levels, closed sockets | `Groups` | membership, shape, experience, refinement |
| 3 done | `Trade`, `TradeProofs` | deaths, thefts, windows | | conservation, acceptances |
| 4 done | `IpTable`, in `NetProofs` | `Net`'s admission | | bounds, admissions, search, refusals |
| 5 done | `Areas`, `Npcs`, `World`, `WorldProofs` | each other, pets | | agreement of the tables, pets |
| 6 done | `Items`, `Inventory`, `InventoryProofs` | bank, merchant, crafts, theft | | bags and equipment; not the units of objects |
| 7 done | `Conduct`, `Faction`, `UserProofs` | combat, spells, factions | | one side only, ranks, what soldiers spare, defence, crime |
| 8 done | `Vitals`, in `UserProofs` | spells, blows, timer | | limits, deaths |
| 9 done | `Combat`, `CombatProofs` | creatures, pets, experience | | experience, lives |
| 10 done | `Diplomacy`, `Guild`, `GuildProofs` | files, restarts | `Diplomacy` | relations are mutual and filed; registers, elections, votes |
| 11 left | `ByteQueue`, `PathFinding`, objects in `Trade` | | sequence; reachability | small lemmas |

## Modules

| Module | Models |
|---|---|
| `Net` | `TCP.cpp`, `CancelExit` |
| `SlotLife` | what `Net` promises of a slot: free, used, in the game, dropped, free again |
| `NetProofs` | the proofs about `Net` and `IpTable` |
| `Party` | `mdParty.cpp`, `clsParty.cpp`, the level rise of `CheckUserLevel` |
| `Groups` | what `Party` promises: groups with one leader |
| `PartyProofs` | the proofs about `Party` |
| `Trade` | `mdlCOmercioConUsuario.cpp` and its handlers in `Protocol.bas` |
| `TradeProofs` | the proofs about `Trade` |
| `IpTable` | `SecurityIp.cpp` |
| `Areas` | the map, its two addressing formulas, `ModAreas.cpp` |
| `Npcs` | `MODULO_NPCs.cpp`: the table of NPCs and their characters, on top of `Areas` |
| `World` | users, characters, movement, warps and pets, on top of `Npcs` |
| `WorldProofs` | the proofs about `Areas`, `Npcs` and `World` |
| `Items` | operators on inventories and floor: `InvUsuario.cpp`, `Modulo_InventANDobj.cpp` |
| `Inventory` | what users do with objects, bank, merchant, crafts and theft, on top of `Items` |
| `InventoryProofs` | the proofs about `Items` and `Inventory` |
| `Conduct` | reputations, criminality and who may attack or help whom |
| `Faction` | conduct over time, `ModFacciones.cpp`, on top of `Conduct` |
| `UserProofs` | the proofs about `Faction` and `Vitals` |
| `Vitals` | the condition of a user: spells, blows, potions, hiding, the timer |
| `Combat` | `AI_NPC.cpp`, blows and spells on creatures, their deaths and experience |
| `CombatProofs` | the proofs about `Combat` |
| `Diplomacy` | the relations between guilds, in memory and in files |
| `Guild` | members, applicants and elections of a guild, on top of `Diplomacy` |
| `GuildProofs` | the proofs about `Diplomacy` and `Guild` |
| `MC...` | symmetry and constants of the runs |

Much of the C++ takes the functions it calls in other files as *hooks* (`std::function` fields that its
tests replace). No entry point wires them yet. The models compose a hook as the function it is named
after. Functions that have no C++ code (the timers, the handlers of incoming packets, `LegalPos`,
`ClosestLegalPos`, `HayPCarea`, `ConnectUser`) follow the original, and `map` names its lines under
`legacy/server/Codigo`. `Enter` is the entry on a free tile: what `ConnectUser` does when none is free (it
closes the user, or treads on the NPC, that is there) is left out, and so is water.

A handler that lies across several modules (a spell that wounds, marks and kills) is in each of them as
far as that module's state goes; what the others decide is left open there. So `Conduct` has the
guard of an attack on a user, `Vitals` its wound, `Combat` the creature that joins, and no module assumes
of the others more than their guards allow.

### Net

`user`, `net` and `sockToSlot` are the tables of the code by slot. Sockets are numbered in the order
the kernel accepted them, a number the code does not see: completions and bytes are tagged with it in
order to say whose they are. `ready` is the queue of completions whose handler has not run. asio
delivers them in order on every platform the server builds for; how they get there (`epoll` runs the
operation in the poll, a completion port before it) is covered by letting the kernel's actions
`KernelAccepts`, `KernelReads` and `KernelWrites` happen at any time an operation is pending. A closed
socket completes its pending operations as aborted (`Aborted`).

The thread is at one place (`pc`): idle, in `PollRed`, inside the packet handler of a slot, or inside
the loops of the tick and of the restart. What the game does with a slot from a handler or from the
game loop (log in, send, close, leave, cancel the exit) is an action each, enabled in both. Each handler
of the code is one action, with the calls it makes; the loops over slots and the packet handler are
split, since other code runs in between.

Payloads are abstracted to the set of connections whose bytes a buffer holds, outgoing data to a number
of chunks, and whether the map is a PK map is left open.

### Party

One action per command, with the party methods it calls as operators on a party record. Experience counts
in whole points; a share is one point with the sign of the sum it is divided by, any value when that is
zero. `Weight` stands for the power of a level. `owed` is a history variable: what `ObtenerExito` put
aside for a user and nobody has credited. Distances, factions and skills are left open.

### Trade

One action per packet handler of `Protocol.bas` with the function of `mdlCOmercioConUsuario.cpp` it
calls, and one per interruption. What is traded is gold. Balances have a width: `MaxGLD` stands for
2^31 - 1, and the casts of the code are `AsGLD`. In the C++, neither `CloseSocket` nor `ResetUserSlot`
ends the trade (a pending call in a comment of `TCP.cpp`), so the next character of a slot finds the
session of the one before.

### IpTable

The array is a function from pair numbers to pairs, with one pair more than the capacity, as the array has
one place more. The bisection is a recursive function of a record of bounds (`Search`); an insertion is the move, the growth and the stored
tick. `now` is the true time, `Ticks` its 32 bits, `last` a history variable: when each address was last
admitted. The overflow exception changes nothing in the table; that it also leaves `HandleAccept` before
the next accept is started is not in `Net`, which leaves admission open and always goes on.
0.0.0.0 is not an address a connection comes from, and is excluded by `IpsAssumption`: it would match the
pairs that are not in use.

### World

`Areas`, `Npcs` and `World` are layers of one state: `user`, `npc`, `CharList`, `tileUser`, `tileNpc`,
`group`, `NumUsers`, `LastNPC`. The operators of the lower layers take the whole world as a record and give
the one after the call, as the code's functions change the globals; an action of `World` is a handler.
`MapData` is one vector, and `Modulo_UsUaRiOs.cpp` finds a tile at another cell of it than the rest of the
code (`UserCell`, `WorldCell`): both are modelled as they are computed. What one formula takes for a tile of
a map, the other may take for a tile of another. An NPC that steps where a cell names a user moves that user
(`Displace`), who may be far from there: `pushed` is a history variable that says it happened. From then on
only what is said of NPCs and of `CharList` holds; until then, and so for whatever users do among themselves,
users, tiles, areas, groups and counts agree too. A user enters as the legacy
`ConnectUser` lets it, and nothing in the C++ takes it out of the map again (a pending call in `TCP.cpp:374`).
`LegalPos`, `LegalPosNPC`, `ClosestLegalPos` and `HayPCarea` follow the legacy `GameLogic.bas`.
`WorldAssumption` asks that the tiles where `CrearNPC` may put an NPC of the map files (`Reach`, 3, around its
origin) are on the map, since the last of its tries is taken wherever it fell: in the map files of the legacy
server no NPC is within 3 tiles of an edge.

### Inventory

`Items` works on a *hand*: a user, its record and the floor. Taking off a backpack (`Desequipar`) drops what
its slots hold (`DropObj`), which takes from the slot (`QuitarUserInvItem`), which takes off what is worn, and so
on: the operators take what `Desequipar` does as an argument (`off`), and `DesequiparTo` ties the knot, to the depth the
calls can reach, since each unmarks a slot and none marks one. Loops over slots are `Walked`. `Inventory` has one action per handler,
with the crafts (`Construct`, `FundirMineral`, `Upgrade`), the bank, the merchant and thefts. Amounts have the
width `IntRange`. Dice and skills are left open. `NothingFromNothing` says that a handler makes units
of an object only where it should, with three exceptions that are defects of the code and are named in
it: a pile that passes the limit (entry 29 of the ledger), a slot that is out of reach of the backpack, and
a backpack kept inside another.

### Faction

`Conduct` has the pure functions: `criminal`, `PuedeAtacar`, `PuedeAtacarNPC`, `CanSupportUser` and what a deed
costs. `Faction` lets users do any of them in any order, with enlistment, rewards and expulsions. The
average of `criminal` divides toward zero, as C++ does. `Players` are followed in every deed; the
others attack, die and come back, so that two user records are enough. `SoldierSpares` excepts kills by pets
(`PetKills`), which the code does not guard.

### Vitals

One user stands for every user, since a handler changes one user's condition under guards that are about
something else. The timer's three functions are one action each. A creature's spell is one handler with any
combination of what a spell may bring (`Spells`): it looks at the target before and not after its wound, so it may curse
whom it has just killed (`KillsAndBinds`). `DeathIsWhole` excepts that step by name and `StatesEnd` a user that is killed so
again and again; no spell of `Hechizos.dat` has both effects. The wand of the praetorians and the potion
that harms kill without `UserDie`, as the code does.

### Combat

A call is an operator that gives the set of states it may leave; `AfterEach` composes the calls a handler
makes in order. So that a blow which kills, whose death pays experience, and whose caller goes on with
the creature that is no longer there, is one action, as it is one handler in the code. After a blow that does not
kill come up to two more (`ExtraBlows`): the stab of any class, and the critical blow or the slash of one.

### Guild

`Diplomacy` keeps the vectors in memory and the files apart; a treaty is two writes and `TornTreaty` is the
process that dies between them, `Reiniciar` what is read back. `torn` is a history variable: the pairs
such a crash left apart. `Guild` adds the first guild's list of members, applicants and elections. Whether a
character is in the game is left open. `pertenece` says that its `GuildIndex` is this guild's, in memory or in
its charfile; the list of members is kept apart from it. `SetLeader` writes the name in capitals and
`m_ValidarPermanencia` compares with them, hence `mayus`.

## Runs

| Run | Shows |
|---|---|
| `net` | the records of a connection agree (`SockMapOK`), closed slots release their socket and queue (`NetReleased`), dropped characters count down (`DroppedIsLeaving`), `NumUsers` is exact, no chunk is stuck (`NoStall`), a restart frees every slot, and each slot lives as `SlotLife` says |
| `net_live` | a dropped character is freed unless something cancels its exit |
| `party` | the two records of a membership agree and places are packed from the leader's (`PartiesSound`), experience is never given to another member nor lost, and parties are `Groups` |
| `trade` | no agreed trade stays pending, confirmed offers stand, gold is conserved, trades are with who was chosen |
| `ip` | no access out of the array (`TableSound`), the last admission of every address stays in the table whatever order it is in, a sorted table is searched well in spite of the off-by-one, refusals have a cause |
| `items` | the reach of the slots is that of the backpack worn and the merchant counts its slots well (`BagsSound`), what is worn is held, and no handler makes objects from nothing |
| `world` | users, NPCs, `CharList`, tiles, groups and areas agree (`WorldAgrees`), `LastNPC` is exact and no tile keeps a character that left it (`PlacesAgree`), of users until an NPC pushes one; pets are only on maps that allow them |
| `world_tiles` | finding: users walk onto NPCs |
| `faction` | nobody has served both sides, ranks match the next rung, an unjustified attack on a citizen makes a criminal and no soldier, a defence costs nothing, and no soldier's count of citizens rises but by its pets |
| `vitals` | whoever dies has no life and every condition is cleared (`DeathIsWhole`), and paralysis, invisibility and hiding end (`StatesEnd`) |
| `combat` | what a creature paid and has left is what it gives, and is paid once (`CombatSound`), a user's life ends once whoever strikes (`DiesOnce`) |
| `guild` | applications are packed and no vote outlives its election (`RegisterSound`), memory is what the files say, relations are mutual but for treaties cut by a crash, the leader changes only by winning an election, and a vote stands until the count |

Deadlock is checked in every run but `items`. There the system may stop: two users who own nothing, hold no
gold and no tool, with nothing on the floor, have no handler that changes an inventory, since walking and
logging in are not in that model.

### Bounds

- `net`: two slots, so that a slot and another change hands under each other's completions; two
  connections in a behaviour, so that a slot is taken again while completions of the first connection are
  queued; two chunks, so that one is in flight and one waits, and the third overflows; a countdown of one
  second. `net_live` has one slot, two connections, one chunk and a countdown of two seconds, so that
  cancelling restarts it from a value it has left.
- `party`: three users make a leader and two members, so that a member leaves between two others; two
  parties, so that an index is used again and a request goes stale; three places, so that a party fills.
  Levels are 1 and 2 with weights 1 and 3. `MaxExp` bounds the waiting experience to one point and `MaxSuma`
  how far the sum may drift below zero.
- `trade`: two slots and three characters, so that a slot changes hands during a trade with the other. The
  width of a balance is 2 and `MAXORO` 1, so that balances above `MAXORO` and beyond the width are reached.
  Slots and characters are symmetric. Three users make more than three million states; the theorems
  cover them. `DoRobar` leaves out a theft that would overflow the thief's balance before it is cut to `MAXORO`.
- `ip`: four addresses, one of them negative, so that insertions out of order hide each of them; a first
  capacity of 2 and five insertions, so that the table grows twice; an interval of 2 and ticks of 10 values
  over a time of 8, so that ticks reach the overflow and change sign.
- `items`: two users, one of them new and in a fighting zone, on two tiles; one slot and a second one that a
  backpack opens; two units in a slot; an amount of 14 values, so that the arithmetic of a full slot fits.
  Eight objects: a tool that can be upgraded, two backpacks, an ore, an ingot for new users, gold, a potion
  that death does not take and a boat. `MaxLoad` bounds the weight of what there is when a user acts,
  `MaxPile` a pile on the floor, `MaxHeld` a slot, `MaxBatch` what one cycle of work builds. The tool melts
  into nothing, an ingot, or an ingot and ore (for a second metal), so that `Recovered` gives back none, one or two kinds. No object of the instance is a
  shield or needs two hands: that branch of `EquiparInvItem` is modelled and not reached.
- `world`: two maps of two by two tiles with stripes of one tile, so that every step changes area, with two tiles
  open in each, one above the other in the first and side by side in the second; maps 1 and 4, so that cells of one under `WorldCell` are cells of the other
  under `UserCell`; one map where pets may be and one where they may not; two users and two places for NPCs, of
  a kind that is born again and can be tamed and one that is summoned; three character indexes, one fewer
  than users and NPCs, so that `CharList` fills. `Reach` is 0, for maps so small. `MaxPets` bounds the count that
  `WarpMascota` raises without limit. `MCSpec` bounds what follows a push: the users go on, the NPCs stay as
  they are (`world_tiles` has no such bound, nor have the theorems).
- `faction`: one user followed in every deed and another that attacks, dies and comes back; reputations up to 2
  with an assault of 1 and a murder of 2, so that one and two deeds differ; ladders of three rungs; one
  enlistment and one more; four creatures (a wild beast, a guard
  of each side, a user's pet); the characters that may be loaded are a noble citizen who has killed a
  criminal and a bandit who has killed a citizen.
- `vitals`: life of two points and blows of one or two, so that a blow wounds or kills; paralysis of two
  ticks, invisibility of one and hiding of up to two, so that they end in different orders. Invisibility restarts
  with no jitter.
- `combat`: two users, symmetric; two places, holding a beast or a guard and a deer that can be tamed; the
  beast takes two blows and gives three points, so that a share is rounded, and the deer takes one and
  gives one. `MCSpec` lets only the beast be left with less than no life by the blows that follow the first (the
  theorems have no such bound).
- `guild`: two guilds, so that a treaty has two sides; two names and a third application's place; a list of at most three
  entries, as a name may be in it twice. Three names exceed what can be explored in minutes; `GuildProofs`
  covers any number of guilds, names and places.

### Fairness

`net_live` (`FairSpec`) assumes that the game loop goes on, so each of its pieces
that is pending runs (weak fairness of the completions, of the loops and of the ticks), and a poll ends
in spite of completions that keep arriving (strong fairness of `PollEnd`: the kernel leaves the queue
empty again and again, and not every completion finds a new one behind it). Clients, commands and attacks
get no fairness: nothing obliges a client to send, to log in or to leave.

`vitals` assumes weak fairness of the three timer functions `DoPermanecerOculto`, `EfectoInvisibilidad` and
`EfectoParalisisUser`, which the legacy `GameTimer` (`frmMain.frm:550`) calls for every user in every tick.
Each is enabled as long as its condition lasts, and the code counts down in each. Spells, attacks and users get
none, so `StatesEnd` says that the condition ends whatever others keep doing to the user, but for a paralysis that a
spell renews at each of infinitely many deaths.

## Proofs

`tlapm` checks every step of the modules named `...Proofs`. The only assumptions are the named ones on the
constants, which TLC evaluates on every run.

**Net.** `IInv` is the inductive invariant: the types with two facts about where the thread is
(`ReadySlots`: completions name slots; `HandlerSlot`), and `Core`. `SockMapOK` alone is not inductive: an
accepted connection gets `nextConnId`, which must be fresh (`FreshIds`); `DroppedIsLeaving` needs that
only logged users leave (`LeavingIsLogged`). `RestartDone` says that during a restart the slots below
`at` are free, from which `RestartFreesAll` follows. All the actions on one slot go through one lemma,
`OneSlotStep`, which takes the new records of the slot and what was removed from the map; `NumUsersExact`
is the cardinality of the logged slots, and changes by one with them. `NetImplementsSlotLife` maps
each action to a step of the slot it acts on, or to a stutter. The types are proved and left out of the
run. `NoStall` is proved from `Flow` besides: a queue that is empty is not being written, and one that is not
has a socket (a `Send` that finds `is_writing` set starts no write, so `NoStall` alone is not kept).

**Party.** `IInv` is the types, `MembershipAgrees`, `ExpConserved` and, of every party, `Sound`: an entry without a
party is empty, and a party is packed (its members in the first `CantMiembros` places, each once) with
`Fundador` in place 0. Packing is what makes the compaction of a departure and the first free place of an
admission right; that `Fundador`, which the code keeps apart, is in place 0 is what `HacerLeader` and the
dissolution rest on. What each does to places, members and waiting experience is a lemma about one party record
(`Joined`, `Led`, `Departed`). The refinement has a step lemma for each command.

**Trade.** `IInv` adds to the types and `NeverBothAccepted` that nobody trades with itself (or a first
acceptance would already be mutual) and that whoever offers gold has no debt and offers no more than a
field holds. The latter is what `TradesConserve` needs: the payment is made in two sums, each cast to
the width, so the intermediate balance may wrap; `CastOfBalance` shows that a cast undoes one turn, so the
final balance is exact when it fits.

**Diplomacy.** `RelationsAgree` is about what guilds remember; it lasts through a restart only if the
files are mutual too, and through a foundation only if no file already says anything of the guild that is
founded. So `DipInv` is the types, `RelationsAreFiled` (memory is a prefix of the file), `FilesAhead` (at
peace with guilds not founded yet) and `FilesAgree` (files mutual but for the torn pairs). `RelationsAgree`
follows. The history `torn` keeps the set of the two guilds, since either may have written first, and a
later treaty of the same pair mends it. `Guild` conjoins these actions with its own, which leave the
relations alone: `GuildsFollowDiplomacy` says that it implements `DipSpec`.

**Guild.** `GuildInv` adds to `DipInv` the types, `ApplicantsCompact`, `BallotIsClean` and `Fundado`: before
the foundation nobody is in the guild, no vote is on and there is no leader; after it the leader is a
character. `LeaderIsElected` needs `Fundado` in a corner: a guild whose server has one character, and an
election without votes, leave the only member as the leader it was. The rest is a count. The dictionary
that `ContarVotos` fills is, after `i` entries of the list, `Recuento` of them (each name voted is in it once
and with its votes, `SumarCounts`), and what `MayorValor` holds after `i` entries of the dictionary is `EsMayor` of
them: an entry with the highest value, and one alone has it if and only if `cant` is 1 (`MayorIs`). A member
may be in the list twice, and its vote then counts twice, in the property as in the code.
`GuildAssumption` says that no character has an empty name and that the list has room for the founder.

**Faction.** `IInv` is the types and, for every user, `Past`: what its service left in its record.
`NeverServedBoth` is not inductive alone. The legion asks for citizens killed (`MinCiud`, not zero) and for no
past in the army; the army asks that no citizen was ever killed (`ciudMatados = 0`), and does not look at the legion. So
`Past` says that whoever served the legion has killed a citizen, and the count never falls. `NextRecompensa`
is one field for both ladders, so `RankMatchesNext` rests on nobody serving both. Every deed is `Kept`: it may
expel and never admits, and leaves the record alone, except for a citizen's death counted; only the four
enlistments and rewards write the record. `SoldierSpares` follows from `SoldierGuard` (whom a soldier may
attack is a criminal, is answered in defence, or is in an arena) and `ContarMuerteKeeps`; pets' kills pass no
such guard and are excepted in the property. `CrimeMarks` follows from `Worse`: a criminal whose reputations
get no better stays one, though `criminal` divides a signed sum. `CharactersAssumption` asks of the characters
that are loaded that they have such a `Past`; a new character has one, and TLC evaluates it for those of the
run.

**Combat.** The invariant is a predicate of a state record, `StateOK`, since a handler is a composition of
calls that each give the states they may leave; each call has a lemma that its states are `StateOK`, and
`AfterEach` composes them. It says that of every place the experience paid and left is what its kind gives,
also while nobody is there; that a pet is in its master's set; and that a user's deaths in this life are
one if it is dead and none otherwise. `DiesOnce` is the last part.

**IpTable.** `TableSound` is not inductive: a search ends in bounds because the pairs out of use are zero
(`Zeroed`) and zero is nobody's address. `LastAdmissionStands` is, with them. `RefusalHasCause` needs
`Stamped`: a pair in use carries the tick of an admission no later than the last one of its address.
`SortedFinds` is a statement about the bisection in sorted tables of any size (`SearchIsRight`), by induction over
the width of what is left to search.

**Vitals.** `VitalsIInv` is the types and that the dead have no life (`NoLife`). `DeathIsWhole` is about steps: every handler and
timer is `DiesWhole`, that is, whoever dies of it has no life and is free of every condition, the living keep some life, and nobody already
dead gets a condition back; only the wand, the potion and the spell that kills and binds (`NpcSpellSound`), which the property excepts, go another way. Whatever a
spell or a blow does (`StruckAlike`) changes life, mana, stamina and counters within their limits; the
timers and the payments of stamina and mana stop at zero (`Remaining`).

**Inventory.** `IInv` is, of every user, `UserSound`: a slot that names an object has a unit of it, at least, and no more than half
the range of an amount (`SlotsSound`), so that no subtraction wraps; a field of the equipment names an object of
its type, the slot holds that object, and the slot is marked (`MarksSound`); and the reach is the backpack's
(`Packed`). Of the floor, that piles with an object have units (`FloorSound`); of the merchant, that its counter is right
(`Stock`). Neither property of the run is inductive alone: gold picked up from a pile of less than nothing would
leave a purse below zero; an amount at the end of its range would wrap and empty a slot that stays worn; and a field whose
object is of another type would survive `Desequipar`, which looks at the type of what the slot holds. In the middle of a handler less is true: `Kept(u, F, c, b)` are the hands it may be left with,
where no field names a slot of `F` any more (what may be written over) and the backpack is either the one it was or
off; and each operator of `Items` keeps a hand within it. The functions of loops are shown to exist, and to keep what
each turn keeps, by induction over a set of naturals; so is `DesequiparTo`, by the depth of the calls: whatever `off` a drop is
given, if it keeps hands and unmarks its slot, so does the next. `InventoryAssumption` and `ItemsAssumption` say what
data files say (objects refer to objects, materials are counted, a backpack does not exceed the inventory) and that
amounts are wide enough for `MaxPile` and `MaxHeld`; with the 16 bits and the 10000 units of the code that is some 22000
units for a pile and 20000 for a slot beyond it. A pile grows past 10000 by the defect of entry 29, and the code has
no limit there: the theorems are about behaviours in which amounts stay within these, since beyond them the code does wrap.

**World.** The invariant is `WorldOK` of the record of all the tables. Every operator of `Npcs` and `World` that
a handler calls has a lemma about what it erases, makes, moves, counts, bears or removes, whoever
calls it. `TableOK` says of the NPCs that a place is empty or its NPC alive (on a tile, with the
area of that tile, on a map for pets if it has a master), that `LastNPC` is the last in use, and that a cell
names an NPC that is there. `CharsOK` makes `CharList` and the characters' indexes inverse to each other, but
for index `MAXCHARS + 1`, which several NPCs may have. `UsersOK` holds always (a cell names a user in the game)
and `UsersSound` until an NPC pushes one: cells, areas, groups and counts. In the middle of a warp the
tables do not agree, so its lemmas say what has been written so far (`Left`, `Away`, `Listed`, `Shown`), and
`Arrives` that the last write restores the whole. The windows that `CheckUpdateNeededUser` moves by one stripe,
and never computes, are those of `AreaOf` after any step (`Stepped`), for every width of stripe; `AreaID`, a
product that several areas share, tells neighbours apart. `UserCells`: `UserCell` gives no cell twice.

Every invariant and safety property of the passing runs is a theorem but one. What stays with TLC: the liveness properties `DroppedIsFreed` and `StatesEnd`, since liveness under fairness
and `ENABLED` are out of the prover's reach; and `NothingFromNothing`, which compares sums over users, slots, banks, floor
and stock (`Units`, folds over sets): what a fold adds up to is induction over data. Where a loop is a recursive function (the bisection of
`IpTable`, the pets of `WarpMascotas`, the count of an election, the slots of an inventory), induction is over a set of naturals
(`AllNaturals`, `AlongIndices`), by its least element, and needs no induction theorem over formulas; that the
function exists at all is shown the same way (`WalkExists`).

## Findings

`world_tiles` is a run: `Modulo_UsUaRiOs.cpp:101` and `MODULO_NPCs.cpp:34` compute the place of a tile in
`MapData` differently, so a step looks at a cell where no NPC is ever written.

### Disagreements kept as configurations

Each of these configurations checks one statement of the repository's documents, comments or tests, which TLC
refutes (`NetUnkept` two, with `tlc -continue`). They are not among the runs. Where the document is a decision to keep a legacy defect, the trace
shows what the defect does; where the port lost a call of the legacy server, it is the port that differs.

| Configuration | Property | Code | What the code does, and what is said of it |
|---|---|---|---|
| `NetUnkept` | `ReceivedIsOwn` | `TCP.cpp:543` | a read completed before a slot was closed gives its bytes to the next occupant; `tests/test_tcp.cpp:555` "Comprobamos aislamiento estricto de buffers" |
| `NetUnkept` | `LastUserCovers` | `TCP.cpp:107` | `LastUser` is lowered and never raised; `docs/audit/02d-modsenddata-detalle.md:341` "`LastUser` mantiene el índice de slot activo más alto" |
| `NetAttacked` | `DroppedIsFreedAnyway` | `Modulo_UsUaRiOs.cpp:70` | every attack restarts the countdown of a dropped character; `KNOWN-LEGACY-BUGS.md:615` says "durante 10 segundos adicionales" |
| `PartySuma` | `SumaExact` | `Modulo_UsUaRiOs.cpp:632` | a level rise does not reach the party's sum; `docs/audit/11b-party-detalle.md:55` "Suma ponderada de los niveles de todos los integrantes activos" |
| `TradeDeath` | `DeathEndsBoth` | `Modulo_UsUaRiOs.cpp:1415` | a death ends one session of two; `docs/audit/12d-comercio-detalle.md:230` "Aborto (Rechazo, Cierre, Desconexión, Muerte)" |
| `TradeConfirmed` | `OnlyConfirmedTrade` | `mdlCOmercioConUsuario.cpp:267` | acceptance does not ask for confirmation; `12d-comercio-detalle.md:225` "OfertaConfirmada --> EsperandoAceptacionMutua" |
| `IpThrottled` | `Throttled` | `SecurityIp.cpp:171` | an address is admitted twice within the interval, once the table is out of order; `SecurityIp.hpp:99`, `docs/audit/02a` line 17 |
| `InventoryReach` | `NothingOutOfReach` | `InvUsuario.cpp:610` | taking off a backpack leaves objects in slots out of reach; `docs/implementation/19-invusuario-breakdown.md:204` "descarte automático de ítems ubicados en ranuras expandidas" |
| `WorldPets` | `PetsAreOwn` | `MODULO_NPCs.cpp:189` | an NPC that dies as a pet stays in its master's table; `docs/audit/13a-modulonpcs-detalle.md:17` |
| `FactionCrown` | `CrownIsClean` | `Modulo_UsUaRiOs.cpp:816` | a kill in the arena marks a soldier of the army as criminal, since `ActStats` lost the test of the zone (legacy `Modulo_UsUaRiOs.bas:54`); `docs/audit/15b-facciones-detalle.md:65` "Tener estado de ciudadano" |
| `VitalsHidden` | `HidersAreRevealed` | `Modulo_UsUaRiOs.cpp:1134` | `SetInvisible` writes `flags.invisible`, which the legacy did not, so hiding and invisibility mix; `docs/implementation/23-modhechizos-breakdown.md:205` |
| `CombatAlive` | `CreaturesLive` | `SistemaCombate.cpp:780` | a stab that takes the last point of life does not kill the creature: the test of death is in the other branch; `docs/audit/04a-sistemacombate-detalle.md:62` |

### Other differences met while modelling

They are in the modules as the code has them, with no property: melee deaths never reach `ActStats`; `ActStats`
does not refresh the status; `UsuarioAtacaNpc` never calls `NPCAtacado`; `UserDie` sets `NroMascotas` to
zero and leaves the pets; a legionary may become a citizen without being expelled; `OpenNPC` resets neither
`AttackedBy` nor `Target`; `FollowAmo` resets neither `Hostile` nor `Target`; the harming potion and the broken wand
kill without `UserDie`; a creature's spell brings its conditions on a user whom its wound has just killed (no spell of
the data has both); stupidity shares the counter of blindness; praetorian casters read spell 0 of lists
filled from 1; the acceptance of an applicant who is a member already makes it twice a member; an
expelled member who is online keeps its `GuildIndex`; the iterators of `clsClan` never answer zero.

## Not modelled

See `components` in `PROJECT.json` for each part and its reason. In short:

- arithmetic on random rolls (hits, damage, skills, prices) is left open wherever it decides nothing but a
  number, and so are walking, path finding, who sees whom and where the two users of a deed are;
- persistence, encoders and entry points are input and output, and the handlers of incoming packets are stubs;
- the byte queue, the queue and the dictionary are sequential containers that unit tests exhaust;
- send targets change no state;
- within modelled parts: the thirty object places of a trade, skill points, spell books, hunger and thirst, attributes,
  mimetism, keys and doors, alignments of guilds and their antifaction points, codex and news, the praetorian
  clan's tactics, and the looks of characters.
