------------------------------- MODULE Diplomacy -------------------------------
(* The relations between guilds: the vector p_Relaciones that each clsClan keeps
   in memory, and the file of relations that it writes at every change and reads
   when the server starts. A treaty is written guild by guild, each in its memory
   and in its file, so the process may die with one half written (TornTreaty).
   The proposals that precede a treaty are left out: in the C++ no treaty looks
   at them. So is the relation of a guild with itself, which the C++ accepts. *)
EXTENDS Naturals, Sequences

CONSTANT MAX_GUILDS      \* the places of s_guilds

ASSUMPTION MaxGuildsAssumption == MAX_GUILDS \in Nat

VARIABLES
  CANTIDADDECLANES,      \* how many guilds there are
  p_Relaciones,          \* by guild: its relation with each of them, in memory
  relaciones,            \* by guild: what its file says
  torn                   \* history: the pairs whose last treaty was cut by a crash

dipVars == <<CANTIDADDECLANES, p_Relaciones, relaciones, torn>>

Clanes == 1..MAX_GUILDS
RELACIONES_GUILD == {"GUERRA", "PAZ", "ALIADOS"}

\* What Inicializar reads from the file of guild g when there are cant guilds.
Leidas(g, cant) == [h \in 1..cant |-> relaciones[g][h]]

\* LoadGuildsDB: every guild is read from its files again.
Recargar ==
  p_Relaciones' = [g \in Clanes |-> IF g <= CANTIDADDECLANES
                                    THEN [h \in 1..CANTIDADDECLANES |-> relaciones'[g][h]]
                                    ELSE <<>>]

--------------------------------------------------------------------------------

\* No guild yet, and no file: a missing entry reads as peace.
DipInit ==
  /\ CANTIDADDECLANES = 0
  /\ p_Relaciones = [g \in Clanes |-> <<>>]
  /\ relaciones = [g \in Clanes |-> [h \in Clanes |-> "PAZ"]]
  /\ torn = {}

\* (Mutant: the guilds that exist are not told of the new one.)
NobodyTold(r) == r

ProcesarFundacionDeOtroClan(r) == Append(r, "PAZ")

\* CrearNuevoClan, its part in the relations.
Fundar ==
  /\ CANTIDADDECLANES < MAX_GUILDS
  /\ CANTIDADDECLANES' = CANTIDADDECLANES + 1
  /\ p_Relaciones' = [g \in Clanes |->
       IF g <= CANTIDADDECLANES THEN ProcesarFundacionDeOtroClan(p_Relaciones[g])
       ELSE IF g = CANTIDADDECLANES + 1 THEN Leidas(g, CANTIDADDECLANES + 1)
       ELSE p_Relaciones[g]]
  /\ UNCHANGED <<relaciones, torn>>

\* SetRelacion, in memory: nothing happens out of the vector.
SetRelacion(r, h, relacion) == IF h \in DOMAIN r THEN [r EXCEPT ![h] = relacion] ELSE r

\* (Mutant: only the guild that acts changes its file.)
OneSided(gi, gig, relacion) ==
  /\ p_Relaciones' = [p_Relaciones EXCEPT ![gi] = SetRelacion(p_Relaciones[gi], gig, relacion),
                                          ![gig] = SetRelacion(p_Relaciones[gig], gi, relacion)]
  /\ relaciones' = [relaciones EXCEPT ![gi] = [relaciones[gi] EXCEPT ![gig] = relacion]]
  /\ torn' = torn \ {{gi, gig}}
  /\ UNCHANGED CANTIDADDECLANES

\* Both guilds change their vector and their file.
Pactar(gi, gig, relacion) ==
  /\ p_Relaciones' = [p_Relaciones EXCEPT ![gi] = SetRelacion(p_Relaciones[gi], gig, relacion),
                                          ![gig] = SetRelacion(p_Relaciones[gig], gi, relacion)]
  /\ relaciones' = [relaciones EXCEPT ![gi] = [relaciones[gi] EXCEPT ![gig] = relacion],
                                      ![gig] = [relaciones[gig] EXCEPT ![gi] = relacion]]
  /\ torn' = torn \ {{gi, gig}}
  /\ UNCHANGED CANTIDADDECLANES

r_DeclararGuerra(gi, gig) == Pactar(gi, gig, "GUERRA")
r_AceptarPropuestaDePaz(gi, gig) == Pactar(gi, gig, "PAZ")
r_AceptarPropuestaDeAlianza(gi, gig) == Pactar(gi, gig, "ALIADOS")

\* A member of guild gi names guild gig.
Tratado(gi, gig) ==
  /\ gi # gig
  /\ \/ r_DeclararGuerra(gi, gig)
     \/ r_AceptarPropuestaDePaz(gi, gig)
     \/ r_AceptarPropuestaDeAlianza(gi, gig)

\* The server stops between two commands, and starts again.
Reiniciar ==
  /\ UNCHANGED <<CANTIDADDECLANES, relaciones, torn>>
  /\ Recargar

\* The process dies when gi has written the treaty and gig has not.
TornTreaty(gi, gig) ==
  /\ gi # gig
  /\ \E relacion \in RELACIONES_GUILD :
       relaciones' = [relaciones EXCEPT ![gi] = [relaciones[gi] EXCEPT ![gig] = relacion]]
  /\ torn' = torn \cup {{gi, gig}}
  /\ UNCHANGED CANTIDADDECLANES
  /\ Recargar

DipNext ==
  \/ Fundar
  \/ \E gi, gig \in 1..CANTIDADDECLANES : Tratado(gi, gig) \/ TornTreaty(gi, gig)
  \/ Reiniciar

DipSpec == DipInit /\ [][DipNext]_dipVars

--------------------------------------------------------------------------------

\* Every variable holds a value of its kind.
DipTypeOK ==
  /\ CANTIDADDECLANES \in 0..MAX_GUILDS
  /\ p_Relaciones \in [Clanes -> Seq(RELACIONES_GUILD)]
  /\ relaciones \in [Clanes -> [Clanes -> RELACIONES_GUILD]]
  /\ torn \in SUBSET (SUBSET Clanes)

\* What a guild remembers of the others is what a restart would read: founding
\* leaves every vector as long as there are guilds, and nothing is only in memory.
RelationsAreFiled ==
  \A g \in 1..CANTIDADDECLANES : p_Relaciones[g] = Leidas(g, CANTIDADDECLANES)

\* War, peace and alliance are mutual, through foundations, treaties of either
\* side and restarts, unless a crash cut the last treaty of the pair in two; the
\* next treaty of the two repairs it.
RelationsAgree ==
  \A g, h \in 1..CANTIDADDECLANES :
     {g, h} \notin torn => p_Relaciones[g][h] = p_Relaciones[h][g]

================================================================================
