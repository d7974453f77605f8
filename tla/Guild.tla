--------------------------------- MODULE Guild ---------------------------------
(* One guild, the first one: its members' list, its applicants and its elections,
   all of them in files; and the relations of all the guilds, from Diplomacy.
   The C++ dropped the guards of the legacy server that ask whether the user is
   the leader, whether the applicant already is a member, whether the candidate
   is one: any user whose GuildIndex is the guild's gives its commands.

   Whether a character is in the game is left open. Its GuildIndex (pertenece: is
   it this guild's?) is in memory if it is, in its charfile if it is not, and the
   list of members changes without it: a command may leave one behind the other. *)
EXTENDS Diplomacy, SequencesExt

CONSTANTS
  Name,           \* characters
  Nadie,          \* an empty name
  MAXASPIRANTES,  \* places for applications
  MaxMiembros     \* bound: entries of the list of members

ASSUME GuildAssumption ==
  Nadie \notin Name /\ MAXASPIRANTES \in Nat /\ MaxMiembros \in Nat \ {0}

VARIABLES
  pertenece,          \* by name: its GuildIndex is this guild's
  miembros,           \* the list of members; a name may be in it twice
  leader,             \* Leader of guildsinfo.inf; mayus: in capitals, as elections write it
  solicitudes,        \* by place: the applicant's name
  CantSolicitudes,    \* how many the file says there are
  EleccionesAbiertas, \* whether a vote is on
  votos               \* by name: the name it voted

padronVars == <<pertenece, miembros, leader>>
aspVars == <<solicitudes, CantSolicitudes>>
votVars == <<EleccionesAbiertas, votos>>
vars == <<dipVars, padronVars, aspVars, votVars>>

Nombres == Name \cup {Nadie}
Plazas == 1..MAXASPIRANTES
Existe == CANTIDADDECLANES > 0

Init ==
  /\ DipInit
  /\ pertenece = [n \in Name |-> FALSE]
  /\ miembros = <<>>
  /\ leader = [nombre |-> Nadie, mayus |-> FALSE]
  /\ solicitudes = [i \in Plazas |-> Nadie]
  /\ CantSolicitudes = 0
  /\ EleccionesAbiertas = FALSE
  /\ votos = [n \in Name |-> Nadie]

--------------------------------------------------------------------------------
(* Foundation *)

\* CrearNuevoClan by a user without guild. The level, the skill and the faction
\* that PuedeFundarUnClan asks for are left open, and so are names in use.
CrearNuevoClan(n) ==
  /\ ~pertenece[n]
  /\ Fundar
  /\ IF Existe
     THEN UNCHANGED padronVars
     ELSE /\ leader' = [nombre |-> n, mayus |-> FALSE]
          /\ miembros' = <<n>>
          /\ pertenece' = [pertenece EXCEPT ![n] = TRUE]
  /\ UNCHANGED <<aspVars, votVars>>

--------------------------------------------------------------------------------
(* Applications *)

\* NumeroDeAspirante: the first place with the name, zero if there is none.
NumeroDeAspirante(n) ==
  IF \E i \in Plazas : solicitudes[i] = n
  THEN CHOOSE i \in Plazas : solicitudes[i] = n /\ \A j \in 1..(i - 1) : solicitudes[j] # n
  ELSE 0

\* The first empty place, if there is one.
EsLibre(i) == solicitudes[i] = Nadie /\ \A j \in 1..(i - 1) : solicitudes[j] # Nadie

NuevoAspirante(n) ==
  IF \E i \in Plazas : EsLibre(i)
  THEN /\ solicitudes' = [i \in Plazas |-> IF EsLibre(i) THEN n ELSE solicitudes[i]]
       /\ CantSolicitudes' = CantSolicitudes + 1
  ELSE UNCHANGED aspVars

\* Anyone may apply, members too, and more than once.
a_NuevoAspirante(n) ==
  /\ Existe
  /\ CantSolicitudes < MAXASPIRANTES
  /\ NuevoAspirante(n)
  /\ UNCHANGED <<dipVars, padronVars, votVars>>

\* The places behind move one ahead.
RetirarAspirante(i) ==
  /\ solicitudes' = [j \in Plazas |->
       IF j < i THEN solicitudes[j]
       ELSE IF j < MAXASPIRANTES THEN solicitudes[j + 1] ELSE Nadie]
  /\ CantSolicitudes' = IF CantSolicitudes > 0 THEN CantSolicitudes - 1 ELSE 0

\* AceptarNuevoMiembro, and what the packet handler does then: a character in the
\* game is connected to the guild if its faction allows it, and keeps its
\* GuildIndex if not; one that is away has the charfile changed.
AceptarNuevoMiembro(n) ==
  /\ Len(miembros) < MaxMiembros
  /\ miembros' = Append(miembros, n)
  /\ \E conectado \in {TRUE, pertenece[n]} :
       pertenece' = [pertenece EXCEPT ![n] = conectado]

a_AceptarAspirante(u, n) ==
  /\ pertenece[u]
  /\ NumeroDeAspirante(n) > 0
  /\ RetirarAspirante(NumeroDeAspirante(n))
  /\ AceptarNuevoMiembro(n)
  /\ UNCHANGED <<dipVars, leader, votVars>>

a_RechazarAspirante(u, n) ==
  /\ pertenece[u]
  /\ NumeroDeAspirante(n) > 0
  /\ RetirarAspirante(NumeroDeAspirante(n))
  /\ UNCHANGED <<dipVars, padronVars, votVars>>

--------------------------------------------------------------------------------
(* Members that leave *)

\* ExpulsarMiembro: the first entry with the name goes.
ExpulsarMiembro(lista, n) ==
  IF \E i \in DOMAIN lista : lista[i] = n
  THEN RemoveAt(lista, CHOOSE i \in DOMAIN lista :
                         lista[i] = n /\ \A j \in 1..(i - 1) : lista[j] # n)
  ELSE lista

\* m_EcharMiembroDeClan by u, the leader in either spelling. The GuildIndex of a
\* character in the game stays; the leader may expel itself.
m_EcharMiembroDeClan(u, n) ==
  /\ pertenece[u]
  /\ leader.nombre = u
  /\ miembros' = ExpulsarMiembro(miembros, n)
  /\ IF n = u \/ ~Contains(miembros, n)
     THEN UNCHANGED pertenece
     ELSE \E queda \in {FALSE, pertenece[n]} :
            pertenece' = [pertenece EXCEPT ![n] = queda]
  /\ UNCHANGED <<dipVars, leader, aspVars, votVars>>

\* The entries of lista whose name is in permitidos, in their order.
Quedan(lista, permitidos) ==
  LET tras[i \in 0..Len(lista)] ==
        IF i = 0 THEN <<>>
        ELSE IF lista[i] \in permitidos THEN Append(tras[i - 1], lista[i]) ELSE tras[i - 1]
  IN  tras[Len(lista)]

\* UpdateGuildMembers, once or more: out of lista goes every name whose charfile
\* the alignment does not permit. Those in the game but in memory keep their
\* GuildIndex, the others lose it.
UpdateGuildMembers(lista, indices) ==
  \E permitidos \in SUBSET Name :
    /\ miembros' = Quedan(lista, permitidos)
    /\ \E fuera \in SUBSET {m \in Name : Contains(lista, m) /\ m \notin permitidos} :
         pertenece' = [n \in Name |-> indices[n] /\ n \notin fuera]

\* m_ValidarPermanencia of a member whose faction the alignment does not permit
\* any more. The leader lowers the alignment, if the names compare equal, capitals
\* included; anyone else leaves, and with the last antifaction point the
\* alignment falls too.
m_ValidarPermanencia(n) ==
  /\ pertenece[n]
  /\ LET sinN == ExpulsarMiembro(miembros, n)
         indices == [pertenece EXCEPT ![n] = FALSE]
     IN IF leader = [nombre |-> n, mayus |-> FALSE]
        THEN UpdateGuildMembers(miembros, pertenece)
        ELSE \/ miembros' = sinN /\ pertenece' = indices
             \/ UpdateGuildMembers(sinN, indices)
  /\ UNCHANGED <<dipVars, leader, aspVars, votVars>>

\* The GuildIndex becomes another guild's, which accepts whom it likes.
OtroClan(n) ==
  /\ pertenece[n]
  /\ CANTIDADDECLANES > 1
  /\ pertenece' = [pertenece EXCEPT ![n] = FALSE]
  /\ UNCHANGED <<dipVars, miembros, leader, aspVars, votVars>>

--------------------------------------------------------------------------------
(* Elections *)

v_AbrirElecciones(u) ==
  /\ pertenece[u]
  /\ ~EleccionesAbiertas
  /\ EleccionesAbiertas' = TRUE
  /\ UNCHANGED <<dipVars, padronVars, aspVars, votos>>

\* (Mutant: YaVoto is not asked.)
Revotar(u, votado) ==
  /\ pertenece[u]
  /\ EleccionesAbiertas
  /\ votos' = [votos EXCEPT ![u] = votado]
  /\ UNCHANGED <<dipVars, padronVars, aspVars, EleccionesAbiertas>>

\* v_UsuarioVota, with YaVoto and ContabilizarVoto; any name may be voted.
v_UsuarioVota(u, votado) ==
  /\ pertenece[u]
  /\ EleccionesAbiertas
  /\ votos[u] = Nadie
  /\ votos' = [votos EXCEPT ![u] = votado]
  /\ UNCHANGED <<dipVars, padronVars, aspVars, EleccionesAbiertas>>

\* AtPut of the dictionary: a key that is there counts one more, a new one is last.
SumarVoto(dicc, clave) ==
  IF \E i \in DOMAIN dicc : dicc[i].clave = clave
  THEN [i \in DOMAIN dicc |-> IF dicc[i].clave = clave
                              THEN [dicc[i] EXCEPT !.def = @ + 1] ELSE dicc[i]]
  ELSE Append(dicc, [clave |-> clave, def |-> 1])

NingunVoto == [max |-> 0, cant |-> 0, clave |-> Nadie]

\* (Mutant: the first of the highest wins, and a tie goes unnoticed.)
PrimerMayor(dicc) ==
  FoldLeft(LAMBDA r, e : IF r.max < e.def THEN [max |-> e.def, cant |-> 1, clave |-> e.clave]
                         ELSE r,
           NingunVoto, dicc)

\* MayorValor: the highest value, how many keys have it and, of one alone, which.
MayorValor(dicc) ==
  LET tras[i \in 0..Len(dicc)] ==
        IF i = 0 THEN NingunVoto
        ELSE LET r == tras[i - 1]
                 e == dicc[i]
             IN  IF r.max = e.def THEN [r EXCEPT !.cant = @ + 1]
                 ELSE IF r.max < e.def THEN [max |-> e.def, cant |-> 1, clave |-> e.clave]
                 ELSE r
  IN  tras[Len(dicc)]

\* ContarVotos: the votes of the entries of the list, in its order.
ContarVotos ==
  LET tras[i \in 0..Len(miembros)] ==
        IF i = 0 THEN <<>>
        ELSE IF votos[miembros[i]] = Nadie THEN tras[i - 1]
        ELSE SumarVoto(tras[i - 1], votos[miembros[i]])
  IN  MayorValor(tras[Len(miembros)])

\* (Mutant: the file of votes is not removed.)
CerrarSinBorrar ==
  /\ EleccionesAbiertas' = FALSE
  /\ UNCHANGED votos

CerrarElecciones ==
  /\ EleccionesAbiertas' = FALSE
  /\ votos' = [n \in Name |-> Nadie]

\* A tie, no vote and a winner that is not a member any more leave the leader.
RevisarElecciones ==
  /\ leader' = IF ContarVotos.cant = 1 /\ Contains(miembros, ContarVotos.clave)
               THEN [nombre |-> ContarVotos.clave, mayus |-> TRUE]
               ELSE leader
  /\ CerrarElecciones

\* The world save, once the day of the vote has passed.
v_RutinaElecciones ==
  /\ EleccionesAbiertas
  /\ RevisarElecciones
  /\ UNCHANGED <<dipVars, pertenece, miembros, aspVars>>

--------------------------------------------------------------------------------
(* The relations, and the server *)

\* A treaty that a member of guild gi makes; of this guild, one of its members.
Diplomacia ==
  /\ \E gi, gig \in 1..CANTIDADDECLANES :
       /\ gi = 1 => \E n \in Name : pertenece[n]
       /\ Tratado(gi, gig)
  /\ UNCHANGED <<padronVars, aspVars, votVars>>

\* A restart, after a crash or not: the files stay, and those in the game have
\* again the GuildIndex of their charfiles, whichever it was.
Arrancar ==
  /\ \/ Reiniciar
     \/ \E gi, gig \in 1..CANTIDADDECLANES : TornTreaty(gi, gig)
  /\ \E deCharfile \in [Name -> BOOLEAN] :
       pertenece' = [n \in Name |-> Existe /\ deCharfile[n]]
  /\ UNCHANGED <<miembros, leader, aspVars, votVars>>

Next ==
  \/ Diplomacia
  \/ Arrancar
  \/ v_RutinaElecciones
  \/ \E u \in Name :
       \/ CrearNuevoClan(u)
       \/ a_NuevoAspirante(u)
       \/ m_ValidarPermanencia(u)
       \/ OtroClan(u)
       \/ v_AbrirElecciones(u)
       \/ \E n \in Name :
            \/ a_AceptarAspirante(u, n)
            \/ a_RechazarAspirante(u, n)
            \/ m_EcharMiembroDeClan(u, n)
            \/ v_UsuarioVota(u, n)

Spec == Init /\ [][Next]_vars

--------------------------------------------------------------------------------
(* Properties *)

\* Every variable holds a value of its kind; the file counts no more applications
\* than it has places for.
TypeOK ==
  /\ DipTypeOK
  /\ pertenece \in [Name -> BOOLEAN]
  /\ miembros \in Seq(Name) /\ Len(miembros) <= MaxMiembros
  /\ leader \in [nombre : Nombres, mayus : BOOLEAN]
  /\ solicitudes \in [Plazas -> Nombres]
  /\ CantSolicitudes \in 0..MAXASPIRANTES
  /\ EleccionesAbiertas \in BOOLEAN
  /\ votos \in [Name -> Nombres]

\* The applications are the first places of the file, as many as it says: the
\* lists that go to the leader read no empty one and miss none.
ApplicantsCompact ==
  \A i \in Plazas : solicitudes[i] # Nadie <=> i <= CantSolicitudes

\* No vote is left when no vote is on, to count in the next election.
BallotIsClean == ~EleccionesAbiertas => \A n \in Name : votos[n] = Nadie

\* The files of members, applicants and votes hold what the guild counts.
RegisterSound == TypeOK /\ ApplicantsCompact /\ BallotIsClean

\* How many entries of the list of members voted x.
VotosDe(x) == Cardinality({i \in DOMAIN miembros : votos[miembros[i]] = x})

\* x is a member with more votes than anyone else, member or not.
Gana(x) ==
  /\ \E i \in DOMAIN miembros : miembros[i] = x
  /\ \A y \in Name \ {x} : VotosDe(x) > VotosDe(y)

\* The leader changes only at the end of an election, to the one member that has
\* more votes than anyone else, and then it does: those who left do not count, who
\* left does not win, and a tie leaves the leader (entry 01 of the ledger).
LeaderIsElected ==
  [][/\ (EleccionesAbiertas /\ ~EleccionesAbiertas')
          => IF \E x \in Name : Gana(x) THEN Gana(leader'.nombre) ELSE leader' = leader
     /\ leader' # leader => EleccionesAbiertas \/ leader.nombre = Nadie]_vars

\* A vote stands, also of a member that leaves and comes back, until the election
\* is closed.
VotesStand ==
  [][\A n \in Name : votos[n] # Nadie /\ EleccionesAbiertas' => votos'[n] = votos[n]]_vars

================================================================================
