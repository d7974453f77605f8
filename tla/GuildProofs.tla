------------------------------ MODULE GuildProofs ------------------------------
(* Proofs about Diplomacy and Guild, for any number of guilds, characters and
   places: the vectors in memory are what the files say and relations are mutual,
   crashes included; the files of a guild hold what it counts, and the leader is
   the one that the votes of its members elect. *)
EXTENDS Guild, SequenceTheorems, FiniteSetTheorems, WellFoundedInduction, TLAPS

\* A guild that is not founded has peace in every file.
FilesAhead ==
  \A g, h \in Clanes :
     g > CANTIDADDECLANES \/ h > CANTIDADDECLANES => relaciones[g][h] = "PAZ"

\* The files of two guilds agree, unless a crash parted them.
FilesAgree ==
  \A g, h \in Clanes : {g, h} \notin torn => relaciones[g][h] = relaciones[h][g]

\* The inductive invariant. Agreement in memory follows from the files, which is
\* where it lasts; a foundation needs that the files say nothing of it yet.
DipInv == DipTypeOK /\ RelationsAreFiled /\ FilesAhead /\ FilesAgree

USE DEF Clanes

--------------------------------------------------------------------------------

\* What a guild would read is a vector with a relation for each guild.
LEMMA LeidasType ==
  ASSUME relaciones \in [Clanes -> [Clanes -> RELACIONES_GUILD]],
         NEW g \in Clanes, NEW cant \in 0..MAX_GUILDS
  PROVE  /\ Leidas(g, cant) \in Seq(RELACIONES_GUILD)
         /\ Len(Leidas(g, cant)) = cant
         /\ DOMAIN Leidas(g, cant) = 1..cant
         /\ \A h \in 1..cant : Leidas(g, cant)[h] = relaciones[g][h]
  <1> USE MaxGuildsAssumption
  <1>1. \A h \in 1..cant : h \in Clanes /\ relaciones[g][h] \in RELACIONES_GUILD
    OBVIOUS
  <1> QED BY <1>1 DEF Leidas

\* Reloading leaves every vector with what the files say.
LEMMA ReloadFiles ==
  ASSUME relaciones' \in [Clanes -> [Clanes -> RELACIONES_GUILD]],
         CANTIDADDECLANES \in 0..MAX_GUILDS, CANTIDADDECLANES' = CANTIDADDECLANES,
         Recargar
  PROVE  p_Relaciones' \in [Clanes -> Seq(RELACIONES_GUILD)] /\ RelationsAreFiled'
  <1> USE MaxGuildsAssumption
  <1>1. ASSUME NEW g \in Clanes
        PROVE  [h \in 1..CANTIDADDECLANES |-> relaciones'[g][h]] \in Seq(RELACIONES_GUILD)
    <2>1. \A h \in 1..CANTIDADDECLANES : h \in Clanes /\ relaciones'[g][h] \in RELACIONES_GUILD
      OBVIOUS
    <2> QED BY <2>1
  <1>2. <<>> \in Seq(RELACIONES_GUILD)
    OBVIOUS
  <1>3. p_Relaciones' \in [Clanes -> Seq(RELACIONES_GUILD)]
    BY <1>1, <1>2 DEF Recargar
  <1>4. RelationsAreFiled'
    <2>1. ASSUME NEW g \in 1..CANTIDADDECLANES
          PROVE  p_Relaciones'[g] = [h \in 1..CANTIDADDECLANES |-> relaciones'[g][h]]
      BY <2>1 DEF Recargar
    <2> QED BY <2>1 DEF RelationsAreFiled, Leidas
  <1> QED BY <1>3, <1>4

--------------------------------------------------------------------------------

\* A pair is made of two guilds in one order or the other.
LEMMA SamePair ==
  ASSUME NEW g, NEW h, NEW gi, NEW gig, {g, h} = {gi, gig}
  PROVE  (g = gi /\ h = gig) \/ (g = gig /\ h = gi)
  OBVIOUS

\* A whole treaty keeps the invariant, whichever relation it makes.
LEMMA PactarKeeps ==
  ASSUME DipInv, NEW gi \in 1..CANTIDADDECLANES, NEW gig \in 1..CANTIDADDECLANES, gi # gig,
         NEW relacion \in RELACIONES_GUILD, Pactar(gi, gig, relacion)
  PROVE  DipInv'
  <1> USE MaxGuildsAssumption
  <1>1. /\ gi \in Clanes /\ gig \in Clanes
        /\ CANTIDADDECLANES \in 0..MAX_GUILDS /\ CANTIDADDECLANES' = CANTIDADDECLANES
        /\ relaciones \in [Clanes -> [Clanes -> RELACIONES_GUILD]]
        /\ p_Relaciones \in [Clanes -> Seq(RELACIONES_GUILD)]
    BY DEF DipInv, DipTypeOK, Pactar
  <1>2. /\ relaciones' \in [Clanes -> [Clanes -> RELACIONES_GUILD]]
        /\ relaciones'[gi][gig] = relacion /\ relaciones'[gig][gi] = relacion
        /\ \A g, h \in Clanes : ~(g = gi /\ h = gig) /\ ~(g = gig /\ h = gi)
                                  => relaciones'[g][h] = relaciones[g][h]
    BY <1>1 DEF Pactar
  <1>3. \A g \in 1..CANTIDADDECLANES : p_Relaciones[g] = Leidas(g, CANTIDADDECLANES)
    BY DEF DipInv, RelationsAreFiled
  <1>4. ASSUME NEW g \in 1..CANTIDADDECLANES
        PROVE  /\ p_Relaciones'[g] \in Seq(RELACIONES_GUILD)
               /\ p_Relaciones'[g] = Leidas(g, CANTIDADDECLANES)'
    <2>1. /\ DOMAIN p_Relaciones[g] = 1..CANTIDADDECLANES
          /\ p_Relaciones[g] = [h \in 1..CANTIDADDECLANES |-> relaciones[g][h]]
          /\ p_Relaciones[g] \in Seq(RELACIONES_GUILD)
      BY <1>1, <1>3 DEF Leidas
    <2>2. CASE g = gi
      <3>1. p_Relaciones'[g] = [p_Relaciones[g] EXCEPT ![gig] = relacion]
        BY <1>1, <2>1, <2>2 DEF Pactar, SetRelacion
      <3>2. ASSUME NEW h \in 1..CANTIDADDECLANES
            PROVE  [p_Relaciones[g] EXCEPT ![gig] = relacion][h] = relaciones'[g][h]
        <4>1. h \in Clanes /\ g \in Clanes
          BY <1>1
        <4>2. CASE h = gig
          BY <1>2, <2>1, <2>2, <4>2
        <4>3. CASE h # gig
          <5>1. relaciones'[g][h] = relaciones[g][h]
            BY <1>2, <4>1, <2>2, <4>3
          <5> QED BY <2>1, <4>3, <5>1
        <4> QED BY <4>2, <4>3
      <3>3. p_Relaciones'[g] = [h \in 1..CANTIDADDECLANES |-> relaciones'[g][h]]
        BY <2>1, <3>1, <3>2
      <3> QED BY <1>1, <2>1, <3>1, <3>3 DEF Leidas
    <2>3. CASE g = gig
      <3>1. p_Relaciones'[g] = [p_Relaciones[g] EXCEPT ![gi] = relacion]
        BY <1>1, <2>1, <2>3 DEF Pactar, SetRelacion
      <3>2. ASSUME NEW h \in 1..CANTIDADDECLANES
            PROVE  [p_Relaciones[g] EXCEPT ![gi] = relacion][h] = relaciones'[g][h]
        <4>1. h \in Clanes /\ g \in Clanes
          BY <1>1
        <4>2. CASE h = gi
          BY <1>2, <2>1, <2>3, <4>2
        <4>3. CASE h # gi
          <5>1. relaciones'[g][h] = relaciones[g][h]
            BY <1>2, <4>1, <2>3, <4>3
          <5> QED BY <2>1, <4>3, <5>1
        <4> QED BY <4>2, <4>3
      <3>3. p_Relaciones'[g] = [h \in 1..CANTIDADDECLANES |-> relaciones'[g][h]]
        BY <2>1, <3>1, <3>2
      <3> QED BY <1>1, <2>1, <3>1, <3>3 DEF Leidas
    <2>4. CASE g # gi /\ g # gig
      <3>1. p_Relaciones'[g] = p_Relaciones[g]
        BY <1>1, <2>4 DEF Pactar
      <3>2. \A h \in 1..CANTIDADDECLANES : relaciones'[g][h] = relaciones[g][h]
        BY <1>1, <1>2, <2>4
      <3> QED BY <1>1, <2>1, <3>1, <3>2 DEF Leidas
    <2> QED BY <2>2, <2>3, <2>4
  <1>5. p_Relaciones' \in [Clanes -> Seq(RELACIONES_GUILD)]
    <2>1. ASSUME NEW g \in Clanes, g \notin 1..CANTIDADDECLANES
          PROVE  p_Relaciones'[g] = p_Relaciones[g]
      BY <1>1, <2>1 DEF Pactar
    <2>2. p_Relaciones' = [g \in Clanes |-> p_Relaciones'[g]]
      BY <1>1 DEF Pactar
    <2> QED BY <1>1, <1>4, <2>1, <2>2
  <1>6. DipTypeOK'
    BY <1>1, <1>2, <1>5 DEF DipTypeOK, DipInv, Pactar
  <1>7. RelationsAreFiled'
    BY <1>1, <1>4 DEF RelationsAreFiled
  <1>8. FilesAhead'
    BY <1>1, <1>2 DEF FilesAhead, DipInv
  <1>9. FilesAgree'
    <2> SUFFICES ASSUME NEW g \in Clanes, NEW h \in Clanes, {g, h} \notin torn'
                 PROVE  relaciones'[g][h] = relaciones'[h][g]
      BY DEF FilesAgree
    <2>1. CASE {g, h} = {gi, gig}
      BY <1>2, <2>1, SamePair
    <2>2. CASE {g, h} # {gi, gig}
      <3>1. {g, h} \notin torn
        BY <2>2 DEF Pactar
      <3>2. relaciones[g][h] = relaciones[h][g]
        BY <3>1 DEF DipInv, FilesAgree
      <3>3. ~(g = gi /\ h = gig) /\ ~(g = gig /\ h = gi)
        BY <2>2
      <3> QED BY <1>2, <3>2, <3>3
    <2> QED BY <2>1, <2>2
  <1> QED BY <1>6, <1>7, <1>8, <1>9 DEF DipInv

\* A treaty that a crash cuts in two keeps it: the pair is known to be torn.
LEMMA TornKeeps ==
  ASSUME DipInv, NEW gi \in 1..CANTIDADDECLANES, NEW gig \in 1..CANTIDADDECLANES,
         TornTreaty(gi, gig)
  PROVE  DipInv'
  <1> USE MaxGuildsAssumption
  <1>1. /\ gi \in Clanes /\ gig \in Clanes
        /\ CANTIDADDECLANES \in 0..MAX_GUILDS /\ CANTIDADDECLANES' = CANTIDADDECLANES
        /\ relaciones \in [Clanes -> [Clanes -> RELACIONES_GUILD]]
    BY DEF DipInv, DipTypeOK, TornTreaty
  <1>2. /\ relaciones' \in [Clanes -> [Clanes -> RELACIONES_GUILD]]
        /\ \A g, h \in Clanes : ~(g = gi /\ h = gig) => relaciones'[g][h] = relaciones[g][h]
    BY <1>1 DEF TornTreaty
  <1>3. p_Relaciones' \in [Clanes -> Seq(RELACIONES_GUILD)] /\ RelationsAreFiled'
    BY <1>1, <1>2, ReloadFiles DEF TornTreaty
  <1>4. DipTypeOK'
    BY <1>1, <1>2, <1>3 DEF DipTypeOK, DipInv, TornTreaty
  <1>5. FilesAhead'
    BY <1>1, <1>2 DEF FilesAhead, DipInv
  <1>6. FilesAgree'
    <2> SUFFICES ASSUME NEW g \in Clanes, NEW h \in Clanes, {g, h} \notin torn'
                 PROVE  relaciones'[g][h] = relaciones'[h][g]
      BY DEF FilesAgree
    <2>1. {g, h} \notin torn /\ {g, h} # {gi, gig}
      BY DEF TornTreaty
    <2>2. ~(g = gi /\ h = gig) /\ ~(h = gi /\ g = gig)
      BY <2>1
    <2> QED BY <1>2, <2>1, <2>2 DEF DipInv, FilesAgree
  <1> QED BY <1>3, <1>4, <1>5, <1>6 DEF DipInv

\* A restart between commands keeps it.
LEMMA RestartKeeps ==
  ASSUME DipInv, Reiniciar
  PROVE  DipInv'
  <1>1. p_Relaciones' \in [Clanes -> Seq(RELACIONES_GUILD)] /\ RelationsAreFiled'
    BY ReloadFiles DEF DipInv, DipTypeOK, Reiniciar
  <1> QED BY <1>1 DEF DipInv, DipTypeOK, FilesAhead, FilesAgree, Reiniciar

\* A foundation keeps it: every vector grows by the peace that the files have.
LEMMA FoundingKeeps ==
  ASSUME DipInv, Fundar
  PROVE  DipInv'
  <1> USE MaxGuildsAssumption
  <1> DEFINE n == CANTIDADDECLANES
  <1>1. /\ n \in Nat /\ n + 1 \in Clanes /\ CANTIDADDECLANES' = n + 1
        /\ relaciones' = relaciones /\ torn' = torn
        /\ relaciones \in [Clanes -> [Clanes -> RELACIONES_GUILD]]
        /\ p_Relaciones \in [Clanes -> Seq(RELACIONES_GUILD)]
    BY DEF DipInv, DipTypeOK, Fundar
  <1>2. ASSUME NEW g \in 1..n
        PROVE  /\ p_Relaciones'[g] \in Seq(RELACIONES_GUILD)
               /\ p_Relaciones'[g] = [h \in 1..(n + 1) |-> relaciones[g][h]]
    <2>1. g \in Clanes /\ p_Relaciones'[g] = Append(p_Relaciones[g], "PAZ")
      BY <1>1, <1>2 DEF Fundar, ProcesarFundacionDeOtroClan
    <2>2. p_Relaciones[g] \in Seq(RELACIONES_GUILD) /\ "PAZ" \in RELACIONES_GUILD
      BY <1>1, <2>1 DEF RELACIONES_GUILD
    <2>3. p_Relaciones[g] = [h \in 1..n |-> relaciones[g][h]]
      BY <1>2 DEF DipInv, RelationsAreFiled, Leidas
    <2>4. Len(p_Relaciones[g]) = n
      BY <1>1, <2>2, <2>3
    <2>5. relaciones[g][n + 1] = "PAZ"
      BY <1>1, <2>1 DEF DipInv, FilesAhead
    <2>6. ASSUME NEW h \in 1..(n + 1)
          PROVE  Append(p_Relaciones[g], "PAZ")[h] = relaciones[g][h]
      <3>1. CASE h = n + 1
        <4>1. Append(p_Relaciones[g], "PAZ")[Len(p_Relaciones[g]) + 1] = "PAZ"
          BY <2>2, AppendProperties
        <4> QED BY <2>4, <2>5, <3>1, <4>1
      <3>2. CASE h # n + 1
        BY <1>1, <2>2, <2>3, <2>4, <3>2
      <3> QED BY <3>1, <3>2
    <2>7. /\ Append(p_Relaciones[g], "PAZ") \in Seq(RELACIONES_GUILD)
          /\ DOMAIN Append(p_Relaciones[g], "PAZ") = 1..(n + 1)
          /\ Append(p_Relaciones[g], "PAZ")
               = [h \in DOMAIN Append(p_Relaciones[g], "PAZ") |-> Append(p_Relaciones[g], "PAZ")[h]]
      BY <1>1, <2>2, <2>4
    <2> QED BY <2>1, <2>6, <2>7
  <1>3. /\ p_Relaciones'[n + 1] = Leidas(n + 1, n + 1)
        /\ p_Relaciones'[n + 1] \in Seq(RELACIONES_GUILD)
    <2>1. p_Relaciones'[n + 1] = Leidas(n + 1, n + 1)
      BY <1>1 DEF Fundar
    <2> QED BY <1>1, <2>1, LeidasType
  <1>4. p_Relaciones' \in [Clanes -> Seq(RELACIONES_GUILD)]
    <2>1. ASSUME NEW g \in Clanes, g \notin 1..(n + 1)
          PROVE  p_Relaciones'[g] = p_Relaciones[g]
      BY <1>1, <2>1 DEF Fundar
    <2>2. p_Relaciones' = [g \in Clanes |-> p_Relaciones'[g]]
      BY DEF Fundar
    <2>3. ASSUME NEW g \in Clanes PROVE p_Relaciones'[g] \in Seq(RELACIONES_GUILD)
      <3>1. CASE g \in 1..n
        BY <1>2, <3>1
      <3>2. CASE g = n + 1
        BY <1>3, <3>2
      <3>3. CASE g \notin 1..(n + 1)
        BY <1>1, <2>1, <3>3
      <3> QED BY <1>1, <3>1, <3>2, <3>3
    <2> QED BY <2>2, <2>3
  <1>5. DipTypeOK'
    BY <1>1, <1>4 DEF DipTypeOK, DipInv
  <1>6. RelationsAreFiled'
    <2> SUFFICES ASSUME NEW g \in 1..(n + 1)
                 PROVE  p_Relaciones'[g] = [h \in 1..(n + 1) |-> relaciones[g][h]]
      BY <1>1 DEF RelationsAreFiled, Leidas
    <2>1. CASE g = n + 1
      BY <1>3, <2>1 DEF Leidas
    <2>2. CASE g # n + 1
      <3>1. g \in 1..n
        BY <1>1, <2>2
      <3> QED BY <1>2, <3>1
    <2> QED BY <2>1, <2>2
  <1>7. FilesAhead' /\ FilesAgree'
    BY <1>1 DEF FilesAhead, FilesAgree, DipInv
  <1> QED BY <1>5, <1>6, <1>7 DEF DipInv

--------------------------------------------------------------------------------

\* Whatever happens to the relations keeps it.
LEMMA DipStep == DipInv /\ [DipNext]_dipVars => DipInv'
  <1> SUFFICES ASSUME DipInv, [DipNext]_dipVars PROVE DipInv'
    OBVIOUS
  <1>1. CASE Fundar
    BY <1>1, FoundingKeeps
  <1>2. CASE \E gi, gig \in 1..CANTIDADDECLANES : Tratado(gi, gig)
    <2>1. PICK gi \in 1..CANTIDADDECLANES, gig \in 1..CANTIDADDECLANES : Tratado(gi, gig)
      BY <1>2
    <2>2. gi # gig /\ \E relacion \in RELACIONES_GUILD : Pactar(gi, gig, relacion)
      BY <2>1 DEF Tratado, r_DeclararGuerra, r_AceptarPropuestaDePaz,
                  r_AceptarPropuestaDeAlianza, RELACIONES_GUILD
    <2> QED BY <2>2, PactarKeeps
  <1>3. CASE \E gi, gig \in 1..CANTIDADDECLANES : TornTreaty(gi, gig)
    BY <1>3, TornKeeps
  <1>4. CASE Reiniciar
    BY <1>4, RestartKeeps
  <1>5. CASE UNCHANGED dipVars
    BY <1>5 DEF DipInv, DipTypeOK, RelationsAreFiled, FilesAhead, FilesAgree, Leidas, dipVars
  <1> QED BY <1>1, <1>2, <1>3, <1>4, <1>5 DEF DipNext

\* It holds of a server without guilds.
LEMMA DipBegins == DipInit => DipInv
  <1> USE MaxGuildsAssumption
  <1> SUFFICES ASSUME DipInit PROVE DipInv
    OBVIOUS
  <1>1. DipTypeOK
    BY DEF DipInit, DipTypeOK, RELACIONES_GUILD
  <1>2. RelationsAreFiled
    BY DEF DipInit, RelationsAreFiled
  <1>3. FilesAhead /\ FilesAgree
    BY DEF DipInit, FilesAhead, FilesAgree
  <1> QED BY <1>1, <1>2, <1>3 DEF DipInv

\* Types, files and vectors stay as DipInv says, for every number of guilds.
THEOREM DipInvariant == DipSpec => []DipInv
  BY DipBegins, DipStep, PTL DEF DipSpec

\* The vectors in memory are what a restart would read, for every number of guilds.
THEOREM RelationsFiled == DipSpec => []RelationsAreFiled
  <1>1. DipInv => RelationsAreFiled
    BY DEF DipInv
  <1> QED BY <1>1, DipInvariant, PTL

\* War, peace and alliance are mutual, for every number of guilds, unless a crash
\* cut the pair's last treaty.
THEOREM RelationsMutual == DipSpec => []RelationsAgree
  <1>1. DipInv => RelationsAgree
    <2> SUFFICES ASSUME DipInv, NEW g \in 1..CANTIDADDECLANES, NEW h \in 1..CANTIDADDECLANES,
                        {g, h} \notin torn
                 PROVE  p_Relaciones[g][h] = p_Relaciones[h][g]
      BY DEF RelationsAgree
    <2>1. g \in Clanes /\ h \in Clanes
      BY MaxGuildsAssumption DEF DipInv, DipTypeOK
    <2>2. p_Relaciones[g][h] = relaciones[g][h] /\ p_Relaciones[h][g] = relaciones[h][g]
      BY DEF DipInv, RelationsAreFiled, Leidas
    <2> QED BY <2>1, <2>2 DEF DipInv, FilesAgree
  <1> QED BY <1>1, DipInvariant, PTL

--------------------------------------------------------------------------------
(* Walks along a list *)

\* A set of naturals that is not empty has a least element.
LEMMA LeastOf ==
  ASSUME NEW T \in SUBSET Nat, T # {}
  PROVE  \E m \in T : \A k \in T : m <= k
<1> DEFINE R == OpToRel(<, Nat)
<1>1. R = {ss \in Nat \X Nat : ss[1] < ss[2]}
  BY Zenon DEF OpToRel
<1>2. IsWellFoundedOn(R, Nat)
  BY NatLessThanWellFounded
<1> HIDE DEF R
<1>3. PICK m \in T : \A k \in T : ~ (<<k, m>> \in R)
  BY <1>2, WFMin
<1>4. ASSUME NEW k \in T PROVE m <= k
  <2>1. <<k, m>> \in Nat \X Nat /\ <<k, m>>[1] = k /\ <<k, m>>[2] = m
    OBVIOUS
  <2>2. ~(k < m)
    BY <1>1, <1>3, <2>1
  <2> QED BY <2>2
<1> QED BY <1>4

\* The set of indices that have a property, if the first has it and each hands it on.
LEMMA AlongIndices ==
  ASSUME NEW n \in Nat, NEW S, 0 \in S, \A i \in 1..n : i - 1 \in S => i \in S
  PROVE  \A i \in 0..n : i \in S
  <1> DEFINE bad == {i \in Nat : i \in 0..n /\ i \notin S}
  <1> SUFFICES ASSUME bad # {} PROVE FALSE
    OBVIOUS
  <1>1. PICK m \in bad : \A k \in bad : m <= k
    <2> HIDE DEF bad
    <2>1. bad \subseteq Nat
      BY DEF bad
    <2> QED BY <2>1, LeastOf
  <1>2. m \in 1..n
    BY <1>1
  <1>3. m - 1 \in S
    <2>1. m - 1 \notin bad
      BY <1>1, <1>2
    <2> QED BY <1>2, <2>1
  <1> QED BY <1>1, <1>2, <1>3

\* A function that is computed index by index, from a step in D, exists.
LEMMA WalkExists ==
  ASSUME NEW D, NEW d0 \in D, NEW n \in Nat, NEW step \in [1..n -> [D -> D]]
  PROVE  \E h \in [0..n -> D] : h[0] = d0 /\ \A i \in 1..n : h[i] = step[i][h[i - 1]]
  <1> DEFINE Walk(h, k) == /\ h \in [0..k -> D] /\ h[0] = d0
                           /\ \A i \in 1..k : h[i] = step[i][h[i - 1]]
             S == {k \in 0..n : \E h : Walk(h, k)}
  <1>1. 0 \in S
    <2> DEFINE h == [i \in 0..0 |-> d0]
    <2>1. Walk(h, 0)
      OBVIOUS
    <2> HIDE DEF Walk, h
    <2> QED BY <2>1
  <1>2. ASSUME NEW k \in 1..n, k - 1 \in S PROVE k \in S
    <2>1. PICK h : Walk(h, k - 1)
      BY <1>2
    <2>2. h \in [0..(k - 1) -> D] /\ h[0] = d0 /\ k - 1 \in 0..(k - 1)
      BY <2>1
    <2> DEFINE g == [i \in 0..k |-> IF i = k THEN step[k][h[k - 1]] ELSE h[i]]
    <2>3. step[k][h[k - 1]] \in D
      BY <2>2
    <2>4. \A i \in 0..(k - 1) : g[i] = h[i]
      OBVIOUS
    <2>5. g \in [0..k -> D] /\ g[0] = d0
      <3>1. \A i \in 0..k : i # k => i \in 0..(k - 1)
        OBVIOUS
      <3>2. 0 \in 0..(k - 1)
        OBVIOUS
      <3>3. ASSUME NEW i \in 0..k PROVE (IF i = k THEN step[k][h[k - 1]] ELSE h[i]) \in D
        BY <2>2, <2>3, <3>1
      <3>4. g \in [0..k -> D]
        BY <3>3
      <3> QED BY <2>2, <2>4, <3>2, <3>4
    <2>6. ASSUME NEW i \in 1..k PROVE g[i] = step[i][g[i - 1]]
      <3>0. i - 1 \in 0..(k - 1) /\ g[i - 1] = h[i - 1]
        <4>1. i - 1 \in 0..(k - 1)
          OBVIOUS
        <4> QED BY <2>4, <4>1
      <3>1. CASE i = k
        <4>1. g[i] = step[k][h[k - 1]]
          BY <3>1
        <4> QED BY <3>0, <3>1, <4>1
      <3>2. CASE i # k
        <4>1. i \in 1..(k - 1) /\ i \in 0..(k - 1)
          BY <3>2
        <4>2. g[i] = h[i] /\ h[i] = step[i][h[i - 1]]
          BY <2>1, <2>4, <4>1
        <4> QED BY <3>0, <4>2
      <3> QED BY <3>1, <3>2
    <2>7. Walk(g, k)
      <3> HIDE DEF g
      <3> QED BY <2>5, <2>6
    <2> HIDE DEF Walk, g
    <2> QED BY <2>7
  <1>3. n \in S
    <2> HIDE DEF S
    <2>1. \A k \in 0..n : k \in S
      BY <1>1, <1>2, AlongIndices
    <2> QED BY <2>1
  <1> HIDE DEF Walk
  <1>4. PICK h : Walk(h, n)
    BY <1>3
  <1> QED BY <1>4 DEF Walk

--------------------------------------------------------------------------------
(* The list of members *)

\* The entries that stay are a list of names, no longer than it was.
LEMMA QuedanType ==
  ASSUME NEW lista \in Seq(Name), NEW permitidos
  PROVE  Quedan(lista, permitidos) \in Seq(Name) /\ Len(Quedan(lista, permitidos)) <= Len(lista)
  <1> DEFINE n == Len(lista)
             G(w, i) == IF lista[i] \in permitidos THEN Append(w, lista[i]) ELSE w
             F(w, i) == IF i = 0 THEN <<>> ELSE G(w, i)
             Fits(h) == h = [i \in 0..n |-> F(h[i - 1], i)]
             tras == CHOOSE h : Fits(h)
  <1>1. n \in Nat /\ \A i \in 1..n : lista[i] \in Name
    OBVIOUS
  <1>2. ASSUME NEW w \in Seq(Name), NEW i \in 1..n
        PROVE  G(w, i) \in Seq(Name) /\ Len(G(w, i)) <= Len(w) + 1
    <2>1. Append(w, lista[i]) \in Seq(Name) /\ Len(Append(w, lista[i])) = Len(w) + 1
      BY <1>1, AppendProperties
    <2> QED BY <2>1
  <1> HIDE DEF n, G
  <1>3. \E h : Fits(h)
    <2> DEFINE step == [i \in 1..n |-> [w \in Seq(Name) |-> G(w, i)]]
    <2>1. step \in [1..n -> [Seq(Name) -> Seq(Name)]]
      BY <1>2
    <2>2. <<>> \in Seq(Name)
      OBVIOUS
    <2> HIDE DEF step
    <2>3. PICK h \in [0..n -> Seq(Name)] :
            h[0] = <<>> /\ \A i \in 1..n : h[i] = step[i][h[i - 1]]
      <3> DEFINE D == Seq(Name)
                 d0 == <<>>
      <3>1. d0 \in D /\ n \in Nat /\ step \in [1..n -> [D -> D]]
        BY <1>1, <2>1, <2>2
      <3> HIDE DEF D, d0
      <3>2. \E h \in [0..n -> D] : h[0] = d0 /\ \A i \in 1..n : h[i] = step[i][h[i - 1]]
        BY ONLY <3>1, WalkExists
      <3> QED BY <3>2 DEF D, d0
    <2>4. ASSUME NEW i \in 0..n PROVE h[i] = F(h[i - 1], i)
      <3>1. CASE i = 0
        BY <2>3, <3>1
      <3>2. CASE i # 0
        <4>1. i \in 1..n /\ i - 1 \in 0..n
          BY <1>1, <3>2
        <4>2. h[i] = G(h[i - 1], i)
          BY <2>3, <4>1 DEF step
        <4> QED BY <3>2, <4>2
      <3> QED BY <3>1, <3>2
    <2>5. h = [i \in 0..n |-> h[i]]
      OBVIOUS
    <2>6. Fits(h)
      <3> HIDE DEF F
      <3> QED BY <2>4, <2>5
    <2> HIDE DEF Fits
    <2> QED BY <2>6
  <1>4. Fits(tras)
    <2> HIDE DEF Fits
    <2> QED BY <1>3
  <1>5. Quedan(lista, permitidos) = tras[n]
    BY DEF Quedan, n, G
  <1> HIDE DEF tras
  <1>6. tras[0] = <<>> /\ \A i \in 1..n : tras[i] = G(tras[i - 1], i)
    <2>1. \A i \in 0..n : tras[i] = F(tras[i - 1], i)
      <3> HIDE DEF F
      <3> QED BY <1>4
    <2>2. 0 \in 0..n /\ \A i \in 1..n : i \in 0..n /\ i # 0
      BY <1>1
    <2> QED BY <2>1, <2>2
  <1> HIDE DEF Fits, F
  <1> DEFINE S == {i \in Nat : tras[i] \in Seq(Name) /\ Len(tras[i]) <= i}
  <1>7. 0 \in S
    <2>1. <<>> \in Seq(Name) /\ Len(<<>>) <= 0
      OBVIOUS
    <2>2. tras[0] \in Seq(Name) /\ Len(tras[0]) <= 0
      BY <1>6, <2>1
    <2> QED BY <2>2
  <1>8. ASSUME NEW i \in 1..n, i - 1 \in S PROVE i \in S
    <2>1. i \in Nat /\ tras[i - 1] \in Seq(Name) /\ Len(tras[i - 1]) <= i - 1 /\ Len(tras[i - 1]) \in Nat
      BY <1>1, <1>8
    <2>2. /\ tras[i] \in Seq(Name) /\ Len(tras[i]) <= Len(tras[i - 1]) + 1
      BY <1>2, <1>6, <2>1
    <2>3. Len(tras[i]) \in Nat
      BY <2>2
    <2>4. Len(tras[i]) <= i
      BY <2>1, <2>2, <2>3
    <2> QED BY <2>1, <2>2, <2>4
  <1>9. n \in S
    <2> HIDE DEF S
    <2>1. \A i \in 0..n : i \in S
      BY <1>1, <1>7, <1>8, AlongIndices
    <2> QED BY <1>1, <2>1
  <1> QED BY <1>5, <1>9 DEF n

\* So is the list without one entry.
LEMMA ExpulsarType ==
  ASSUME NEW lista \in Seq(Name), NEW n
  PROVE  /\ ExpulsarMiembro(lista, n) \in Seq(Name)
         /\ Len(ExpulsarMiembro(lista, n)) <= Len(lista)
  <1>1. ASSUME NEW i \in 1..Len(lista)
        PROVE  RemoveAt(lista, i) \in Seq(Name) /\ Len(RemoveAt(lista, i)) <= Len(lista)
    <2> DEFINE a == SubSeq(lista, 1, i - 1)
               b == SubSeq(lista, i + 1, Len(lista))
    <2>1. a \in Seq(Name) /\ b \in Seq(Name) /\ Len(a) = i - 1 /\ Len(b) = Len(lista) - i
      OBVIOUS
    <2> HIDE DEF a, b
    <2>2. a \o b \in Seq(Name) /\ Len(a \o b) = Len(a) + Len(b)
      BY <2>1, ConcatProperties
    <2>3. RemoveAt(lista, i) = a \o b
      BY DEF RemoveAt, a, b
    <2> QED BY <2>1, <2>2, <2>3
  <1>2. CASE \E i \in DOMAIN lista : lista[i] = n
    <2>1. \E i \in 1..Len(lista) : lista[i] = n /\ \A j \in 1..(i - 1) : lista[j] # n
      <3> DEFINE T == {i \in Nat : i \in 1..Len(lista) /\ lista[i] = n}
      <3>1. T # {}
        BY <1>2
      <3>2. PICK i \in T : \A k \in T : i <= k
        <4>1. T \subseteq Nat
          OBVIOUS
        <4> HIDE DEF T
        <4> QED BY <3>1, <4>1, LeastOf
      <3>3. \A j \in 1..(i - 1) : j \notin T /\ j \in Nat /\ j \in 1..Len(lista)
        BY <3>2
      <3> QED BY <3>2, <3>3
    <2> DEFINE i == CHOOSE i \in DOMAIN lista : lista[i] = n /\ \A j \in 1..(i - 1) : lista[j] # n
    <2>2. i \in 1..Len(lista)
      BY <2>1
    <2> HIDE DEF i
    <2>3. RemoveAt(lista, i) \in Seq(Name) /\ Len(RemoveAt(lista, i)) <= Len(lista)
      BY <1>1, <2>2
    <2>4. ExpulsarMiembro(lista, n) = RemoveAt(lista, i)
      BY <1>2 DEF ExpulsarMiembro, i
    <2> QED BY <2>3, <2>4
  <1>3. CASE ~\E i \in DOMAIN lista : lista[i] = n
    BY <1>3 DEF ExpulsarMiembro
  <1> QED BY <1>2, <1>3

--------------------------------------------------------------------------------
(* The register of the guild *)

\* While there is no guild it has no leader, no vote and nobody in it.
Fundado ==
  IF Existe THEN leader.nombre \in Name
  ELSE leader.nombre = Nadie /\ ~EleccionesAbiertas /\ \A n \in Name : ~pertenece[n]

\* The inductive invariant. That the relations are sound bounds the number of
\* guilds; that nobody is in a guild before its foundation keeps votes from it.
GuildInv == DipInv /\ RegisterSound /\ Fundado

\* What the types say of the register alone.
LEMMA RegisterType ==
  GuildInv => /\ CANTIDADDECLANES \in 0..MAX_GUILDS
              /\ pertenece \in [Name -> BOOLEAN]
              /\ miembros \in Seq(Name) /\ Len(miembros) <= MaxMiembros
              /\ leader \in [nombre : Nombres, mayus : BOOLEAN]
              /\ solicitudes \in [Plazas -> Nombres]
              /\ CantSolicitudes \in 0..MAXASPIRANTES
              /\ EleccionesAbiertas \in BOOLEAN
              /\ votos \in [Name -> Nombres]
              /\ ApplicantsCompact /\ BallotIsClean
  BY DEF GuildInv, RegisterSound, TypeOK, DipTypeOK

\* A command of a guild changes the relations as Diplomacy says, or not at all.
LEMMA RelationsFollow == [Next]_vars => [DipNext]_dipVars
  <1> SUFFICES ASSUME [Next]_vars PROVE [DipNext]_dipVars
    OBVIOUS
  <1>1. CASE Diplomacia
    BY <1>1 DEF Diplomacia, DipNext
  <1>2. CASE Arrancar
    BY <1>2 DEF Arrancar, DipNext
  <1>3. CASE v_RutinaElecciones
    BY <1>3 DEF v_RutinaElecciones
  <1>4. ASSUME NEW u \in Name, CrearNuevoClan(u) PROVE DipNext
    BY <1>4 DEF CrearNuevoClan, DipNext
  <1>5. ASSUME NEW u \in Name,
               \/ a_NuevoAspirante(u) \/ m_ValidarPermanencia(u) \/ OtroClan(u)
               \/ v_AbrirElecciones(u)
        PROVE  UNCHANGED dipVars
    BY <1>5 DEF a_NuevoAspirante, m_ValidarPermanencia, OtroClan, v_AbrirElecciones
  <1>6. ASSUME NEW u \in Name, NEW n \in Name,
               \/ a_AceptarAspirante(u, n) \/ a_RechazarAspirante(u, n)
               \/ m_EcharMiembroDeClan(u, n) \/ v_UsuarioVota(u, n)
        PROVE  UNCHANGED dipVars
    BY <1>6 DEF a_AceptarAspirante, a_RechazarAspirante, m_EcharMiembroDeClan, v_UsuarioVota
  <1>7. CASE UNCHANGED vars
    BY <1>7 DEF vars
  <1> QED BY <1>1, <1>2, <1>3, <1>4, <1>5, <1>6, <1>7 DEF Next

\* Every place of an application with a name is found.
LEMMA AspiranteFound ==
  ASSUME NEW n, NumeroDeAspirante(n) > 0, MAXASPIRANTES \in Nat
  PROVE  NumeroDeAspirante(n) \in Plazas /\ solicitudes[NumeroDeAspirante(n)] = n
  <1>1. \E i \in Plazas : solicitudes[i] = n
    <2>1. ~(0 > 0)
      OBVIOUS
    <2> QED BY <2>1 DEF NumeroDeAspirante
  <1> DEFINE T == {i \in Nat : i \in Plazas /\ solicitudes[i] = n}
  <1>2. PICK i \in T : \A k \in T : i <= k
    <2>1. T # {} /\ T \subseteq Nat
      BY <1>1 DEF Plazas
    <2> HIDE DEF T
    <2> QED BY <2>1, LeastOf
  <1>3. i \in Plazas /\ solicitudes[i] = n /\ \A j \in 1..(i - 1) : solicitudes[j] # n
    <2>1. \A j \in 1..(i - 1) : j \in Plazas /\ j \in Nat /\ ~(i <= j)
      BY <1>2 DEF Plazas
    <2> QED BY <1>2, <2>1
  <1> QED BY <1>1, <1>3 DEF NumeroDeAspirante

\* Withdrawing an application leaves the others in the first places.
LEMMA RetirarKeeps ==
  ASSUME GuildInv, NEW n \in Name, NumeroDeAspirante(n) > 0,
         RetirarAspirante(NumeroDeAspirante(n))
  PROVE  /\ solicitudes' \in [Plazas -> Nombres] /\ CantSolicitudes' \in 0..MAXASPIRANTES
         /\ ApplicantsCompact'
  <1> DEFINE p == NumeroDeAspirante(n)
             M == MAXASPIRANTES
  <1>1. M \in Nat /\ Nadie \notin Name
    BY GuildAssumption
  <1>2. p \in Plazas /\ solicitudes[p] = n
    BY <1>1, AspiranteFound
  <1>3. /\ solicitudes \in [Plazas -> Nombres] /\ CantSolicitudes \in 0..M
        /\ \A i \in Plazas : solicitudes[i] # Nadie <=> i <= CantSolicitudes
    BY RegisterType DEF ApplicantsCompact
  <1>4. p <= CantSolicitudes /\ CantSolicitudes > 0 /\ p \in 1..M
    BY <1>1, <1>2, <1>3 DEF Plazas
  <1> HIDE DEF p
  <1>5. /\ solicitudes' = [j \in Plazas |-> IF j < p THEN solicitudes[j]
                                            ELSE IF j < M THEN solicitudes[j + 1] ELSE Nadie]
        /\ CantSolicitudes' = CantSolicitudes - 1
    BY <1>3, <1>4 DEF RetirarAspirante, p
  <1>6. ASSUME NEW j \in Plazas
        PROVE  solicitudes'[j] \in Nombres /\ (solicitudes'[j] # Nadie <=> j <= CantSolicitudes')
    <2>1. CASE j < p
      BY <1>3, <1>4, <1>5, <2>1 DEF Plazas
    <2>2. CASE ~(j < p) /\ j < M
      <3>1. j + 1 \in Plazas /\ solicitudes'[j] = solicitudes[j + 1]
        BY <1>1, <1>4, <1>5, <2>2 DEF Plazas
      <3>2. j + 1 <= CantSolicitudes <=> j <= CantSolicitudes - 1
        BY <1>3 DEF Plazas
      <3> QED BY <1>3, <1>5, <3>1, <3>2
    <2>3. CASE ~(j < p) /\ ~(j < M)
      <3>1. solicitudes'[j] = Nadie
        BY <1>5, <2>3
      <3>2. ~(j <= CantSolicitudes')
        BY <1>1, <1>3, <1>5, <2>3 DEF Plazas
      <3> QED BY <3>1, <3>2 DEF Nombres
    <2> QED BY <2>1, <2>2, <2>3
  <1>7. solicitudes' = [j \in Plazas |-> solicitudes'[j]]
    BY <1>5
  <1>8. solicitudes' \in [Plazas -> Nombres]
    BY <1>6, <1>7
  <1>9. CantSolicitudes' \in 0..M
    BY <1>1, <1>3, <1>4, <1>5
  <1> QED BY <1>6, <1>8, <1>9 DEF ApplicantsCompact, Plazas

\* So does a new one, in the first place after them.
LEMMA AspirarKeeps ==
  ASSUME GuildInv, NEW n \in Name, CantSolicitudes < MAXASPIRANTES, NuevoAspirante(n)
  PROVE  /\ solicitudes' \in [Plazas -> Nombres] /\ CantSolicitudes' \in 0..MAXASPIRANTES
         /\ ApplicantsCompact'
  <1> DEFINE c == CantSolicitudes
  <1>1. MAXASPIRANTES \in Nat /\ Nadie \notin Name
    BY GuildAssumption
  <1>2. /\ solicitudes \in [Plazas -> Nombres] /\ c \in 0..MAXASPIRANTES
        /\ \A i \in Plazas : solicitudes[i] # Nadie <=> i <= c
    BY RegisterType DEF ApplicantsCompact
  <1>3. c + 1 \in Plazas
    BY <1>1, <1>2 DEF Plazas
  <1>4. ASSUME NEW i \in Plazas PROVE EsLibre(i) <=> i = c + 1
    <2>1. \A j \in 1..(i - 1) : j \in Plazas
      BY <1>1 DEF Plazas
    <2>2. CASE i <= c
      BY <1>2, <2>2 DEF EsLibre, Plazas
    <2>3. CASE i = c + 1
      <3>1. \A j \in 1..(i - 1) : j <= c
        BY <1>2, <2>3
      <3>2. ~(i <= c)
        BY <1>2, <2>3
      <3> QED BY <1>2, <2>1, <2>3, <3>1, <3>2 DEF EsLibre
    <2>4. CASE i > c + 1
      <3>1. c + 1 \in 1..(i - 1) /\ ~(c + 1 <= c) /\ i # c + 1
        BY <1>2, <2>4 DEF Plazas
      <3> QED BY <1>2, <2>1, <3>1 DEF EsLibre
    <2> QED BY <1>2, <2>2, <2>3, <2>4 DEF Plazas
  <1>5. /\ solicitudes' = [i \in Plazas |-> IF i = c + 1 THEN n ELSE solicitudes[i]]
        /\ CantSolicitudes' = c + 1
    BY <1>3, <1>4 DEF NuevoAspirante
  <1>6. ASSUME NEW i \in Plazas
        PROVE  solicitudes'[i] \in Nombres /\ (solicitudes'[i] # Nadie <=> i <= c + 1)
    <2>1. CASE i = c + 1
      BY <1>1, <1>2, <1>5, <2>1 DEF Nombres
    <2>2. CASE i # c + 1
      <3>1. i <= c + 1 <=> i <= c
        BY <1>2, <2>2 DEF Plazas
      <3> QED BY <1>2, <1>5, <2>2, <3>1
    <2> QED BY <2>1, <2>2
  <1>7. solicitudes' = [i \in Plazas |-> solicitudes'[i]]
    BY <1>5
  <1>8. solicitudes' \in [Plazas -> Nombres]
    BY <1>6, <1>7
  <1>9. CantSolicitudes' \in 0..MAXASPIRANTES
    BY <1>1, <1>2, <1>5
  <1> QED BY <1>5, <1>6, <1>8, <1>9 DEF ApplicantsCompact, Plazas

\* The list and the GuildIndexes after an update of the members are of their kind.
LEMMA UpdateType ==
  ASSUME NEW lista \in Seq(Name), NEW indices \in [Name -> BOOLEAN],
         UpdateGuildMembers(lista, indices)
  PROVE  /\ miembros' \in Seq(Name) /\ Len(miembros') <= Len(lista)
         /\ pertenece' \in [Name -> BOOLEAN]
  <1>1. PICK permitidos \in SUBSET Name :
          /\ miembros' = Quedan(lista, permitidos)
          /\ \E fuera \in SUBSET {m \in Name : Contains(lista, m) /\ m \notin permitidos} :
               pertenece' = [n \in Name |-> indices[n] /\ n \notin fuera]
    BY Zenon DEF UpdateGuildMembers
  <1>2. miembros' \in Seq(Name) /\ Len(miembros') <= Len(lista)
    BY <1>1, QuedanType
  <1>3. pertenece' \in [Name -> BOOLEAN]
    BY <1>1
  <1> QED BY <1>2, <1>3

\* What a step has to show of the register, besides the relations.
LEMMA RegisterKept ==
  ASSUME DipInv',
         pertenece' \in [Name -> BOOLEAN],
         miembros' \in Seq(Name), Len(miembros') <= MaxMiembros,
         leader' \in [nombre : Nombres, mayus : BOOLEAN],
         solicitudes' \in [Plazas -> Nombres], CantSolicitudes' \in 0..MAXASPIRANTES,
         EleccionesAbiertas' \in BOOLEAN, votos' \in [Name -> Nombres],
         ApplicantsCompact', BallotIsClean', Fundado'
  PROVE  GuildInv'
  <1>1. DipTypeOK'
    BY DEF DipInv
  <1>2. Plazas' = Plazas /\ Nombres' = Nombres
    BY DEF Plazas, Nombres
  <1> QED BY <1>1, <1>2 DEF GuildInv, RegisterSound, TypeOK

\* It holds of a server without guilds, members, applications and votes.
LEMMA GuildInit == Init => GuildInv
  <1> SUFFICES ASSUME Init PROVE GuildInv
    OBVIOUS
  <1> USE MaxGuildsAssumption, GuildAssumption
  <1>1. DipInv
    <2>1. DipInit
      BY DEF Init
    <2> QED BY <2>1, DipBegins
  <1>2. TypeOK
    <2>1. DipTypeOK
      BY <1>1 DEF DipInv
    <2>2. miembros \in Seq(Name) /\ Len(miembros) <= MaxMiembros
      BY DEF Init
    <2>3. leader \in [nombre : Nombres, mayus : BOOLEAN]
      BY DEF Init, Nombres
    <2>4. solicitudes \in [Plazas -> Nombres] /\ votos \in [Name -> Nombres]
      BY DEF Init, Nombres
    <2>5. CantSolicitudes \in 0..MAXASPIRANTES
      BY DEF Init
    <2>6. pertenece \in [Name -> BOOLEAN] /\ EleccionesAbiertas \in BOOLEAN
      BY DEF Init
    <2> QED BY <2>1, <2>2, <2>3, <2>4, <2>5, <2>6 DEF TypeOK
  <1>3. ApplicantsCompact
    BY DEF Init, ApplicantsCompact, Plazas
  <1>4. BallotIsClean
    BY DEF Init, BallotIsClean
  <1>5. Fundado
    BY DEF Init, DipInit, Fundado, Existe
  <1> QED BY <1>1, <1>2, <1>3, <1>4, <1>5 DEF GuildInv, RegisterSound

\* Every command keeps it, and so do the world save and a restart.
LEMMA GuildStep == GuildInv /\ [Next]_vars => GuildInv'
  <1> SUFFICES ASSUME GuildInv, [Next]_vars PROVE GuildInv'
    OBVIOUS
  <1> USE GuildAssumption
  <1>0. DipInv'
    BY DipStep, RelationsFollow DEF GuildInv
  <1>1. /\ CANTIDADDECLANES \in 0..MAX_GUILDS
        /\ pertenece \in [Name -> BOOLEAN]
        /\ miembros \in Seq(Name) /\ Len(miembros) <= MaxMiembros
        /\ leader \in [nombre : Nombres, mayus : BOOLEAN]
        /\ solicitudes \in [Plazas -> Nombres]
        /\ CantSolicitudes \in 0..MAXASPIRANTES
        /\ EleccionesAbiertas \in BOOLEAN
        /\ votos \in [Name -> Nombres]
        /\ ApplicantsCompact /\ BallotIsClean
    BY RegisterType
  <1>2. Fundado /\ MAX_GUILDS \in Nat
    BY MaxGuildsAssumption DEF GuildInv
  <1>a. ASSUME UNCHANGED aspVars
        PROVE  /\ solicitudes' \in [Plazas -> Nombres] /\ CantSolicitudes' \in 0..MAXASPIRANTES
               /\ ApplicantsCompact'
    BY <1>1, <1>a DEF aspVars, ApplicantsCompact, Plazas
  <1>v. ASSUME UNCHANGED votVars
        PROVE  EleccionesAbiertas' \in BOOLEAN /\ votos' \in [Name -> Nombres] /\ BallotIsClean'
    BY <1>1, <1>v DEF votVars, BallotIsClean
  <1>p. ASSUME UNCHANGED padronVars
        PROVE  /\ pertenece' \in [Name -> BOOLEAN]
               /\ miembros' \in Seq(Name) /\ Len(miembros') <= MaxMiembros
               /\ leader' \in [nombre : Nombres, mayus : BOOLEAN]
    BY <1>1, <1>p DEF padronVars
  <1>b. ASSUME NEW u \in Name, pertenece[u] PROVE Existe /\ leader.nombre \in Name
    BY <1>2, <1>b DEF Fundado
  <1>3. CASE Diplomacia
    <2>1. UNCHANGED <<padronVars, aspVars, votVars>>
      BY <1>3 DEF Diplomacia
    <2>2. CANTIDADDECLANES' = CANTIDADDECLANES
      BY <1>3 DEF Diplomacia, Tratado, r_DeclararGuerra, r_AceptarPropuestaDePaz,
                  r_AceptarPropuestaDeAlianza, Pactar
    <2>3. Fundado'
      BY <1>2, <2>1, <2>2 DEF Fundado, Existe, padronVars, votVars
    <2> QED BY <1>0, <1>a, <1>v, <1>p, <2>1, <2>3, RegisterKept
  <1>4. CASE Arrancar
    <2>1. UNCHANGED <<miembros, leader, aspVars, votVars>>
      BY <1>4 DEF Arrancar
    <2>2. CANTIDADDECLANES' = CANTIDADDECLANES
      BY <1>4 DEF Arrancar, Reiniciar, TornTreaty
    <2>3. pertenece' \in [Name -> BOOLEAN] /\ \A n \in Name : pertenece'[n] => Existe
      BY <1>4 DEF Arrancar, Existe
    <2>4. Fundado'
      BY <1>2, <2>1, <2>2, <2>3 DEF Fundado, Existe, votVars
    <2> QED BY <1>0, <1>1, <1>a, <1>v, <2>1, <2>3, <2>4, RegisterKept
  <1>5. CASE v_RutinaElecciones
    <2>1. /\ UNCHANGED <<dipVars, pertenece, miembros, aspVars>> /\ EleccionesAbiertas
          /\ EleccionesAbiertas' = FALSE /\ votos' = [n \in Name |-> Nadie]
      BY <1>5 DEF v_RutinaElecciones, RevisarElecciones, CerrarElecciones
    <2>2. leader' = leader \/ \E n \in Name : leader' = [nombre |-> n, mayus |-> TRUE]
      <3> DEFINE c == ContarVotos.clave
      <3>1. Contains(miembros, c) => c \in Name
        BY <1>1 DEF Contains
      <3>2. leader' = IF ContarVotos.cant = 1 /\ Contains(miembros, c)
                      THEN [nombre |-> c, mayus |-> TRUE] ELSE leader
        BY <1>5 DEF v_RutinaElecciones, RevisarElecciones
      <3> HIDE DEF c
      <3> QED BY <3>1, <3>2
    <2>3. /\ leader' \in [nombre : Nombres, mayus : BOOLEAN]
          /\ (leader' = leader \/ leader'.nombre \in Name)
      <3>1. CASE leader' = leader
        BY <1>1, <3>1
      <3>2. ASSUME NEW n \in Name, leader' = [nombre |-> n, mayus |-> TRUE]
            PROVE  leader' \in [nombre : Nombres, mayus : BOOLEAN] /\ leader'.nombre \in Name
        BY <3>2 DEF Nombres
      <3> QED BY <2>2, <3>1, <3>2
    <2>4. votos' \in [Name -> Nombres] /\ BallotIsClean'
      BY <2>1 DEF Nombres, BallotIsClean
    <2>5. Fundado'
      <3>1. Existe /\ leader.nombre \in Name
        BY <1>2, <2>1 DEF Fundado
      <3>2. Existe' /\ leader'.nombre \in Name
        BY <2>1, <2>3, <3>1 DEF Existe, dipVars
      <3> QED BY <3>2 DEF Fundado
    <2> QED BY <1>0, <1>1, <1>a, <2>1, <2>3, <2>4, <2>5, RegisterKept
  <1>6. ASSUME NEW u \in Name, CrearNuevoClan(u) PROVE GuildInv'
    <2>1. UNCHANGED <<aspVars, votVars>> /\ CANTIDADDECLANES' = CANTIDADDECLANES + 1
      BY <1>6 DEF CrearNuevoClan, Fundar
    <2>2. Existe' /\ CANTIDADDECLANES \in Nat
      BY <1>1, <2>1, <1>2 DEF Existe
    <2>3. CASE Existe
      <3>1. UNCHANGED padronVars
        BY <1>6, <2>3 DEF CrearNuevoClan
      <3>2. Fundado'
        BY <1>2, <2>2, <2>3, <3>1 DEF Fundado, padronVars
      <3> QED BY <1>0, <1>a, <1>v, <1>p, <2>1, <3>1, <3>2, RegisterKept
    <2>4. CASE ~Existe
      <3>1. /\ leader' = [nombre |-> u, mayus |-> FALSE] /\ miembros' = <<u>>
            /\ pertenece' = [pertenece EXCEPT ![u] = TRUE]
        BY <1>6, <2>4 DEF CrearNuevoClan
      <3>2. miembros' \in Seq(Name) /\ Len(miembros') <= MaxMiembros
        BY <3>1
      <3>3. leader' \in [nombre : Nombres, mayus : BOOLEAN] /\ leader'.nombre \in Name
        BY <3>1 DEF Nombres
      <3>4. pertenece' \in [Name -> BOOLEAN]
        BY <1>1, <3>1
      <3>5. Fundado'
        BY <2>2, <3>3 DEF Fundado
      <3> QED BY <1>0, <1>a, <1>v, <2>1, <3>2, <3>3, <3>4, <3>5, RegisterKept
    <2> QED BY <2>3, <2>4
  <1>7. ASSUME NEW u \in Name, a_NuevoAspirante(u) PROVE GuildInv'
    <2>1. /\ UNCHANGED <<dipVars, padronVars, votVars>>
          /\ CantSolicitudes < MAXASPIRANTES /\ NuevoAspirante(u)
      BY <1>7 DEF a_NuevoAspirante
    <2>2. /\ solicitudes' \in [Plazas -> Nombres] /\ CantSolicitudes' \in 0..MAXASPIRANTES
          /\ ApplicantsCompact'
      BY <2>1, AspirarKeeps
    <2>3. Fundado'
      BY <1>2, <2>1 DEF Fundado, Existe, dipVars, padronVars, votVars
    <2> QED BY <1>0, <1>v, <1>p, <2>1, <2>2, <2>3, RegisterKept
  <1>8. ASSUME NEW u \in Name, m_ValidarPermanencia(u) PROVE GuildInv'
    <2>1. pertenece[u] /\ UNCHANGED <<dipVars, leader, aspVars, votVars>>
      BY <1>8 DEF m_ValidarPermanencia
    <2> DEFINE sinN == ExpulsarMiembro(miembros, u)
               indices == [pertenece EXCEPT ![u] = FALSE]
    <2>2. sinN \in Seq(Name) /\ Len(sinN) <= Len(miembros) /\ Len(sinN) \in Nat
      BY <1>1, ExpulsarType
    <2>3. indices \in [Name -> BOOLEAN] /\ Len(miembros) \in Nat
      BY <1>1
    <2>4. \/ UpdateGuildMembers(miembros, pertenece)
          \/ miembros' = sinN /\ pertenece' = indices
          \/ UpdateGuildMembers(sinN, indices)
      BY <1>8, Zenon DEF m_ValidarPermanencia
    <2> HIDE DEF sinN, indices
    <2>5. /\ miembros' \in Seq(Name) /\ Len(miembros') <= Len(miembros)
          /\ pertenece' \in [Name -> BOOLEAN]
      <3>1. CASE UpdateGuildMembers(miembros, pertenece)
        BY <1>1, <3>1, UpdateType
      <3>2. CASE miembros' = sinN /\ pertenece' = indices
        BY <2>2, <2>3, <3>2
      <3>3. CASE UpdateGuildMembers(sinN, indices)
        <4>1. /\ miembros' \in Seq(Name) /\ Len(miembros') <= Len(sinN)
              /\ pertenece' \in [Name -> BOOLEAN]
          BY <2>2, <2>3, <3>3, UpdateType
        <4>2. Len(miembros') \in Nat
          BY <4>1
        <4> QED BY <2>2, <2>3, <4>1, <4>2
      <3> QED BY <2>4, <3>1, <3>2, <3>3
    <2>6. Len(miembros') \in Nat /\ Len(miembros') <= MaxMiembros
      BY <1>1, <2>3, <2>5
    <2>7. Fundado' /\ leader' \in [nombre : Nombres, mayus : BOOLEAN]
      BY <1>1, <1>b, <2>1 DEF Fundado, Existe, dipVars
    <2> QED BY <1>0, <1>a, <1>v, <2>1, <2>5, <2>6, <2>7, RegisterKept
  <1>9. ASSUME NEW u \in Name, OtroClan(u) PROVE GuildInv'
    <2>1. /\ pertenece[u] /\ pertenece' = [pertenece EXCEPT ![u] = FALSE]
          /\ UNCHANGED <<dipVars, miembros, leader, aspVars, votVars>>
      BY <1>9 DEF OtroClan
    <2>2. pertenece' \in [Name -> BOOLEAN]
      BY <1>1, <2>1
    <2>3. Fundado'
      BY <1>b, <2>1 DEF Fundado, Existe, dipVars
    <2> QED BY <1>0, <1>1, <1>a, <1>v, <2>1, <2>2, <2>3, RegisterKept
  <1>10. ASSUME NEW u \in Name, v_AbrirElecciones(u) PROVE GuildInv'
    <2>1. /\ pertenece[u] /\ EleccionesAbiertas' = TRUE
          /\ UNCHANGED <<dipVars, padronVars, aspVars, votos>>
      BY <1>10 DEF v_AbrirElecciones
    <2>2. votos' \in [Name -> Nombres] /\ BallotIsClean'
      BY <1>1, <2>1 DEF BallotIsClean
    <2>3. Fundado'
      BY <1>b, <2>1 DEF Fundado, Existe, dipVars, padronVars
    <2> QED BY <1>0, <1>a, <1>p, <2>1, <2>2, <2>3, RegisterKept
  <1>11. ASSUME NEW u \in Name, NEW n \in Name, a_AceptarAspirante(u, n) PROVE GuildInv'
    <2>1. /\ pertenece[u] /\ NumeroDeAspirante(n) > 0
          /\ RetirarAspirante(NumeroDeAspirante(n)) /\ AceptarNuevoMiembro(n)
          /\ UNCHANGED <<dipVars, leader, votVars>>
      BY <1>11 DEF a_AceptarAspirante
    <2>2. /\ solicitudes' \in [Plazas -> Nombres] /\ CantSolicitudes' \in 0..MAXASPIRANTES
          /\ ApplicantsCompact'
      BY <2>1, RetirarKeeps
    <2>3. miembros' \in Seq(Name) /\ Len(miembros') <= MaxMiembros
      <3>1. miembros' = Append(miembros, n) /\ Len(miembros) < MaxMiembros
        BY <2>1 DEF AceptarNuevoMiembro
      <3>2. Append(miembros, n) \in Seq(Name) /\ Len(Append(miembros, n)) = Len(miembros) + 1
        BY <1>1, AppendProperties
      <3>3. Len(miembros) \in Nat /\ MaxMiembros \in Nat
        BY <1>1
      <3> QED BY <3>1, <3>2, <3>3
    <2>4. pertenece' \in [Name -> BOOLEAN]
      <3>1. PICK conectado \in {TRUE, pertenece[n]} : pertenece' = [pertenece EXCEPT ![n] = conectado]
        BY <2>1 DEF AceptarNuevoMiembro
      <3> QED BY <1>1, <3>1
    <2>5. Fundado'
      BY <1>b, <2>1 DEF Fundado, Existe, dipVars
    <2> QED BY <1>0, <1>1, <1>v, <2>1, <2>2, <2>3, <2>4, <2>5, RegisterKept
  <1>12. ASSUME NEW u \in Name, NEW n \in Name, a_RechazarAspirante(u, n) PROVE GuildInv'
    <2>1. /\ pertenece[u] /\ NumeroDeAspirante(n) > 0
          /\ RetirarAspirante(NumeroDeAspirante(n))
          /\ UNCHANGED <<dipVars, padronVars, votVars>>
      BY <1>12 DEF a_RechazarAspirante
    <2>2. /\ solicitudes' \in [Plazas -> Nombres] /\ CantSolicitudes' \in 0..MAXASPIRANTES
          /\ ApplicantsCompact'
      BY <2>1, RetirarKeeps
    <2>3. Fundado'
      BY <1>b, <2>1 DEF Fundado, Existe, dipVars, padronVars
    <2> QED BY <1>0, <1>v, <1>p, <2>1, <2>2, <2>3, RegisterKept
  <1>13. ASSUME NEW u \in Name, NEW n \in Name, m_EcharMiembroDeClan(u, n) PROVE GuildInv'
    <2>1. /\ pertenece[u] /\ miembros' = ExpulsarMiembro(miembros, n)
          /\ UNCHANGED <<dipVars, leader, aspVars, votVars>>
      BY <1>13 DEF m_EcharMiembroDeClan
    <2>2. miembros' \in Seq(Name) /\ Len(miembros') <= MaxMiembros
      <3>1. /\ miembros' \in Seq(Name) /\ Len(miembros') <= Len(miembros)
            /\ Len(miembros') \in Nat /\ Len(miembros) \in Nat /\ MaxMiembros \in Nat
        BY <1>1, <2>1, ExpulsarType
      <3> QED BY <1>1, <3>1
    <2>3. pertenece' \in [Name -> BOOLEAN]
      <3>1. pertenece' = pertenece
              \/ \E queda \in {FALSE, pertenece[n]} : pertenece' = [pertenece EXCEPT ![n] = queda]
        BY <1>13 DEF m_EcharMiembroDeClan
      <3> QED BY <1>1, <3>1
    <2>4. Fundado'
      BY <1>b, <2>1 DEF Fundado, Existe, dipVars
    <2> QED BY <1>0, <1>1, <1>a, <1>v, <2>1, <2>2, <2>3, <2>4, RegisterKept
  <1>14. ASSUME NEW u \in Name, NEW n \in Name, v_UsuarioVota(u, n) PROVE GuildInv'
    <2>1. /\ pertenece[u] /\ EleccionesAbiertas /\ votos' = [votos EXCEPT ![u] = n]
          /\ UNCHANGED <<dipVars, padronVars, aspVars, EleccionesAbiertas>>
      BY <1>14 DEF v_UsuarioVota
    <2>2. EleccionesAbiertas' \in BOOLEAN /\ votos' \in [Name -> Nombres] /\ BallotIsClean'
      BY <1>1, <2>1 DEF BallotIsClean, Nombres
    <2>3. Fundado'
      BY <1>b, <2>1 DEF Fundado, Existe, dipVars, padronVars
    <2> QED BY <1>0, <1>a, <1>p, <2>1, <2>2, <2>3, RegisterKept
  <1>15. CASE UNCHANGED vars
    <2>1. UNCHANGED <<dipVars, padronVars, aspVars, votVars>>
      BY <1>15 DEF vars
    <2>2. Fundado'
      BY <1>2, <2>1 DEF Fundado, Existe, dipVars, padronVars, votVars
    <2> QED BY <1>0, <1>a, <1>v, <1>p, <2>1, <2>2, RegisterKept
  <1> QED BY <1>3, <1>4, <1>5, <1>6, <1>7, <1>8, <1>9, <1>10, <1>11, <1>12, <1>13, <1>14, <1>15
          DEF Next

\* Types, applications and votes stay sound, and the relations with them.
THEOREM GuildInvariant == Spec => []GuildInv
  BY GuildInit, GuildStep, PTL DEF Spec

\* The files of members, applicants and votes hold what the guild counts, for any
\* number of characters and places.
THEOREM RegisterIsSound == Spec => []RegisterSound
  <1>1. GuildInv => RegisterSound
    BY DEF GuildInv
  <1> QED BY <1>1, GuildInvariant, PTL

--------------------------------------------------------------------------------
(* Counting the votes *)

\* How many of the first i entries of the list voted x.
VotosHasta(i, x) == Cardinality({j \in 1..i : votos[miembros[j]] = x})

\* The count of one entry more is one more if it voted x, and the same if not.
LEMMA VotosCount ==
  ASSUME NEW x
  PROVE  /\ \A i \in Nat : VotosHasta(i, x) \in Nat
         /\ VotosHasta(0, x) = 0
         /\ \A i \in Nat : VotosHasta(i + 1, x)
              = IF votos[miembros[i + 1]] = x THEN VotosHasta(i, x) + 1 ELSE VotosHasta(i, x)
         /\ \A i \in Nat : (VotosHasta(i, x) > 0) <=> (\E j \in 1..i : votos[miembros[j]] = x)
  <1> DEFINE V(i) == {j \in 1..i : votos[miembros[j]] = x}
  <1>1. ASSUME NEW i \in Nat PROVE IsFiniteSet(V(i)) /\ Cardinality(V(i)) \in Nat
    <2>1. IsFiniteSet(1..i)
      BY <1>1, FS_Interval
    <2>2. V(i) \subseteq 1..i
      OBVIOUS
    <2> HIDE DEF V
    <2> QED BY <2>1, <2>2, FS_Subset, FS_CardinalityType
  <1>2. Cardinality(V(0)) = 0
    <2>1. V(0) = {}
      OBVIOUS
    <2> QED BY <2>1, FS_EmptySet
  <1>3. ASSUME NEW i \in Nat
        PROVE  Cardinality(V(i + 1))
                 = IF votos[miembros[i + 1]] = x THEN Cardinality(V(i)) + 1 ELSE Cardinality(V(i))
    <2>1. CASE votos[miembros[i + 1]] = x
      <3>1. V(i + 1) = V(i) \cup {i + 1} /\ i + 1 \notin V(i)
        BY <1>3, <2>1
      <3> HIDE DEF V
      <3>2. Cardinality(V(i) \cup {i + 1}) = Cardinality(V(i)) + 1
        BY <1>1, <1>3, <3>1, FS_AddElement
      <3> QED BY <2>1, <3>1, <3>2
    <2>2. CASE votos[miembros[i + 1]] # x
      <3>1. V(i + 1) = V(i)
        BY <1>3, <2>2
      <3> QED BY <2>2, <3>1
    <2> QED BY <2>1, <2>2
  <1>4. ASSUME NEW i \in Nat
        PROVE  (Cardinality(V(i)) > 0) <=> (\E j \in 1..i : votos[miembros[j]] = x)
    <2>1. Cardinality(V(i)) = 0 <=> V(i) = {}
      <3> HIDE DEF V
      <3> QED BY <1>1, FS_EmptySet
    <2>2. V(i) # {} <=> \E j \in 1..i : votos[miembros[j]] = x
      OBVIOUS
    <2>3. Cardinality(V(i)) > 0 <=> Cardinality(V(i)) # 0
      <3> HIDE DEF V
      <3> QED BY <1>1
    <2> HIDE DEF V
    <2> QED BY <2>1, <2>2, <2>3
  <1> QED BY <1>1, <1>2, <1>3, <1>4 DEF VotosHasta

Voto == [clave : Name, def : Nat]

\* d is the dictionary of the first i entries: each name voted is in it once, with
\* the number of its votes.
Recuento(d, i) ==
  /\ d \in Seq(Voto)
  /\ \A a, b \in 1..Len(d) : d[a].clave = d[b].clave => a = b
  /\ \A a \in 1..Len(d) : d[a].def = VotosHasta(i, d[a].clave) /\ d[a].def > 0
  /\ \A x \in Name : VotosHasta(i, x) > 0 => \E a \in 1..Len(d) : d[a].clave = x

\* One vote more is counted.
LEMMA SumarCounts ==
  ASSUME GuildInv, NEW i \in Nat, i + 1 <= Len(miembros), NEW d, Recuento(d, i),
         votos[miembros[i + 1]] # Nadie
  PROVE  Recuento(SumarVoto(d, votos[miembros[i + 1]]), i + 1)
  <1> DEFINE v == votos[miembros[i + 1]]
             e == SumarVoto(d, v)
             n == Len(d)
  <1>1. v \in Name
    BY RegisterType DEF Nombres
  <1>2. /\ d \in Seq(Voto) /\ n \in Nat
        /\ \A a, b \in 1..n : d[a].clave = d[b].clave => a = b
        /\ \A a \in 1..n : d[a].def = VotosHasta(i, d[a].clave) /\ d[a].def > 0
        /\ \A x \in Name : VotosHasta(i, x) > 0 => \E a \in 1..n : d[a].clave = x
    BY DEF Recuento
  <1>3. ASSUME NEW a \in 1..n PROVE d[a] \in Voto /\ d[a].clave \in Name /\ d[a].def \in Nat
    <2>1. d[a] \in Voto
      BY <1>2, ElementOfSeq
    <2> QED BY <2>1 DEF Voto
  <1>4. ASSUME NEW x
        PROVE  /\ VotosHasta(i, x) \in Nat
               /\ VotosHasta(i + 1, x) = IF v = x THEN VotosHasta(i, x) + 1 ELSE VotosHasta(i, x)
    BY VotosCount
  <1> HIDE DEF v
  <1>5. CASE \E a \in 1..n : d[a].clave = v
    <2>1. DOMAIN d = 1..n
      BY <1>2
    <2>2. e = [a \in 1..n |-> IF d[a].clave = v THEN [d[a] EXCEPT !.def = @ + 1] ELSE d[a]]
      BY <1>5, <2>1 DEF SumarVoto
    <2>3. ASSUME NEW a \in 1..n
          PROVE  /\ e[a] \in Voto /\ e[a].clave = d[a].clave
                 /\ e[a].def = VotosHasta(i + 1, e[a].clave) /\ e[a].def > 0
      <3>1. CASE d[a].clave = v
        <4>1. e[a] = [d[a] EXCEPT !.def = d[a].def + 1]
          BY <2>2, <3>1
        <4>2. e[a] \in Voto /\ e[a].clave = d[a].clave /\ e[a].def = d[a].def + 1
          BY <1>3, <4>1 DEF Voto
        <4> HIDE DEF e
        <4>3. VotosHasta(i + 1, e[a].clave) = VotosHasta(i, d[a].clave) + 1
          BY <1>4, <3>1, <4>2
        <4> QED BY <1>2, <1>3, <4>2, <4>3
      <3>2. CASE d[a].clave # v
        <4>1. e[a] = d[a]
          BY <2>2, <3>2
        <4> HIDE DEF e
        <4>3. VotosHasta(i + 1, e[a].clave) = VotosHasta(i, d[a].clave)
          BY <1>4, <3>2, <4>1
        <4> QED BY <1>2, <1>3, <4>1, <4>3
      <3> QED BY <3>1, <3>2
    <2>4. e \in Seq(Voto) /\ Len(e) = n
      <3>1. e = [a \in 1..n |-> e[a]]
        BY <2>2
      <3> HIDE DEF e
      <3>2. e \in [1..n -> Voto]
        BY <2>3, <3>1
      <3>3. Len(e) = n
        BY <1>2, <3>1
      <3> QED BY <1>2, <3>2, <3>3
    <2> HIDE DEF e
    <2>5. ASSUME NEW x \in Name, VotosHasta(i + 1, x) > 0 PROVE \E a \in 1..n : e[a].clave = x
      <3>1. x = v \/ VotosHasta(i, x) > 0
        BY <1>4, <2>5
      <3>2. \E a \in 1..n : d[a].clave = x
        BY <1>2, <1>5, <3>1
      <3> QED BY <2>3, <3>2
    <2>6. \A a, b \in 1..n : e[a].clave = e[b].clave => a = b
      BY <1>2, <2>3
    <2>7. Recuento(e, i + 1)
      BY <2>3, <2>4, <2>5, <2>6 DEF Recuento
    <2> QED BY <2>7 DEF e, v
  <1>6. CASE ~\E a \in 1..n : d[a].clave = v
    <2> DEFINE w == [clave |-> v, def |-> 1]
    <2>1. e = Append(d, w)
      BY <1>2, <1>6 DEF SumarVoto
    <2>2. w \in Voto /\ w.clave = v /\ w.def = 1
      BY <1>1 DEF Voto
    <2> HIDE DEF w, e
    <2>3. /\ e \in Seq(Voto) /\ Len(e) = n + 1 /\ e[n + 1] = w
          /\ \A a \in 1..n : e[a] = d[a]
      BY <1>2, <2>1, <2>2, AppendProperties
    <2>4. VotosHasta(i, v) = 0 /\ VotosHasta(i + 1, v) = 1
      <3>1. ~(VotosHasta(i, v) > 0)
        BY <1>1, <1>2, <1>6
      <3> QED BY <1>4, <3>1
    <2>5. ASSUME NEW a \in 1..n
          PROVE  e[a].clave # v /\ e[a].def = VotosHasta(i + 1, e[a].clave) /\ e[a].def > 0
      <3>1. e[a] = d[a] /\ d[a].clave # v
        BY <1>6, <2>3
      <3>2. VotosHasta(i + 1, d[a].clave) = VotosHasta(i, d[a].clave)
        BY <1>4, <3>1
      <3> QED BY <1>2, <3>1, <3>2
    <2>6. \A a \in 1..(n + 1) : a \in 1..n \/ a = n + 1
      BY <1>2
    <2>7. ASSUME NEW a \in 1..(n + 1)
          PROVE  e[a].def = VotosHasta(i + 1, e[a].clave) /\ e[a].def > 0
      <3>1. CASE a \in 1..n
        BY <2>5, <3>1
      <3>2. CASE a = n + 1
        BY <2>2, <2>3, <2>4, <3>2
      <3> QED BY <2>6, <3>1, <3>2
    <2>8. ASSUME NEW a \in 1..(n + 1), NEW b \in 1..(n + 1), e[a].clave = e[b].clave PROVE a = b
      <3>1. CASE a \in 1..n /\ b \in 1..n
        <4>1. e[a] = d[a] /\ e[b] = d[b]
          BY <2>3, <3>1
        <4> QED BY <1>2, <2>8, <3>1, <4>1
      <3>2. CASE a = n + 1 \/ b = n + 1
        <4>1. e[n + 1].clave = v
          BY <2>2, <2>3
        <4> QED BY <2>5, <2>6, <2>8, <3>2, <4>1
      <3> QED BY <2>6, <3>1, <3>2
    <2>9. ASSUME NEW x \in Name, VotosHasta(i + 1, x) > 0
          PROVE  \E a \in 1..(n + 1) : e[a].clave = x
      <3>1. CASE x = v
        <4>1. n + 1 \in 1..(n + 1) /\ e[n + 1].clave = x
          BY <1>2, <2>2, <2>3, <3>1
        <4> QED BY <4>1
      <3>2. CASE x # v
        <4>1. VotosHasta(i, x) > 0
          BY <1>4, <2>9, <3>2
        <4>2. PICK a \in 1..n : d[a].clave = x
          BY <1>2, <4>1
        <4>3. a \in 1..(n + 1) /\ e[a] = d[a]
          BY <1>2, <2>3
        <4> QED BY <4>2, <4>3
      <3> QED BY <3>1, <3>2
    <2>10. Recuento(e, i + 1)
      BY <2>3, <2>7, <2>8, <2>9 DEF Recuento
    <2> QED BY <2>10 DEF e, v
  <1> QED BY <1>5, <1>6

\* A vote for a name more: the dictionary keeps its kind.
LEMMA SumarType ==
  ASSUME NEW d \in Seq(Voto), NEW v \in Name
  PROVE  SumarVoto(d, v) \in Seq(Voto)
  <1> DEFINE n == Len(d)
  <1>1. n \in Nat /\ DOMAIN d = 1..n /\ \A a \in 1..n : d[a] \in Voto
    BY ElementOfSeq
  <1>2. CASE \E a \in DOMAIN d : d[a].clave = v
    <2> DEFINE e == [a \in 1..n |-> IF d[a].clave = v THEN [d[a] EXCEPT !.def = @ + 1] ELSE d[a]]
    <2>1. SumarVoto(d, v) = e
      BY <1>1, <1>2 DEF SumarVoto
    <2>2. ASSUME NEW a \in 1..n
          PROVE (IF d[a].clave = v THEN [d[a] EXCEPT !.def = @ + 1] ELSE d[a]) \in Voto
      BY <1>1 DEF Voto
    <2>3. e \in [1..n -> Voto]
      BY <2>2
    <2> HIDE DEF e
    <2>4. e \in Seq(Voto)
      BY <1>1, <2>3
    <2> QED BY <2>1, <2>4
  <1>3. CASE ~\E a \in DOMAIN d : d[a].clave = v
    <2>1. [clave |-> v, def |-> 1] \in Voto
      BY DEF Voto
    <2>2. SumarVoto(d, v) = Append(d, [clave |-> v, def |-> 1])
      BY <1>3 DEF SumarVoto
    <2> QED BY <2>1, <2>2, AppendProperties
  <1> QED BY <1>2, <1>3

\* What ContarVotos gives to MayorValor is the dictionary of the whole list.
LEMMA RecuentoWhole ==
  ASSUME GuildInv
  PROVE  \E d : Recuento(d, Len(miembros)) /\ ContarVotos = MayorValor(d)
  <1> DEFINE n == Len(miembros)
             G(w, i) == IF votos[miembros[i]] = Nadie THEN w
                        ELSE SumarVoto(w, votos[miembros[i]])
             F(w, i) == IF i = 0 THEN <<>> ELSE G(w, i)
             Fits(h) == h = [i \in 0..n |-> F(h[i - 1], i)]
             tras == CHOOSE h : Fits(h)
  <1>1. miembros \in Seq(Name) /\ n \in Nat /\ votos \in [Name -> Nombres] /\ Nadie \notin Name
    BY RegisterType, GuildAssumption
  <1>2. ASSUME NEW w \in Seq(Voto), NEW i \in 1..n PROVE G(w, i) \in Seq(Voto)
    <2>1. votos[miembros[i]] \in Name \cup {Nadie}
      <3>1. miembros[i] \in Name
        BY <1>1
      <3> QED BY <1>1, <3>1 DEF Nombres
    <2> QED BY <2>1, SumarType
  <1>0. ContarVotos = MayorValor(tras[n])
    BY DEF ContarVotos
  <1> HIDE DEF n, G
  <1>3. \E h : Fits(h)
    <2> DEFINE D == Seq(Voto)
               d0 == <<>>
               step == [i \in 1..n |-> [w \in D |-> G(w, i)]]
    <2>1. step \in [1..n -> [D -> D]] /\ d0 \in D
      BY <1>2
    <2> HIDE DEF step, D, d0
    <2>0. n \in Nat
      BY <1>1
    <2>2. PICK h \in [0..n -> D] : h[0] = d0 /\ \A i \in 1..n : h[i] = step[i][h[i - 1]]
      BY ONLY <2>0, <2>1, WalkExists
    <2>3. ASSUME NEW i \in 0..n PROVE h[i] = F(h[i - 1], i)
      <3>1. CASE i = 0
        BY <2>2, <3>1 DEF d0
      <3>2. CASE i # 0
        <4>1. i \in 1..n /\ i - 1 \in 0..n
          BY <1>1, <3>2
        <4>2. h[i - 1] \in D
          BY <2>2, <4>1
        <4>3. h[i] = G(h[i - 1], i)
          BY <2>2, <4>1, <4>2 DEF step
        <4> QED BY <3>2, <4>3
      <3> QED BY <3>1, <3>2
    <2>4. h = [i \in 0..n |-> h[i]]
      OBVIOUS
    <2>5. Fits(h)
      <3> HIDE DEF F
      <3> QED BY <2>3, <2>4
    <2> HIDE DEF Fits
    <2> QED BY <2>5
  <1>4. Fits(tras)
    <2> HIDE DEF Fits
    <2> QED BY <1>3
  <1> HIDE DEF tras
  <1>5. tras[0] = <<>> /\ \A i \in 1..n : tras[i] = G(tras[i - 1], i)
    <2>1. \A i \in 0..n : tras[i] = F(tras[i - 1], i)
      <3> HIDE DEF F
      <3> QED BY <1>4
    <2>2. 0 \in 0..n /\ \A i \in 1..n : i \in 0..n /\ i # 0
      BY <1>1
    <2> QED BY <2>1, <2>2
  <1> HIDE DEF Fits, F
  <1> DEFINE S == {i \in Nat : Recuento(tras[i], i)}
  <1>6. 0 \in S
    <2>1. <<>> \in Seq(Voto) /\ Len(<<>>) = 0
      OBVIOUS
    <2>2. Recuento(<<>>, 0)
      <3>1. \A x : ~(VotosHasta(0, x) > 0)
        BY VotosCount
      <3>2. \A a \in 1..0 : FALSE
        OBVIOUS
      <3> QED BY <2>1, <3>1, <3>2 DEF Recuento
    <2> QED BY <1>5, <2>2
  <1>7. ASSUME NEW i \in 1..n, i - 1 \in S PROVE i \in S
    <2> DEFINE k == i - 1
               v == votos[miembros[i]]
    <2>1. k \in Nat /\ k + 1 = i /\ k + 1 <= Len(miembros) /\ Recuento(tras[k], k)
      BY <1>1, <1>7 DEF n
    <2>2. tras[i] = G(tras[k], i)
      BY <1>5
    <2>3. CASE v = Nadie
      <3>1. tras[i] = tras[k]
        BY <2>2, <2>3 DEF G
      <3>2. \A x \in Name : VotosHasta(i, x) = VotosHasta(k, x)
        <4>1. ASSUME NEW x \in Name PROVE VotosHasta(k + 1, x) = VotosHasta(k, x)
          <5>1. votos[miembros[k + 1]] # x
            BY <1>1, <2>1, <2>3
          <5> QED BY <2>1, <5>1, VotosCount
        <4> QED BY <2>1, <4>1
      <3>3. \A a \in 1..Len(tras[k]) : tras[k][a].clave \in Name
        <4>1. \A a \in 1..Len(tras[k]) : tras[k][a] \in Voto
          BY <2>1, ElementOfSeq DEF Recuento
        <4> QED BY <4>1 DEF Voto
      <3> HIDE DEF k
      <3>4. Recuento(tras[k], i)
        BY <2>1, <3>2, <3>3 DEF Recuento
      <3> QED BY <2>1, <3>1, <3>4
    <2>4. CASE v # Nadie
      <3>1. tras[i] = SumarVoto(tras[k], votos[miembros[k + 1]])
        BY <2>1, <2>2, <2>4 DEF G
      <3>2. Recuento(SumarVoto(tras[k], votos[miembros[k + 1]]), k + 1)
        BY <2>1, <2>4, SumarCounts
      <3> QED BY <2>1, <3>1, <3>2
    <2> QED BY <2>3, <2>4
  <1>8. n \in S
    <2> HIDE DEF S
    <2>1. \A i \in 0..n : i \in S
      BY <1>1, <1>6, <1>7, AlongIndices
    <2> QED BY <1>1, <2>1
  <1> QED BY <1>0, <1>8 DEF n

\* r is the highest of the first i entries of d, and says whether it is alone.
EsMayor(r, d, i) ==
  IF i = 0 THEN r = NingunVoto
  ELSE /\ \A a \in 1..i : d[a].def <= r.max
       /\ \E k \in 1..i : /\ d[k].def = r.max /\ d[k].clave = r.clave
                          /\ r.cant = 1 <=> \A a \in (1..i) \ {k} : d[a].def < r.max

LEMMA MayorIs ==
  ASSUME NEW d \in Seq(Voto), \A a \in 1..Len(d) : d[a].def > 0
  PROVE  EsMayor(MayorValor(d), d, Len(d))
  <1> DEFINE n == Len(d)
             D == [max : Nat, cant : Nat, clave : Nombres]
             G(r, i) == IF r.max = d[i].def THEN [r EXCEPT !.cant = @ + 1]
                        ELSE IF r.max < d[i].def
                             THEN [max |-> d[i].def, cant |-> 1, clave |-> d[i].clave]
                        ELSE r
             F(r, i) == IF i = 0 THEN NingunVoto ELSE G(r, i)
             Fits(h) == h = [i \in 0..n |-> F(h[i - 1], i)]
             tras == CHOOSE h : Fits(h)
  <1>1. n \in Nat
    OBVIOUS
  <1>2. ASSUME NEW a \in 1..n PROVE d[a].clave \in Name /\ d[a].def \in Nat /\ d[a].def > 0
    <2>1. d[a] \in Voto
      BY ElementOfSeq
    <2> QED BY <2>1 DEF Voto
  <1>3. ASSUME NEW r \in D, NEW i \in 1..n PROVE G(r, i) \in D
    <2>1. d[i].clave \in Nombres /\ d[i].def \in Nat
      BY <1>2 DEF Nombres
    <2>2. [r EXCEPT !.cant = r.cant + 1] \in D
      OBVIOUS
    <2>3. [max |-> d[i].def, cant |-> 1, clave |-> d[i].clave] \in D
      BY <2>1
    <2> HIDE DEF D
    <2> QED BY <2>2, <2>3
  <1>0. MayorValor(d) = tras[n]
    BY DEF MayorValor
  <1>4. NingunVoto \in D
    BY DEF NingunVoto, Nombres
  <1> HIDE DEF n, G
  <1>5. \E h : Fits(h) /\ h \in [0..n -> D]
    <2> DEFINE step == [i \in 1..n |-> [w \in D |-> G(w, i)]]
    <2> HIDE DEF D
    <2>1. step \in [1..n -> [D -> D]]
      BY <1>3
    <2> HIDE DEF step
    <2>0. n \in Nat /\ NingunVoto \in D
      BY <1>1, <1>4
    <2>2. PICK h \in [0..n -> D] : h[0] = NingunVoto /\ \A i \in 1..n : h[i] = step[i][h[i - 1]]
      BY ONLY <2>0, <2>1, WalkExists
    <2>3. ASSUME NEW i \in 0..n PROVE h[i] = F(h[i - 1], i)
      <3>1. CASE i = 0
        BY <2>2, <3>1
      <3>2. CASE i # 0
        <4>1. i \in 1..n /\ i - 1 \in 0..n
          BY <1>1, <3>2
        <4>2. h[i - 1] \in D
          BY <2>2, <4>1
        <4>3. h[i] = G(h[i - 1], i)
          BY <2>2, <4>1, <4>2 DEF step
        <4> QED BY <3>2, <4>3
      <3> QED BY <3>1, <3>2
    <2>4. h = [i \in 0..n |-> h[i]]
      OBVIOUS
    <2>5. Fits(h)
      <3> HIDE DEF F
      <3> QED BY <2>3, <2>4
    <2> HIDE DEF Fits
    <2> QED BY <2>5
  <1>6. Fits(tras)
    <2> HIDE DEF Fits, D
    <2> QED BY <1>5
  <1> HIDE DEF tras
  <1>7. tras[0] = NingunVoto /\ \A i \in 1..n : tras[i] = G(tras[i - 1], i)
    <2>1. \A i \in 0..n : tras[i] = F(tras[i - 1], i)
      <3> HIDE DEF F
      <3> QED BY <1>6
    <2>2. 0 \in 0..n /\ \A i \in 1..n : i \in 0..n /\ i # 0
      BY <1>1
    <2> QED BY <2>1, <2>2
  <1> HIDE DEF Fits, F
  <1> DEFINE S == {i \in Nat : /\ tras[i] \in D /\ EsMayor(tras[i], d, i)
                               /\ (i # 0 => tras[i].cant > 0)}
  <1>8. 0 \in S
    BY <1>4, <1>7 DEF EsMayor
  <1>9. ASSUME NEW i \in 1..n, i - 1 \in S PROVE i \in S
    <2> DEFINE p == tras[i - 1]
               r == tras[i]
    <2>1. r = G(p, i) /\ p \in D /\ EsMayor(p, d, i - 1) /\ i \in Nat /\ i - 1 \in Nat
      BY <1>1, <1>7, <1>9
    <2>2. r \in D
      BY <1>3, <2>1
    <2>3. p.max \in Nat /\ p.cant \in Nat /\ d[i].def \in Nat /\ d[i].def > 0
      BY <1>2, <2>1
    <2>4. i # 1 => p.cant > 0
      BY <1>9
    <2>5. \A a \in 1..(i - 1) : d[a].def \in Nat /\ a # i
      BY <1>1, <1>2
    <2>6. \A a \in 1..i : a \in 1..(i - 1) \/ a = i
      OBVIOUS
    <2>7. i \in 1..i /\ \A a \in 1..(i - 1) : a \in 1..i
      OBVIOUS
    <2> HIDE DEF p, r, D
    <2>8. CASE p.max < d[i].def
      <3>1. r = [max |-> d[i].def, cant |-> 1, clave |-> d[i].clave]
        BY <2>1, <2>3, <2>8 DEF G
      <3>2. r.max = d[i].def /\ r.cant = 1 /\ r.clave = d[i].clave
        BY <3>1
      <3>3. ASSUME NEW a \in 1..(i - 1) PROVE d[a].def < d[i].def
        <4>1. i - 1 # 0
          BY <2>1
        <4>2. d[a].def <= p.max
          BY <2>1, <4>1 DEF EsMayor
        <4> QED BY <2>3, <2>5, <2>8, <4>2
      <3>4. \A a \in 1..i : d[a].def <= r.max
        BY <2>3, <2>5, <2>6, <3>2, <3>3
      <3>5. \A a \in (1..i) \ {i} : d[a].def < r.max
        BY <2>6, <3>2, <3>3
      <3>6. EsMayor(r, d, i)
        BY <2>7, <3>2, <3>4, <3>5 DEF EsMayor
      <3> QED BY <2>1, <2>2, <3>2, <3>6 DEF r
    <2>9. CASE ~(p.max < d[i].def)
      <3>1. i - 1 # 0
        <4>1. ASSUME i - 1 = 0 PROVE p.max = 0
          BY <2>1, <4>1 DEF EsMayor, NingunVoto
        <4> QED BY <2>3, <2>9, <4>1
      <3>2. PICK k \in 1..(i - 1) :
              /\ d[k].def = p.max /\ d[k].clave = p.clave
              /\ p.cant = 1 <=> \A a \in (1..(i - 1)) \ {k} : d[a].def < p.max
        BY <2>1, <3>1 DEF EsMayor
      <3>3. \A a \in 1..(i - 1) : d[a].def <= p.max
        BY <2>1, <3>1 DEF EsMayor
      <3>4. \A a \in 1..i : d[a].def <= p.max
        BY <2>3, <2>6, <2>9, <3>3
      <3>5. CASE p.max = d[i].def
        <4>1. r = [p EXCEPT !.cant = p.cant + 1]
          BY <2>1, <3>5 DEF G
        <4>2. r.max = p.max /\ r.clave = p.clave /\ r.cant = p.cant + 1
          BY <2>1, <4>1 DEF D
        <4>3. r.cant # 1 /\ r.cant > 0
          BY <2>3, <2>4, <3>1, <4>2, <2>1
        <4>4. i \in (1..i) \ {k} /\ ~(d[i].def < r.max)
          BY <2>3, <2>5, <2>7, <3>5, <4>2
        <4>5. EsMayor(r, d, i)
          BY <2>1, <2>7, <3>2, <3>4, <4>2, <4>3, <4>4 DEF EsMayor
        <4> QED BY <2>1, <2>2, <4>3, <4>5 DEF r
      <3>6. CASE p.max # d[i].def
        <4>1. r = p
          BY <2>1, <2>9, <3>6 DEF G
        <4>2. d[i].def < p.max
          BY <2>3, <2>9, <3>6
        <4>3. (\A a \in (1..(i - 1)) \ {k} : d[a].def < p.max)
                <=> (\A a \in (1..i) \ {k} : d[a].def < p.max)
          BY <2>6, <2>7, <4>2
        <4>4. EsMayor(r, d, i)
          BY <2>1, <2>7, <3>2, <3>4, <4>1, <4>3 DEF EsMayor
        <4>5. r.cant > 0
          <5>1. i # 1
            BY <2>1, <3>1
          <5> QED BY <2>4, <4>1, <5>1
        <4> QED BY <2>1, <2>2, <4>4, <4>5 DEF r
      <3> QED BY <3>5, <3>6
    <2> QED BY <2>8, <2>9
  <1>10. n \in S
    <2> HIDE DEF S
    <2>1. \A i \in 0..n : i \in S
      BY <1>1, <1>8, <1>9, AlongIndices
    <2> QED BY <1>1, <2>1
  <1> QED BY <1>0, <1>10 DEF n

--------------------------------------------------------------------------------
(* The leader *)

\* An election ends as the votes of the members in the list say.
LEMMA ElectionEnds ==
  ASSUME GuildInv, EleccionesAbiertas, RevisarElecciones
  PROVE  IF \E x \in Name : Gana(x) THEN Gana(leader'.nombre) ELSE leader' = leader
  <1> DEFINE n == Len(miembros)
             r == ContarVotos
  <1>1. /\ miembros \in Seq(Name) /\ n \in Nat /\ DOMAIN miembros = 1..n
        /\ leader.nombre \in Name
    BY RegisterType DEF GuildInv, Fundado
  <1>2. PICK d : Recuento(d, n) /\ r = MayorValor(d)
    BY RecuentoWhole
  <1>3. /\ d \in Seq(Voto) /\ Len(d) \in Nat
        /\ \A a, b \in 1..Len(d) : d[a].clave = d[b].clave => a = b
        /\ \A a \in 1..Len(d) : d[a].def = VotosHasta(n, d[a].clave) /\ d[a].def > 0
        /\ \A x \in Name : VotosHasta(n, x) > 0 => \E a \in 1..Len(d) : d[a].clave = x
    BY <1>2 DEF Recuento
  <1>4. ASSUME NEW a \in 1..Len(d) PROVE d[a].clave \in Name /\ d[a].def \in Nat
    <2>1. d[a] \in Voto
      BY <1>3, ElementOfSeq
    <2> QED BY <2>1 DEF Voto
  <1>5. EsMayor(r, d, Len(d))
    BY <1>2, <1>3, MayorIs
  <1>6. leader' = IF r.cant = 1 /\ Contains(miembros, r.clave)
                  THEN [nombre |-> r.clave, mayus |-> TRUE] ELSE leader
    BY DEF RevisarElecciones
  <1>7. ASSUME NEW x PROVE VotosDe(x) = VotosHasta(n, x) /\ VotosHasta(n, x) \in Nat
    <2>1. VotosDe(x) = VotosHasta(n, x)
      BY <1>1 DEF VotosDe, VotosHasta
    <2> QED BY <1>1, <2>1, VotosCount
  <1>8. ASSUME NEW x PROVE Contains(miembros, x) <=> \E i \in DOMAIN miembros : miembros[i] = x
    BY <1>1 DEF Contains
  <1> HIDE DEF r, n
  <1>9. CASE Len(d) = 0
    <2>1. r = NingunVoto
      BY <1>5, <1>9 DEF EsMayor
    <2>2. leader' = leader
      BY <1>6, <2>1 DEF NingunVoto
    <2>3. ASSUME NEW x \in Name PROVE VotosDe(x) = 0
      <3>1. ~(VotosHasta(n, x) > 0)
        BY <1>3, <1>9
      <3> QED BY <1>7, <3>1
    <2>4. ASSUME NEW z \in Name, Gana(z) PROVE z = leader.nombre
      <3>1. leader.nombre \in Name \ {z} => VotosDe(z) > VotosDe(leader.nombre)
        BY <2>4 DEF Gana
      <3>2. ~(0 > 0)
        OBVIOUS
      <3> QED BY <1>1, <2>3, <3>1, <3>2
    <2> QED BY <2>2, <2>4
  <1>10. CASE Len(d) # 0
    <2>1. PICK k \in 1..Len(d) :
            /\ d[k].def = r.max /\ d[k].clave = r.clave
            /\ r.cant = 1 <=> \A a \in (1..Len(d)) \ {k} : d[a].def < r.max
      BY <1>5, <1>10 DEF EsMayor
    <2>2. \A a \in 1..Len(d) : d[a].def <= r.max
      BY <1>5, <1>10 DEF EsMayor
    <2>3. r.max \in Nat /\ r.max > 0 /\ r.clave \in Name
      BY <1>3, <1>4, <2>1
    <2>4. ASSUME NEW a \in 1..Len(d) PROVE VotosDe(d[a].clave) = d[a].def
      BY <1>3, <1>7
    <2>5. ASSUME NEW x \in Name
          PROVE  VotosDe(x) = 0 \/ \E a \in 1..Len(d) : d[a].clave = x /\ VotosDe(x) = d[a].def
      <3>1. CASE VotosHasta(n, x) > 0
        BY <1>3, <2>4, <3>1
      <3>2. CASE ~(VotosHasta(n, x) > 0)
        BY <1>7, <3>2
      <3> QED BY <3>1, <3>2
    <2>6. ASSUME NEW x \in Name PROVE VotosDe(x) \in Nat /\ VotosDe(x) <= r.max
      BY <1>7, <2>2, <2>3, <2>5
    <2>7. CASE r.cant = 1
      <3>1. ASSUME NEW y \in Name, y # r.clave PROVE VotosDe(r.clave) > VotosDe(y)
        <4>1. VotosDe(r.clave) = r.max
          BY <2>1, <2>4
        <4>2. CASE VotosDe(y) = 0
          BY <2>3, <4>1, <4>2
        <4>3. ASSUME NEW a \in 1..Len(d), d[a].clave = y, VotosDe(y) = d[a].def
              PROVE  VotosDe(r.clave) > VotosDe(y)
          <5>1. a \in (1..Len(d)) \ {k}
            BY <2>1, <3>1, <4>3
          <5>2. d[a].def < r.max
            BY <2>1, <2>7, <5>1
          <5> QED BY <1>4, <2>3, <4>1, <4>3, <5>2
        <4> QED BY <2>5, <4>2, <4>3
      <3>2. CASE Contains(miembros, r.clave)
        <4>1. leader' = [nombre |-> r.clave, mayus |-> TRUE]
          BY <1>6, <2>7, <3>2
        <4>2. Gana(r.clave)
          BY <1>8, <3>1, <3>2 DEF Gana
        <4> QED BY <2>3, <4>1, <4>2
      <3>3. CASE ~Contains(miembros, r.clave)
        <4>1. leader' = leader
          BY <1>6, <3>3
        <4>2. ASSUME NEW z \in Name, Gana(z) PROVE FALSE
          <5>1. z # r.clave
            BY <1>8, <3>3, <4>2 DEF Gana
          <5>2. VotosDe(z) > VotosDe(r.clave)
            BY <2>3, <4>2, <5>1 DEF Gana
          <5>3. VotosDe(r.clave) > VotosDe(z)
            BY <3>1, <5>1
          <5> QED BY <2>3, <2>6, <5>2, <5>3
        <4> QED BY <4>1, <4>2
      <3> QED BY <3>2, <3>3
    <2>8. CASE r.cant # 1
      <3>1. leader' = leader
        BY <1>6, <2>8
      <3>2. PICK m \in (1..Len(d)) \ {k} : ~(d[m].def < r.max)
        BY <2>1, <2>8
      <3>3. d[m].def = r.max /\ d[m].clave # d[k].clave
        BY <1>3, <1>4, <2>2, <2>3, <3>2
      <3>4. ASSUME NEW z \in Name, Gana(z) PROVE FALSE
        <4>1. PICK a \in 1..Len(d) : d[a].clave # z /\ d[a].def = r.max
          BY <2>1, <3>2, <3>3
        <4>2. VotosDe(z) > VotosDe(d[a].clave)
          BY <1>4, <3>4, <4>1 DEF Gana
        <4>3. VotosDe(d[a].clave) = r.max
          BY <2>4, <4>1
        <4> QED BY <2>3, <2>6, <4>2, <4>3
      <3> QED BY <3>1, <3>4
    <2> QED BY <2>7, <2>8
  <1> QED BY <1>3, <1>9, <1>10

\* Only the world save closes an election, and only an election or the first
\* foundation names a leader.
LEMMA LeaderSteps ==
  ASSUME [Next]_vars
  PROVE  /\ EleccionesAbiertas /\ ~EleccionesAbiertas' => RevisarElecciones
         /\ leader' # leader => EleccionesAbiertas \/ ~Existe
  <1>1. CASE Diplomacia
    BY <1>1 DEF Diplomacia, padronVars, votVars
  <1>2. CASE Arrancar
    BY <1>2 DEF Arrancar, votVars
  <1>3. CASE v_RutinaElecciones
    BY <1>3 DEF v_RutinaElecciones
  <1>4. ASSUME NEW u \in Name, CrearNuevoClan(u)
        PROVE  /\ UNCHANGED EleccionesAbiertas
               /\ leader' # leader => ~Existe
    BY <1>4 DEF CrearNuevoClan, padronVars, votVars
  <1>5. ASSUME NEW u \in Name,
               a_NuevoAspirante(u) \/ m_ValidarPermanencia(u) \/ OtroClan(u)
        PROVE  UNCHANGED <<EleccionesAbiertas, leader>>
    BY <1>5 DEF a_NuevoAspirante, m_ValidarPermanencia, OtroClan, padronVars, votVars
  <1>6. ASSUME NEW u \in Name, v_AbrirElecciones(u)
        PROVE  EleccionesAbiertas' /\ leader' = leader
    BY <1>6 DEF v_AbrirElecciones, padronVars
  <1>7. ASSUME NEW u \in Name, NEW n \in Name,
               \/ a_AceptarAspirante(u, n) \/ a_RechazarAspirante(u, n)
               \/ m_EcharMiembroDeClan(u, n) \/ v_UsuarioVota(u, n)
        PROVE  UNCHANGED <<EleccionesAbiertas, leader>>
    BY <1>7 DEF a_AceptarAspirante, a_RechazarAspirante, m_EcharMiembroDeClan, v_UsuarioVota,
                padronVars, votVars
  <1>8. CASE UNCHANGED vars
    BY <1>8 DEF vars, padronVars, votVars
  <1> QED BY <1>1, <1>2, <1>3, <1>4, <1>5, <1>6, <1>7, <1>8 DEF Next

\* The leader changes only at the end of an election, to the member with more votes
\* than anyone else, and then it does, for any number of voters.
THEOREM ElectedByVotes == Spec => LeaderIsElected
  <1> DEFINE A == /\ (EleccionesAbiertas /\ ~EleccionesAbiertas')
                       => IF \E x \in Name : Gana(x) THEN Gana(leader'.nombre) ELSE leader' = leader
                  /\ leader' # leader => EleccionesAbiertas \/ leader.nombre = Nadie
  <1>1. ASSUME GuildInv, [Next]_vars PROVE A
    <2>1. ~Existe => leader.nombre = Nadie
      BY <1>1 DEF GuildInv, Fundado
    <2>2. EleccionesAbiertas /\ ~EleccionesAbiertas'
            => IF \E x \in Name : Gana(x) THEN Gana(leader'.nombre) ELSE leader' = leader
      BY <1>1, LeaderSteps, ElectionEnds
    <2>3. leader' # leader => EleccionesAbiertas \/ leader.nombre = Nadie
      BY <1>1, <2>1, LeaderSteps
    <2> QED BY <2>2, <2>3
  <1>2. GuildInv /\ [Next]_vars => [A]_vars
    BY <1>1
  <1> QED BY <1>2, GuildInvariant, PTL DEF Spec, LeaderIsElected

\* A vote stands until the election is closed, whoever leaves and comes back.
THEOREM VotesAreKept == Spec => VotesStand
  <1> DEFINE A == \A n \in Name : votos[n] # Nadie /\ EleccionesAbiertas' => votos'[n] = votos[n]
  <1>1. ASSUME GuildInv, [Next]_vars PROVE A
    <2>1. votos \in [Name -> Nombres]
      BY <1>1, RegisterType
    <2>2. CASE Diplomacia
      BY <2>2 DEF Diplomacia, votVars
    <2>3. CASE Arrancar
      BY <2>3 DEF Arrancar, votVars
    <2>4. CASE v_RutinaElecciones
      BY <2>4 DEF v_RutinaElecciones, RevisarElecciones, CerrarElecciones
    <2>5. ASSUME NEW u \in Name,
                 \/ CrearNuevoClan(u) \/ a_NuevoAspirante(u) \/ m_ValidarPermanencia(u)
                 \/ OtroClan(u) \/ v_AbrirElecciones(u)
          PROVE  votos' = votos
      BY <2>5 DEF CrearNuevoClan, a_NuevoAspirante, m_ValidarPermanencia, OtroClan,
                  v_AbrirElecciones, votVars
    <2>6. ASSUME NEW u \in Name, NEW n \in Name,
                 \/ a_AceptarAspirante(u, n) \/ a_RechazarAspirante(u, n)
                 \/ m_EcharMiembroDeClan(u, n)
          PROVE  votos' = votos
      BY <2>6 DEF a_AceptarAspirante, a_RechazarAspirante, m_EcharMiembroDeClan, votVars
    <2>7. ASSUME NEW u \in Name, NEW n \in Name, v_UsuarioVota(u, n) PROVE A
      BY <2>1, <2>7 DEF v_UsuarioVota
    <2>8. CASE UNCHANGED vars
      BY <2>8 DEF vars, votVars
    <2> QED BY <1>1, <2>2, <2>3, <2>4, <2>5, <2>6, <2>7, <2>8 DEF Next
  <1>2. GuildInv /\ [Next]_vars => [A]_vars
    BY <1>1
  <1> QED BY <1>2, GuildInvariant, PTL DEF Spec, VotesStand

\* What Diplomacy promises of the relations, the guilds keep.
THEOREM GuildsFollowDiplomacy == Spec => DipSpec
  <1>1. Init => DipInit
    BY DEF Init
  <1> QED BY <1>1, RelationsFollow, PTL DEF Spec, DipSpec

\* So the vectors in memory are what a restart would read, and relations are mutual
\* but for torn treaties, whatever the commands of the guilds are.
COROLLARY RelationsOfGuilds == Spec => [](RelationsAreFiled /\ RelationsAgree)
  BY GuildsFollowDiplomacy, RelationsFiled, RelationsMutual, PTL

================================================================================
