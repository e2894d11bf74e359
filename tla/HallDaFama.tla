----------------------------- MODULE HallDaFama -----------------------------
(***************************************************************************)
(* Who won, as the public sees it: the Hall of Fame of the shop, read in   *)
(* three statements and kept in Redis for five minutes, and the state of   *)
(* the draw.  Two readers of the Hall may cross each other, the draw and   *)
(* the cancellation of a winning sale.                                     *)
(***************************************************************************)
EXTENDS Integers, FiniteSets

CONSTANTS
    Edicoes, Bilhetes, Premios,    \* numbers, later editions and prizes being larger
    EdicaoDe,                      \* EdicaoDe[b], EdicaoDo[p]: the edition of a ticket, of a prize
    EdicaoDo,
    Leitores,                      \* readers in flight at the same time
    Nulo,
    LimiteEdicoes, LimiteLinhas    \* GANHADORES_EDICOES_LIMITE, GANHADORES_EXIBICAO_LIMITE

VARIABLES
    status,     \* status[e]: "SORTEANDO" or "FINALIZADA"
    vivos,      \* the tickets that exist: a cancellation deletes those of the sale
    ganhador,   \* ganhador[p]: Premio.ganhadorBilheteId
    premio,     \* premio[b]: Bilhete.premioId, when the ticket has won
    cache,      \* the list in Redis, or Nulo
    leitura,    \* leitura[r]: what reader r has read
    cruzou,     \* history: the readers that a write crossed
    empatados   \* history: the prizes that were registered twice

sorteio == <<status, vivos, ganhador, premio>>
vars == <<sorteio, cache, leitura, cruzou, empatados>>

Livre == [passo |-> "livre", edicoes |-> {}, lista |-> {}]
Vencedores(es) == {b \in vivos : premio[b] # Nulo /\ EdicaoDe[b] \in es}
Finalizadas == {e \in Edicoes : status[e] = "FINALIZADA"}
MaisRecentes(es, n) == {e \in es : Cardinality({f \in es : f > e}) < n}

\* Mutant: the window starts from the closed editions, with winners or not.
JanelaDasFinalizadas(ancora) == MaisRecentes(Finalizadas, LimiteEdicoes)
\* "A janela precisa partir das edições que REALMENTE têm ganhador".
Janela(ancora) == MaisRecentes(ancora \cap Finalizadas, LimiteEdicoes)

\* The latest edition first, then the prizes in their order, then the tickets.
Antes(k, l) ==
    LET ek == EdicaoDe[k.b]  el == EdicaoDe[l.b]
    IN  ek > el \/ (ek = el /\ (k.p < l.p \/ (k.p = l.p /\ k.b < l.b)))
Corte(linhas) == {l \in linhas : Cardinality({k \in linhas : Antes(k, l)}) < LimiteLinhas}

\* A prize is shared among all its winners; the cut of the list comes after.
Linhas(es) ==
    LET bs == Vencedores(es)
    IN  Corte({[b |-> b, p |-> premio[b], total |-> Cardinality({c \in bs : premio[c] = premio[b]})] :
               b \in bs})

\* What obterEstadoSorteio shows of a prize: its winner, if the ticket still exists.
EstadoDoPremio(p) == IF ganhador[p] \in vivos THEN ganhador[p] ELSE Nulo

\* Ids and numbers: a ticket and a prize are of an edition.
HallAssumption ==
    /\ Edicoes \subseteq Int /\ IsFiniteSet(Bilhetes)
    /\ EdicaoDe \in [Bilhetes -> Edicoes] /\ EdicaoDo \in [Premios -> Edicoes]
    /\ Nulo \notin Bilhetes \cup Premios

-----------------------------------------------------------------------------
Init ==
    /\ status = [e \in Edicoes |-> "SORTEANDO"]
    /\ vivos = Bilhetes
    /\ ganhador = [p \in Premios |-> Nulo] /\ premio = [b \in Bilhetes |-> Nulo]
    /\ cache = Nulo /\ leitura = [r \in Leitores |-> Livre]
    /\ cruzou = {} /\ empatados = {}

\* What the draw and the sales write (Sorteio, Vendas), over the readers in flight.
Escrever == cruzou' = {r \in Leitores : leitura[r] # Livre} /\ UNCHANGED <<cache, leitura>>

MarcarGanhador(b, p) == [premio EXCEPT ![b] = p]
\* RegistrarGanhador of Sorteio.  Markings that overlap may register a prize twice (at most
\* twice here), one ticket for two prizes, or a winner of a draw already closed.
Registrar(p, b) ==
    /\ p \notin empatados
    /\ EdicaoDe[b] = EdicaoDo[p] /\ b \in vivos /\ premio[b] # p
    /\ ganhador' = [ganhador EXCEPT ![p] = b]
    /\ premio' = MarcarGanhador(b, p)
    /\ empatados' = IF ganhador[p] = Nulo /\ premio[b] = Nulo THEN empatados
                    ELSE empatados \cup ({p, premio[b]} \cap Premios)
    /\ UNCHANGED <<status, vivos>> /\ Escrever
\* finalizarSorteio asks for no winner.
Finalizar(e) ==
    /\ status[e] = "SORTEANDO"
    /\ status' = [status EXCEPT ![e] = "FINALIZADA"]
    /\ UNCHANGED <<vivos, ganhador, premio, empatados>> /\ Escrever
Cancelar(b) ==
    /\ b \in vivos
    /\ vivos' = vivos \ {b}
    /\ UNCHANGED <<status, ganhador, premio, empatados>> /\ Escrever

\* getGanhadores: what is in Redis is answered as it is; without it, or when Redis fails, the
\* list comes from the database.
Ir(r, passo, edicoes, lista) ==
    leitura' = [leitura EXCEPT ![r] = [passo |-> passo, edicoes |-> edicoes, lista |-> lista]]
LerCache(r) ==
    /\ leitura[r] = Livre
    /\ Ir(r, "ancorar", {}, {}) /\ cruzou' = cruzou \ {r}
    /\ UNCHANGED <<sorteio, cache, empatados>>
Ancorar(r) ==
    /\ leitura[r].passo = "ancorar"
    /\ Ir(r, "janela", {EdicaoDe[b] : b \in Vencedores(Edicoes)}, {})
    /\ UNCHANGED <<sorteio, cache, cruzou, empatados>>
Escolher(r) ==
    /\ leitura[r].passo = "janela"
    /\ Ir(r, "bilhetes", Janela(leitura[r].edicoes), {})
    /\ UNCHANGED <<sorteio, cache, cruzou, empatados>>
LerBilhetes(r) ==
    /\ leitura[r].passo = "bilhetes"
    /\ Ir(r, "gravar", {}, Linhas(leitura[r].edicoes))
    /\ UNCHANGED <<sorteio, cache, cruzou, empatados>>
\* SETEX, whose failure is only logged; an empty list is kept too.
GravarCache(r) ==
    /\ leitura[r].passo = "gravar"
    /\ cache' \in {cache, leitura[r].lista}
    /\ Ir(r, "livre", {}, {})
    /\ UNCHANGED <<sorteio, cruzou, empatados>>
\* GANHADORES_CACHE_TTL_SEGUNDOS
Prazo == cache # Nulo
Expirar ==
    /\ Prazo /\ cache' = Nulo
    /\ UNCHANGED <<sorteio, leitura, cruzou, empatados>>

Next ==
    \/ \E p \in Premios, b \in Bilhetes : Registrar(p, b)
    \/ \E e \in Edicoes : Finalizar(e)
    \/ \E b \in Bilhetes : Cancelar(b)
    \/ \E r \in Leitores :
         LerCache(r) \/ Ancorar(r) \/ Escolher(r) \/ LerBilhetes(r) \/ GravarCache(r)
    \/ Expirar

Spec == Init /\ [][Next]_vars
\* Redis drops a key whose time has come.
Justica == WF_vars(Expirar)
FairSpec == Spec /\ Justica

-----------------------------------------------------------------------------
(* What the list should be, said without the three statements. *)
Exibiveis == {e \in Finalizadas : \E b \in vivos : EdicaoDe[b] = e /\ premio[b] # Nulo}
Hall ==
    LET es == {e \in Exibiveis : Cardinality({f \in Exibiveis : f > e}) < LimiteEdicoes}
        ganharam(p) == {b \in vivos : premio[b] = p}
        todas == UNION {{[b |-> b, p |-> p, total |-> Cardinality(ganharam(p))] : b \in ganharam(p)} :
                        p \in {q \in Premios : EdicaoDo[q] \in es}}
    IN  Corte(todas)

LinhaDoHall == [b : Bilhetes, p : Premios, total : 1..Cardinality(Bilhetes)]
TypeOK ==
    /\ status \in [Edicoes -> {"SORTEANDO", "FINALIZADA"}] /\ vivos \subseteq Bilhetes
    /\ ganhador \in [Premios -> Bilhetes \cup {Nulo}] /\ premio \in [Bilhetes -> Premios \cup {Nulo}]
    /\ cache = Nulo \/ cache \subseteq LinhaDoHall
    /\ \A r \in Leitores : leitura[r].lista \subseteq LinhaDoHall
    /\ cruzou \subseteq Leitores /\ empatados \subseteq Premios

\* A list that no write crossed is the Hall: no edition without winners takes a place in
\* it, and the share of a prize counts all its winners, those that the cut leaves out too
\* ("publicando valor por ganhador inflado", loja-publica.service.ts:804).
HallCompleto ==
    \A r \in Leitores : leitura[r].passo = "gravar" /\ r \notin cruzou => leitura[r].lista = Hall

\* The two tables of a winner, the prize's and the ticket's, show the same one, unless two
\* markings gave the prize to two tickets; that of a cancelled sale leaves both.
EstadoEHallConcordam ==
    \A p \in Premios \ empatados : {b \in vivos : premio[b] = p} = {EstadoDoPremio(p)} \ {Nulo}

\* Whatever crosses the readers, the Hall in Redis ends up being the one of the database.
HallAtualiza == <>[](cache \in {Nulo, Hall})
=============================================================================
