------------------------------- MODULE Sorteio -------------------------------
(***************************************************************************)
(* An edition of Capital de Prêmios from its draft to its draw: the ADMIN  *)
(* creates, edits, opens, closes again and removes it (EdicoesService), a  *)
(* job closes what expired (EdicoesAutoEncerramentoService), and the ADMIN *)
(* starts the draw, marks and unmarks balls prize by prize, and finishes   *)
(* it (SorteioService); a marking looks for the ticket that it completes.  *)
(*                                                                         *)
(* As in CicloSena nothing is locked: a request is a record with its step  *)
(* and what it read, and each statement is an action.  A sale is reduced   *)
(* to what it asks of the edition; module Vendas has its life.             *)
(***************************************************************************)
EXTENDS Integers, FiniteSets

CONSTANTS
    Edicoes,    \* editions
    Premios,    \* prizes, created or not
    EdicaoDo,   \* EdicaoDo[r], EdicaoDo[b]: the edition of a prize, of a ticket
    Bilhetes,   \* tickets, one to a sale
    Bolas,      \* Bolas[b]: sequenciaBolas, all of the same size
    Globo,      \* balls the ADMIN may mark
    Pedidos,    \* ADMIN requests in flight
    Jobs,       \* workers of the closing job; none when it is disabled
    Nulo

ASSUME SorteioAssumption ==
    /\ Premios \cap Bilhetes = {} /\ Nulo \notin Premios \cup Bilhetes \cup Edicoes
    /\ EdicaoDo \in [Premios \cup Bilhetes -> Edicoes]
    /\ \A b \in Bilhetes : Bolas[b] \subseteq Globo /\ IsFiniteSet(Bolas[b])
    /\ \A a, b \in Bilhetes : Cardinality(Bolas[a]) = Cardinality(Bolas[b])

VARIABLES
    status,     \* status[e]: StatusEdicao, or "ausente" / "removida"
    vencida,    \* editions whose dataEncerramento has passed
    premio,     \* premio[r]: "ausente", "criado", "removido"
    ganhador,   \* ganhador[r]: Premio.ganhadorBilheteId
    resultado,  \* resultado[r]: its ResultadoPremio, [ok, marcados, ganhador]
    bilhete,    \* bilhete[b]: "nenhum", "vendido", "emitido", "apagado"
    premiado,   \* premiado[b]: Bilhete.ganhador and premioId
    pedido,     \* pedido[p]: what ADMIN request p is doing
    job         \* job[j]: the editions worker j listed

sorteio == <<premio, ganhador, resultado, premiado>>
vars == <<status, vencida, sorteio, bilhete, pedido, job>>

StatusEdicao == {"RASCUNHO", "ATIVA", "ENCERRADA", "SORTEANDO", "FINALIZADA"}

\* STATUSS_EDICAO_EM_OPERACAO.
EmOperacao == {"ATIVA", "SORTEANDO"}

Existe(e) == status[e] \in StatusEdicao

PremiosDe(e) == {r \in Premios : EdicaoDo[r] = e /\ premio[r] = "criado"}

\* The row of the edition is held by a transaction of update: every other
\* statement that writes the row waits.
Travada(e) == \E p \in Pedidos : pedido[p].passo = "premios" /\ pedido[p].e = e

SemResultado == [ok |-> FALSE, marcados |-> {}, ganhador |-> Nulo]

ApagarResultados(rs) == [r \in Premios |-> IF r \in rs THEN SemResultado ELSE resultado[r]]

Passos == {"ocioso", "conflito", "ativar", "desativar", "remover", "premios",
           "iniciar", "lerPremio", "lerMarcados", "gravar", "verificar",
           "registrar", "finalizar"}

Ocioso == [passo |-> "ocioso", e |-> Nulo, r |-> Nulo, n |-> Nulo, b |-> Nulo,
           marcar |-> FALSE, conjunto |-> {}]

\* A request that read edition e, found it in a status it accepts, and goes on.
Novo(p, e, passo) == pedido' = [pedido EXCEPT ![p] = [Ocioso EXCEPT !.passo = passo, !.e = e]]

Seguir(p, passo) == pedido' = [pedido EXCEPT ![p].passo = passo]

Encerrar(p) == pedido' = [pedido EXCEPT ![p] = Ocioso]

Init ==
    /\ status = [e \in Edicoes |-> "ausente"]
    /\ vencida = {}
    /\ premio = [r \in Premios |-> "ausente"]
    /\ ganhador = [r \in Premios |-> Nulo]
    /\ resultado = [r \in Premios |-> SemResultado]
    /\ bilhete = [b \in Bilhetes |-> "nenhum"]
    /\ premiado = [b \in Bilhetes |-> Nulo]
    /\ pedido = [p \in Pedidos |-> Ocioso]
    /\ job = [j \in Jobs |-> [passo |-> "ocioso", edicoes |-> {}]]
-----------------------------------------------------------------------------
(* The clock and the sales. *)

Passar(e) ==
    /\ Existe(e) /\ e \notin vencida
    /\ vencida' = vencida \cup {e}
    /\ UNCHANGED <<status, sorteio, bilhete, pedido, job>>

\* create looks at the status and the closing date, once.
Vender(b) ==
    /\ bilhete[b] = "nenhum"
    /\ status[EdicaoDo[b]] = "ATIVA" /\ EdicaoDo[b] \notin vencida
    /\ bilhete' = [bilhete EXCEPT ![b] = "vendido"]
    /\ UNCHANGED <<status, vencida, sorteio, pedido, job>>

\* The approval issues the ticket without looking at the edition.
Emitir(b) ==
    /\ bilhete[b] = "vendido"
    /\ bilhete' = [bilhete EXCEPT ![b] = "emitido"]
    /\ UNCHANGED <<status, vencida, sorteio, pedido, job>>

\* cancelar deletes the ticket, a winner's too; Premio keeps its id.
Cancelar(b) ==
    /\ bilhete[b] \in {"vendido", "emitido"}
    /\ bilhete' = [bilhete EXCEPT ![b] = "apagado"]
    /\ premiado' = [premiado EXCEPT ![b] = Nulo]
    /\ UNCHANGED <<status, vencida, premio, ganhador, resultado, pedido, job>>
-----------------------------------------------------------------------------
(* EdicoesService. *)

\* A new edition closes in the future and has at least one prize.
Criar(e) ==
    /\ status[e] = "ausente"
    /\ status' = [status EXCEPT ![e] = "RASCUNHO"]
    /\ \E rs \in SUBSET {r \in Premios : EdicaoDo[r] = e} :
          /\ rs # {}
          /\ premio' = [r \in Premios |-> IF r \in rs THEN "criado" ELSE premio[r]]
    /\ UNCHANGED <<vencida, ganhador, resultado, bilhete, premiado, pedido, job>>

\* update may bring new dates, whatever the status, past or future.
NovasDatas(e) == vencida' \in {vencida, vencida \cup {e}, vencida \ {e}}

\* update without prizes is one statement.
MudarDatas(e) ==
    /\ Existe(e) /\ ~Travada(e)
    /\ NovasDatas(e)
    /\ UNCHANGED <<status, sorteio, bilhete, pedido, job>>

\* update with a list of prizes, some of them new: the transaction takes the row
\* of the edition, reads its prizes, and none that is not in the list may have a
\* winner...
LerPremios(p, e) ==
    /\ pedido[p].passo = "ocioso"
    /\ Existe(e) /\ ~Travada(e)
    /\ \E rs \in SUBSET {r \in Premios : EdicaoDo[r] = e /\ premio[r] # "removido"} :
          /\ rs # {}
          /\ \A r \in PremiosDe(e) \ rs : ganhador[r] = Nulo
          /\ pedido' = [pedido EXCEPT ![p] =
                [Ocioso EXCEPT !.passo = "premios", !.e = e, !.conjunto = rs]]
    /\ UNCHANGED <<status, vencida, sorteio, bilhete, job>>

\* ...and the commit deletes those, with their results, and adds the new ones.
GravarPremios(p) ==
    LET e == pedido[p].e
        fora == PremiosDe(e) \ pedido[p].conjunto IN
    /\ pedido[p].passo = "premios"
    /\ premio' = [r \in Premios |-> CASE r \in fora -> "removido"
                                      [] r \in pedido[p].conjunto -> "criado"
                                      [] OTHER -> premio[r]]
    /\ resultado' = ApagarResultados(fora)
    /\ NovasDatas(e)
    /\ Encerrar(p)
    /\ UNCHANGED <<status, ganhador, bilhete, premiado, job>>

\* ativar: a draft whose numbers are in the matrix and whose closing is ahead.
IniciarAtivacao(p, e) ==
    /\ pedido[p].passo = "ocioso"
    /\ status[e] = "RASCUNHO" /\ e \notin vencida
    /\ Novo(p, e, "conflito")
    /\ UNCHANGED <<status, vencida, sorteio, bilhete, job>>

\* validarEdicaoEmOperacaoUnica: a closed edition is not in operation.
ValidarUnica(p) ==
    /\ pedido[p].passo = "conflito"
    /\ IF \E o \in Edicoes \ {pedido[p].e} : status[o] \in EmOperacao
       THEN Encerrar(p)
       ELSE Seguir(p, "ativar")
    /\ UNCHANGED <<status, vencida, sorteio, bilhete, job>>

\* The writes of the status are by id, without a condition.
MudarStatus(p, passo, novo) ==
    /\ pedido[p].passo = passo
    /\ Existe(pedido[p].e) /\ ~Travada(pedido[p].e)
    /\ status' = [status EXCEPT ![pedido[p].e] = novo]
    /\ Encerrar(p)
    /\ UNCHANGED <<vencida, sorteio, bilhete, job>>

Ativar(p) == MudarStatus(p, "ativar", "ATIVA")

IniciarDesativacao(p, e) ==
    /\ pedido[p].passo = "ocioso"
    /\ status[e] = "ATIVA"
    /\ Novo(p, e, "desativar")
    /\ UNCHANGED <<status, vencida, sorteio, bilhete, job>>

Desativar(p) == MudarStatus(p, "desativar", "RASCUNHO")

IniciarRemocao(p, e) ==
    /\ pedido[p].passo = "ocioso"
    /\ status[e] = "RASCUNHO"
    /\ Novo(p, e, "remover")
    /\ UNCHANGED <<status, vencida, sorteio, bilhete, job>>

\* In cascade, with the sales, their tickets and commissions and the results.
Remover(p) ==
    LET e == pedido[p].e IN
    /\ pedido[p].passo = "remover"
    /\ Existe(e) /\ ~Travada(e)
    /\ status' = [status EXCEPT ![e] = "removida"]
    /\ premio' = [r \in Premios |-> IF r \in PremiosDe(e) THEN "removido" ELSE premio[r]]
    /\ resultado' = ApagarResultados(PremiosDe(e))
    /\ bilhete' = [b \in Bilhetes |-> IF EdicaoDo[b] = e /\ bilhete[b] # "nenhum"
                                      THEN "apagado" ELSE bilhete[b]]
    /\ premiado' = [b \in Bilhetes |-> IF EdicaoDo[b] = e THEN Nulo ELSE premiado[b]]
    /\ Encerrar(p)
    /\ UNCHANGED <<vencida, ganhador, job>>
-----------------------------------------------------------------------------
(* SorteioService. *)

\* The prizes are read with the edition.
LerParaIniciar(p, e) ==
    /\ pedido[p].passo = "ocioso"
    /\ status[e] \in {"ENCERRADA", "SORTEANDO"}
    /\ pedido' = [pedido EXCEPT ![p] =
          [Ocioso EXCEPT !.passo = "iniciar", !.e = e, !.conjunto = PremiosDe(e)]]
    /\ UNCHANGED <<status, vencida, sorteio, bilhete, job>>

\* Mutant: a draw that starts again begins with no ball marked.
Zerar(p) == [r \in Premios |-> IF r \in pedido[p].conjunto
                               THEN [SemResultado EXCEPT !.ok = TRUE] ELSE resultado[r]]

\* upsert with an empty update: a result that exists keeps its balls.
Reabrir(p) == [r \in Premios |-> IF r \in pedido[p].conjunto
                                 THEN [resultado[r] EXCEPT !.ok = TRUE] ELSE resultado[r]]

\* One transaction; it fails (P2003) if a prize is gone by now.
IniciarSorteio(p) ==
    /\ pedido[p].passo = "iniciar"
    /\ pedido[p].conjunto \subseteq PremiosDe(pedido[p].e)
    /\ Existe(pedido[p].e) /\ ~Travada(pedido[p].e)
    /\ status' = [status EXCEPT ![pedido[p].e] = "SORTEANDO"]
    /\ resultado' = Reabrir(p)
    /\ Encerrar(p)
    /\ UNCHANGED <<vencida, premio, ganhador, bilhete, premiado, job>>

\* marcarNumero and desmarcarNumero: the edition is read...
LerEdicao(p, r, n, marcar) ==
    /\ pedido[p].passo = "ocioso"
    /\ status[EdicaoDo[r]] = "SORTEANDO"
    /\ pedido' = [pedido EXCEPT ![p] = [Ocioso EXCEPT
          !.passo = "lerPremio", !.e = EdicaoDo[r], !.r = r, !.n = n, !.marcar = marcar]]
    /\ UNCHANGED <<status, vencida, sorteio, bilhete, job>>

\* 409 "Este prêmio já possui um ganhador": asked by the marking only.
SemGanhador(p) == pedido[p].marcar => ganhador[pedido[p].r] = Nulo

\* ...then the prize...
LerPremio(p) ==
    /\ pedido[p].passo = "lerPremio"
    /\ IF premio[pedido[p].r] = "criado" /\ SemGanhador(p)
       THEN Seguir(p, "lerMarcados")
       ELSE Encerrar(p)
    /\ UNCHANGED <<status, vencida, sorteio, bilhete, job>>

\* ...then its balls, and the new list is made of what was read...
LerMarcados(p) ==
    LET lidos == resultado[pedido[p].r]
        n == pedido[p].n IN
    /\ pedido[p].passo = "lerMarcados"
    /\ IF lidos.ok /\ (n \in lidos.marcados) # pedido[p].marcar
       THEN pedido' = [pedido EXCEPT ![p].passo = "gravar", ![p].conjunto =
                IF pedido[p].marcar THEN lidos.marcados \cup {n} ELSE lidos.marcados \ {n}]
       ELSE Encerrar(p)
    /\ UNCHANGED <<status, vencida, sorteio, bilhete, job>>

\* ...and written over whatever the list has become.
GravarMarcados(p) ==
    LET r == pedido[p].r IN
    /\ pedido[p].passo = "gravar"
    /\ resultado[r].ok
    /\ resultado' = [resultado EXCEPT ![r].marcados = pedido[p].conjunto]
    /\ IF pedido[p].marcar THEN Seguir(p, "verificar") ELSE Encerrar(p)
    /\ UNCHANGED <<status, vencida, premio, ganhador, bilhete, premiado, job>>

\* Mutant: one ball is missing.
PorUmaBola(p) ==
    {b \in Bilhetes : /\ EdicaoDo[b] = pedido[p].e /\ bilhete[b] = "emitido"
                      /\ premiado[b] = Nulo
                      /\ \E n \in Globo : Bolas[b] \subseteq pedido[p].conjunto \cup {n}}

\* Tickets of the edition that won nothing yet and have all their balls in the
\* list the request wrote; none before it is as long as a card.
Completos(p) ==
    {b \in Bilhetes : /\ EdicaoDo[b] = pedido[p].e /\ bilhete[b] = "emitido"
                      /\ premiado[b] = Nulo
                      /\ Bolas[b] \subseteq pedido[p].conjunto}

\* findMany gives them in no order: any of them is the winner.
VerificarGanhador(p) ==
    /\ pedido[p].passo = "verificar"
    /\ \/ Completos(p) = {} /\ Encerrar(p)
       \/ \E b \in Completos(p) :
             pedido' = [pedido EXCEPT ![p].passo = "registrar", ![p].b = b]
    /\ UNCHANGED <<status, vencida, sorteio, bilhete, job>>

\* Mutant: the ticket is left out of the transaction.
RegistrarSemBilhete(p) ==
    LET r == pedido[p].r
        b == pedido[p].b IN
    /\ pedido[p].passo = "registrar"
    /\ bilhete[b] = "emitido" /\ premio[r] = "criado" /\ resultado[r].ok
    /\ ganhador' = [ganhador EXCEPT ![r] = b]
    /\ resultado' = [resultado EXCEPT ![r].ganhador = b]
    /\ Encerrar(p)
    /\ UNCHANGED <<status, vencida, premio, bilhete, premiado, job>>

\* Ticket, prize and result in one transaction, none with a condition; P2025
\* undoes it if one of them is gone.
RegistrarGanhador(p) ==
    LET r == pedido[p].r
        b == pedido[p].b IN
    /\ pedido[p].passo = "registrar"
    /\ bilhete[b] = "emitido" /\ premio[r] = "criado" /\ resultado[r].ok
    /\ premiado' = [premiado EXCEPT ![b] = r]
    /\ ganhador' = [ganhador EXCEPT ![r] = b]
    /\ resultado' = [resultado EXCEPT ![r].ganhador = b]
    /\ Encerrar(p)
    /\ UNCHANGED <<status, vencida, premio, bilhete, job>>

LerParaFinalizar(p, e) ==
    /\ pedido[p].passo = "ocioso"
    /\ status[e] = "SORTEANDO"
    /\ Novo(p, e, "finalizar")
    /\ UNCHANGED <<status, vencida, sorteio, bilhete, job>>

Finalizar(p) == MudarStatus(p, "finalizar", "FINALIZADA")

\* An error, or the process stops: what was written stays.
Falhar(p) ==
    /\ pedido[p].passo # "ocioso"
    /\ Encerrar(p)
    /\ UNCHANGED <<status, vencida, sorteio, bilhete, job>>
-----------------------------------------------------------------------------
(* EdicoesAutoEncerramentoService. *)

Vencidas == {e \in vencida : status[e] = "ATIVA"}

ListarVencidas(j) ==
    /\ job[j].passo = "ocioso" /\ Vencidas # {}
    /\ job' = [job EXCEPT ![j] = [passo |-> "encerrar", edicoes |-> Vencidas]]
    /\ UNCHANGED <<status, vencida, sorteio, bilhete, pedido>>

\* updateMany keeps the condition on the status, not the one on the date.
EncerrarVencidas(j) ==
    /\ job[j].passo = "encerrar"
    /\ \A e \in job[j].edicoes : status[e] = "ATIVA" => ~Travada(e)
    /\ status' = [e \in Edicoes |-> IF e \in job[j].edicoes /\ status[e] = "ATIVA"
                                    THEN "ENCERRADA" ELSE status[e]]
    /\ job' = [job EXCEPT ![j] = [passo |-> "ocioso", edicoes |-> {}]]
    /\ UNCHANGED <<vencida, sorteio, bilhete, pedido>>

FalharJob(j) ==
    /\ job[j].passo # "ocioso"
    /\ job' = [job EXCEPT ![j] = [passo |-> "ocioso", edicoes |-> {}]]
    /\ UNCHANGED <<status, vencida, sorteio, bilhete, pedido>>
-----------------------------------------------------------------------------
Administrar(p) ==
    \/ \E e \in Edicoes : \/ LerPremios(p, e)
                          \/ IniciarAtivacao(p, e)
                          \/ IniciarDesativacao(p, e)
                          \/ IniciarRemocao(p, e)
                          \/ LerParaIniciar(p, e)
                          \/ LerParaFinalizar(p, e)
    \/ \E r \in Premios, n \in Globo, marcar \in BOOLEAN : LerEdicao(p, r, n, marcar)
    \/ GravarPremios(p)
    \/ ValidarUnica(p)
    \/ Ativar(p)
    \/ Desativar(p)
    \/ Remover(p)
    \/ IniciarSorteio(p)
    \/ LerPremio(p)
    \/ LerMarcados(p)
    \/ GravarMarcados(p)
    \/ VerificarGanhador(p)
    \/ RegistrarGanhador(p)
    \/ Finalizar(p)
    \/ Falhar(p)

Next ==
    \/ \E e \in Edicoes : Passar(e) \/ Criar(e) \/ MudarDatas(e)
    \/ \E b \in Bilhetes : Vender(b) \/ Emitir(b) \/ Cancelar(b)
    \/ \E p \in Pedidos : Administrar(p)
    \/ \E j \in Jobs : ListarVencidas(j) \/ EncerrarVencidas(j) \/ FalharJob(j)

Spec == Init /\ [][Next]_vars

\* BullMQ repeats the job for ever, its failures come to an end, and the row it
\* waits for is released: Prisma gives a transaction 5 seconds.
Justica ==
    /\ \A j \in Jobs : /\ SF_vars(ListarVencidas(j)) /\ SF_vars(EncerrarVencidas(j))
                       /\ <>[][~FalharJob(j)]_vars
    /\ \A p \in Pedidos :
          WF_vars(pedido[p].passo = "premios" /\ (GravarPremios(p) \/ Falhar(p)))
-----------------------------------------------------------------------------
Pedido == [passo: Passos, e: Edicoes \cup {Nulo}, r: Premios \cup {Nulo}, n: Globo \cup {Nulo},
           b: Bilhetes \cup {Nulo}, marcar: BOOLEAN, conjunto: SUBSET (Premios \cup Globo)]

\* Every variable has its type, and a result belongs to a prize that exists.
TypeOK ==
    /\ status \in [Edicoes -> StatusEdicao \cup {"ausente", "removida"}]
    /\ vencida \subseteq Edicoes
    /\ premio \in [Premios -> {"ausente", "criado", "removido"}]
    /\ ganhador \in [Premios -> Bilhetes \cup {Nulo}]
    /\ resultado \in [Premios -> [ok: BOOLEAN, marcados: SUBSET Globo,
                                  ganhador: Bilhetes \cup {Nulo}]]
    /\ \A r \in Premios : ~resultado[r].ok \/ premio[r] # "criado" =>
          resultado[r] = SemResultado
    /\ bilhete \in [Bilhetes -> {"nenhum", "vendido", "emitido", "apagado"}]
    /\ premiado \in [Bilhetes -> Premios \cup {Nulo}]
    /\ pedido \in [Pedidos -> Pedido]
    /\ job \in [Jobs -> [passo: {"ocioso", "encerrar"}, edicoes: SUBSET Edicoes]]

\* Premio and ResultadoPremio name the same winner, however markings, new
\* starts of the draw, removals and failures overlap.
PremioEResultadoConcordam ==
    \A r \in Premios : premio[r] = "criado" => ganhador[r] = resultado[r].ganhador

\* ...and what they name is a ticket, of a prize that is there.
SorteioConcorda == TypeOK /\ PremioEResultadoConcordam

\* A winning ticket and its prize name each other; a prize whose winner's sale
\* was cancelled names a ticket that is gone.
GanhadorUnico ==
    /\ \A b \in Bilhetes : premiado[b] # Nulo =>
          premio[premiado[b]] = "criado" /\ ganhador[premiado[b]] = b
    /\ \A r \in Premios : premio[r] = "criado" /\ ganhador[r] # Nulo =>
          bilhete[ganhador[r]] = "apagado" \/ premiado[ganhador[r]] = r

\* A prize gets its winner once, in a draw that runs, with all the balls of the
\* ticket marked, and the ticket had won nothing before.
PremiacaoJusta(r) ==
    ganhador'[r] # ganhador[r] =>
        /\ ganhador[r] = Nulo
        /\ status[EdicaoDo[r]] = "SORTEANDO"
        /\ Bolas[ganhador'[r]] \subseteq resultado'[r].marcados
        /\ premiado[ganhador'[r]] = Nulo

\* The edges of the life of an edition (docs/SORTEIO_FRONTEND.md:30-46), the
\* deactivation and the removal included.
Ciclo == {<<"ausente", "RASCUNHO">>, <<"RASCUNHO", "ATIVA">>, <<"ATIVA", "RASCUNHO">>,
          <<"RASCUNHO", "removida">>, <<"ATIVA", "ENCERRADA">>, <<"ENCERRADA", "SORTEANDO">>,
          <<"SORTEANDO", "FINALIZADA">>}
CicloPermitido(e) == status'[e] # status[e] => <<status[e], status'[e]>> \in Ciclo

\* Sales of an expired edition end: the job closes it, unless it gets new dates.
ExpiradaEncerra ==
    \A e \in Edicoes : status[e] = "ATIVA" /\ e \in vencida ~> status[e] # "ATIVA" \/ e \notin vencida

\* "nunca existem duas edicoes em operacao ao mesmo tempo" (README.md:170), for what the code
\* counts as operating: an edition that is closed and waits for its draw does not count.
UmaEmOperacao == Cardinality({e \in Edicoes : status[e] \in EmOperacao}) <= 1
=============================================================================
