------------------------------ MODULE CicloSena ------------------------------
(***************************************************************************)
(* The life of a Capital Sena edition: the ADMIN creates, edits, opens,    *)
(* closes and removes it (EdicoesSenaService), a recurring job closes what *)
(* expired and opens the next draft (EdicoesSenaCicloVidaService), the     *)
(* ADMIN types the result of the Mega-Sena (SorteioSenaService) and has    *)
(* the cards judged (ApuracaoSenaService).                                 *)
(*                                                                         *)
(* Beside them the sales are made, paid and cancelled (VendasSenaService). *)
(*                                                                         *)
(* None of these takes a lock and only one write carries a condition: each *)
(* request reads, decides, and writes one or two statements later.  So a   *)
(* request is a record with the step it is at and what it read, and every  *)
(* statement that reads or writes the database is an action; a transaction *)
(* that does not look again at what was read before it is one.             *)
(***************************************************************************)
EXTENDS Integers, FiniteSets

CONSTANTS
    Edicoes,      \* editions
    Vendas,       \* sales
    EdicaoDaVenda, \* EdicaoDaVenda[v]: the edition of sale v
    Cartelas,     \* rows of CartelaSena, those that any transaction may insert
    VendaDe,      \* VendaDe[c]: the sale of row c
    Numeros,      \* Numeros[c]: numerosEscolhidos, six balls
    Extra,        \* Extra[c]: setimoNumero, a ball outside Numeros[c]
    Resultados,   \* results: [sorteados, bola], bola = Nulo when not informed
    Pedidos,      \* ADMIN requests in flight
    Atendimentos, \* requests in flight that create, confirm or cancel a sale
    Jobs,         \* workers of the job's queue; none when it is disabled
    Nulo

ASSUME CicloSenaAssumption ==
    /\ Nulo \notin Edicoes \cup Resultados
    /\ EdicaoDaVenda \in [Vendas -> Edicoes] /\ Nulo \notin Vendas
    /\ VendaDe \in [Cartelas -> Vendas]
    /\ \A c \in Cartelas : Cardinality(Numeros[c]) = 6 /\ Extra[c] \notin Numeros[c]
    /\ \A r \in Resultados : Cardinality(r.sorteados) = 6 /\ r.bola \notin r.sorteados

VARIABLES
    status,     \* status[e]: StatusEdicaoSena, or "ausente" / "removida"
    tempo,      \* tempo[e]: the clock against dataEncerramento, dataSorteioMegaSena
    resultado,  \* resultado[e]: its ResultadoSena
    apurado,    \* apurado[e]: ResultadoSena.apurado
    cartela,    \* cartela[c]: "nenhuma", its StatusCartelaSena, "apagada"
    pedido,     \* pedido[p]: what ADMIN request p is doing
    ciclo,      \* ciclo[j]: what worker j is doing
    venda,      \* venda[v]: StatusVendaSena, or "nenhuma"
    atendimento, \* atendimento[a]: what request a does with a sale
    disputadas  \* history: sales that were being confirmed and cancelled at once

edicao == <<status, tempo, resultado, apurado>>
vendas == <<venda, atendimento, disputadas>>
vars == <<edicao, cartela, pedido, ciclo, vendas>>

\* What an action of PassoDaEdicao says of the next state.
semVendas == <<edicao, cartela, pedido, ciclo>>

StatusEdicaoSena == {"RASCUNHO", "ATIVA", "ENCERRADA", "APURANDO", "FINALIZADA"}

Faixas == {"NAO_PREMIADA", "QUADRA", "QUINA", "SENA", "SENA_BONUS"}

Cartoes == {"nenhuma", "CONFIRMADA", "apagada"} \cup Faixas
EdicaoDe == [c \in Cartelas |-> EdicaoDaVenda[VendaDe[c]]]

Existe(e) == status[e] \in StatusEdicaoSena

\* "CONFIRMADA" or judged: there is a CartelaSena row.
TemLinha(c) == cartela[c] \in Faixas \cup {"CONFIRMADA"}

\* The band of card c under result r.
Faixa(c, r) ==
    LET acertos == Cardinality(Numeros[c] \cap r.sorteados)
        setimoAcertou == IF r.bola # Nulo THEN Extra[c] = r.bola ELSE Extra[c] \in r.sorteados
    IN  CASE acertos = 6 -> IF setimoAcertou THEN "SENA_BONUS" ELSE "SENA"
          [] acertos = 5 -> "QUINA"
          [] acertos = 4 -> "QUADRA"
          [] OTHER -> "NAO_PREMIADA"

Passos == {"ocioso", "editar", "conflito", "ativar", "encerrar", "remover",
           "gravar", "avancar", "listar", "julgar"}

Ocioso == [passo |-> "ocioso", e |-> Nulo, lido |-> "ausente", r |-> Nulo, fila |-> {}]

\* A request that read edition e, found it in a status it accepts, and goes on.
Novo(p, e, passo) ==
    pedido' = [pedido EXCEPT ![p] = [Ocioso EXCEPT !.passo = passo, !.e = e, !.lido = status[e]]]

Encerrar(p) == pedido' = [pedido EXCEPT ![p] = Ocioso]

\* A request at the counter: viu is whether it saw cards.
Parado == [passo |-> "ocioso", v |-> Nulo, viu |-> FALSE]

Atender(a, passo, v, viu) ==
    atendimento' = [atendimento EXCEPT ![a] = [passo |-> passo, v |-> v, viu |-> viu]]

Largar(a) == atendimento' = [atendimento EXCEPT ![a] = Parado]

CicloOcioso == [passo |-> "ocioso", edicoes |-> {}]

IrPara(j, passo, es) == ciclo' = [ciclo EXCEPT ![j] = [passo |-> passo, edicoes |-> es]]

\* The clock, seen by a request: not past the closing, past it, past the draw.
Tempos == {"aberta", "encerrada", "sorteada"}

Init ==
    /\ status = [e \in Edicoes |-> "ausente"]
    /\ tempo = [e \in Edicoes |-> "aberta"]
    /\ resultado = [e \in Edicoes |-> Nulo]
    /\ apurado = [e \in Edicoes |-> FALSE]
    /\ cartela = [c \in Cartelas |-> "nenhuma"]
    /\ pedido = [p \in Pedidos |-> Ocioso]
    /\ ciclo = [j \in Jobs |-> CicloOcioso]
    /\ venda = [v \in Vendas |-> "nenhuma"]
    /\ atendimento = [a \in Atendimentos |-> Parado]
    /\ disputadas = {}
-----------------------------------------------------------------------------
Passar(e) ==
    /\ tempo' = [tempo EXCEPT ![e] = IF @ = "aberta" THEN "encerrada" ELSE "sorteada"]
    /\ tempo[e] # "sorteada"
    /\ UNCHANGED <<status, resultado, apurado, cartela, pedido, ciclo>>

(* VendasSenaService: what a judging and a removal see of the sales.  Who pays, and with   *)
(* what, is VendasSena's.                                                                  *)

\* The one moment a sale looks at its edition.
PedirVenda(a, v) ==
    /\ atendimento[a].passo = "ocioso" /\ venda[v] = "nenhuma"
    /\ status[EdicaoDaVenda[v]] = "ATIVA" /\ tempo[EdicaoDaVenda[v]] = "aberta"
    /\ Atender(a, "criar", v, FALSE)
    /\ UNCHANGED <<cartela, venda>>

DaVenda(v) == {c \in Cartelas : VendaDe[c] = v}
ComLinha(v) == {c \in DaVenda(v) : TemLinha(c)}

\* criarCartelasRecebidas, as many as were bought.
Emitir(v) ==
    \E cs \in SUBSET {c \in DaVenda(v) : cartela[c] = "nenhuma"} :
        /\ cs # {}
        /\ cartela' = [c \in Cartelas |-> IF c \in cs THEN "CONFIRMADA" ELSE cartela[c]]

\* The insert asks only that the edition be there: it may have closed since.
InserirVenda(a) ==
    LET v == atendimento[a].v IN
    /\ atendimento[a].passo = "criar" /\ venda[v] = "nenhuma" /\ Existe(EdicaoDaVenda[v])
    /\ venda' = [venda EXCEPT ![v] = "PENDENTE"]
    /\ Atender(a, "cobrar", v, FALSE)
    /\ UNCHANGED cartela

\* A MANUAL sale is approved where it is created, in one transaction.
InserirManual(a) ==
    LET v == atendimento[a].v IN
    /\ atendimento[a].passo = "criar" /\ venda[v] = "nenhuma" /\ Existe(EdicaoDaVenda[v])
    /\ venda' = [venda EXCEPT ![v] = "APROVADO"] /\ Emitir(v)
    /\ Largar(a)

\* The gateway failed (requireGateway): RECUSADO, whatever the status is by now.
RecusarVenda(a) ==
    /\ atendimento[a].passo = "cobrar"
    /\ venda' = [venda EXCEPT ![atendimento[a].v] = "RECUSADO"]
    /\ Largar(a)
    /\ UNCHANGED cartela

\* confirmarPagamento reads nothing of the edition: the payment may be late.
LerParaConfirmar(a, v) ==
    /\ atendimento[a].passo = "ocioso" /\ venda[v] = "PENDENTE"
    /\ Atender(a, "aprovar", v, FALSE)
    /\ UNCHANGED <<cartela, venda>>

\* Its transaction does not look at the status again.
ConfirmarPagamento(a) ==
    LET v == atendimento[a].v IN
    /\ atendimento[a].passo = "aprovar"
    /\ venda' = [venda EXCEPT ![v] = "APROVADO"] /\ Emitir(v)
    /\ Largar(a)

\* cancelar reads the sale, and then (include) its cards.
LerParaCancelar(a, v) ==
    /\ atendimento[a].passo = "ocioso" /\ venda[v] \notin {"nenhuma", "CANCELADO"}
    /\ Atender(a, "verCartelas", v, FALSE)
    /\ UNCHANGED <<cartela, venda>>
VerCartelas(a) ==
    /\ atendimento[a].passo = "verCartelas"
    /\ Atender(a, "cancelar", atendimento[a].v, ComLinha(atendimento[a].v) # {})
    /\ UNCHANGED <<cartela, venda>>

\* A request that saw cards deletes those there are now, judged or not; one that saw none
\* deletes none.
CancelarVenda(a) ==
    LET v == atendimento[a].v IN
    /\ atendimento[a].passo = "cancelar"
    /\ venda' = [venda EXCEPT ![v] = "CANCELADO"]
    /\ cartela' = [c \in Cartelas |-> IF atendimento[a].viu /\ c \in ComLinha(v)
                                     THEN "apagada" ELSE cartela[c]]
    /\ Largar(a)

\* The charge is made, or the request fails; what it wrote stays.
LargarVenda(a) ==
    /\ atendimento[a].passo # "ocioso"
    /\ Largar(a)
    /\ UNCHANGED <<cartela, venda>>

Confirmando(v) == {a \in Atendimentos : atendimento[a].passo = "aprovar" /\ atendimento[a].v = v}
Cancelando(v) ==
    {a \in Atendimentos : atendimento[a].passo \in {"verCartelas", "cancelar"} /\ atendimento[a].v = v}

PassoDaVenda ==
    /\ \E a \in Atendimentos :
          \/ \E v \in Vendas : PedirVenda(a, v) \/ LerParaConfirmar(a, v) \/ LerParaCancelar(a, v)
          \/ InserirVenda(a) \/ InserirManual(a) \/ RecusarVenda(a) \/ ConfirmarPagamento(a)
          \/ VerCartelas(a) \/ CancelarVenda(a) \/ LargarVenda(a)
    /\ disputadas' = disputadas \cup {v \in Vendas : Confirmando(v)' # {} /\ Cancelando(v)' # {}}
    /\ UNCHANGED <<edicao, pedido, ciclo>>
-----------------------------------------------------------------------------
(* EdicoesSenaService. *)

\* The dates are compared with each other, never with the present.
Criar(e) ==
    /\ status[e] = "ausente"
    /\ status' = [status EXCEPT ![e] = "RASCUNHO"]
    /\ \E t \in Tempos : tempo' = [tempo EXCEPT ![e] = t]
    /\ UNCHANGED <<resultado, apurado, cartela, pedido, ciclo>>

IniciarEdicao(p, e) ==
    /\ pedido[p].passo = "ocioso"
    /\ status[e] \in {"RASCUNHO", "ATIVA", "ENCERRADA"}
    /\ Novo(p, e, "editar")
    /\ UNCHANGED <<edicao, cartela, ciclo>>

\* New dates, whatever the status is by now.
Editar(p) ==
    /\ pedido[p].passo = "editar"
    /\ Existe(pedido[p].e)
    /\ \E t \in Tempos : tempo' = [tempo EXCEPT ![pedido[p].e] = t]
    /\ Encerrar(p)
    /\ UNCHANGED <<status, resultado, apurado, cartela, ciclo>>

\* ativar returns at once for an ATIVA edition and refuses a judged one.
IniciarAtivacao(p, e) ==
    /\ pedido[p].passo = "ocioso"
    /\ status[e] \in {"RASCUNHO", "ENCERRADA"}
    /\ Novo(p, e, "conflito")
    /\ UNCHANGED <<edicao, cartela, ciclo>>

\* Mutant: the conflict is not looked for.
SemProcurarConflito(e) == FALSE

OutraAtiva(e) == \E o \in Edicoes \ {e} : status[o] = "ATIVA"

ProcurarConflito(p) ==
    /\ pedido[p].passo = "conflito"
    /\ IF OutraAtiva(pedido[p].e)
       THEN Encerrar(p)
       ELSE pedido' = [pedido EXCEPT ![p].passo = "ativar"]
    /\ UNCHANGED <<edicao, cartela, ciclo>>

IniciarEncerramento(p, e) ==
    /\ pedido[p].passo = "ocioso"
    /\ status[e] = "ATIVA"
    /\ Novo(p, e, "encerrar")
    /\ UNCHANGED <<edicao, cartela, ciclo>>

\* Both writes are by id, without a condition; P2025 when the row is gone.
MudarStatus(p, passo, novo) ==
    /\ pedido[p].passo = passo
    /\ Existe(pedido[p].e)
    /\ status' = [status EXCEPT ![pedido[p].e] = novo]
    /\ Encerrar(p)
    /\ UNCHANGED <<tempo, resultado, apurado, cartela, ciclo>>

Ativar(p) == MudarStatus(p, "ativar", "ATIVA")

EncerrarEdicao(p) == MudarStatus(p, "encerrar", "ENCERRADA")

IniciarRemocao(p, e) ==
    /\ pedido[p].passo = "ocioso"
    /\ status[e] = "RASCUNHO"
    /\ Novo(p, e, "remover")
    /\ UNCHANGED <<edicao, cartela, ciclo>>

\* The foreign keys of VendaSena, CartelaSena and ResultadoSena restrict.
SemFilhos(e) ==
    /\ resultado[e] = Nulo
    /\ \A v \in Vendas : EdicaoDaVenda[v] = e => venda[v] = "nenhuma"
    /\ \A c \in Cartelas : EdicaoDe[c] = e => ~TemLinha(c)

Remover(p) ==
    /\ pedido[p].passo = "remover"
    /\ Existe(pedido[p].e) /\ SemFilhos(pedido[p].e)
    /\ status' = [status EXCEPT ![pedido[p].e] = "removida"]
    /\ Encerrar(p)
    /\ UNCHANGED <<tempo, resultado, apurado, cartela, ciclo>>
-----------------------------------------------------------------------------
(* SorteioSenaService and ApuracaoSenaService. *)

\* Between this read and the upsert, an image goes to S3.
IniciarResultado(p, e, r) ==
    /\ pedido[p].passo = "ocioso"
    /\ status[e] \in {"ENCERRADA", "APURANDO"}
    /\ pedido' = [pedido EXCEPT ![p] = [passo |-> "gravar", e |-> e, lido |-> status[e],
                                        r |-> r, fila |-> {}]]
    /\ UNCHANGED <<edicao, cartela, ciclo>>

\* Mutant: the status advances in the place of the upsert, which comes later.
AvancarAntes(p) ==
    LET e == pedido[p].e IN
    /\ pedido[p].passo = "gravar"
    /\ status' = IF pedido[p].lido = "ENCERRADA" THEN [status EXCEPT ![e] = "APURANDO"] ELSE status
    /\ pedido' = [pedido EXCEPT ![p].passo = "avancar"]
    /\ UNCHANGED <<tempo, resultado, apurado, cartela, ciclo>>

\* The upsert of ResultadoSena: new or corrected, it is not judged.
GravarResultado(p) ==
    LET e == pedido[p].e IN
    /\ pedido[p].passo = "gravar"
    /\ Existe(e)
    /\ resultado' = [resultado EXCEPT ![e] = pedido[p].r]
    /\ apurado' = [apurado EXCEPT ![e] = FALSE]
    /\ IF pedido[p].lido = "ENCERRADA"
       THEN pedido' = [pedido EXCEPT ![p].passo = "avancar"]
       ELSE Encerrar(p)
    /\ UNCHANGED <<status, tempo, cartela, ciclo>>

Avancar(p) == MudarStatus(p, "avancar", "APURANDO")

IniciarApuracao(p, e) ==
    /\ pedido[p].passo = "ocioso"
    /\ status[e] = "APURANDO" /\ resultado[e] # Nulo /\ ~apurado[e]
    /\ pedido' = [pedido EXCEPT ![p] = [passo |-> "listar", e |-> e, lido |-> status[e],
                                        r |-> resultado[e], fila |-> {}]]
    /\ UNCHANGED <<edicao, cartela, ciclo>>

\* A judged card is not CONFIRMADA any more and is not listed again.
ListarCartelas(p) ==
    /\ pedido[p].passo = "listar"
    /\ pedido' = [pedido EXCEPT ![p].passo = "julgar",
                                ![p].fila = {c \in Cartelas : EdicaoDe[c] = pedido[p].e
                                                              /\ cartela[c] = "CONFIRMADA"}]
    /\ UNCHANGED <<edicao, cartela, ciclo>>

\* Mutant: it is enough that the card was sold, not that it exists.
JulgarQualquer(p, c) ==
    /\ pedido[p].passo = "julgar" /\ c \in pedido[p].fila
    /\ cartela' = [cartela EXCEPT ![c] = Faixa(c, pedido[p].r)]
    /\ pedido' = [pedido EXCEPT ![p].fila = @ \ {c}]
    /\ UNCHANGED <<edicao, ciclo>>

\* One update per card, outside any transaction, by the result read at first.
Julgar(p, c) ==
    /\ pedido[p].passo = "julgar" /\ c \in pedido[p].fila
    /\ TemLinha(c)
    /\ cartela' = [cartela EXCEPT ![c] = Faixa(c, pedido[p].r)]
    /\ pedido' = [pedido EXCEPT ![p].fila = @ \ {c}]
    /\ UNCHANGED <<edicao, ciclo>>

\* The last transaction: apurado and FINALIZADA together, without a condition.
Finalizar(p) ==
    LET e == pedido[p].e IN
    /\ pedido[p].passo = "julgar" /\ pedido[p].fila = {}
    /\ apurado' = [apurado EXCEPT ![e] = TRUE]
    /\ status' = [status EXCEPT ![e] = "FINALIZADA"]
    /\ Encerrar(p)
    /\ UNCHANGED <<tempo, resultado, cartela, ciclo>>

\* An error or the end of the process leaves what was written as it is; P2025
\* and P2003 (the row is gone, the row is referenced) end the same way.
Falhar(p) ==
    /\ pedido[p].passo # "ocioso"
    /\ Encerrar(p)
    /\ UNCHANGED <<edicao, cartela, ciclo>>
-----------------------------------------------------------------------------
(* EdicoesSenaCicloVidaService, every 30 s. *)

\* Mutant: what the job looks at is the date of the draw.
ExpiradasNoSorteio == {e \in Edicoes : status[e] = "ATIVA" /\ tempo[e] = "sorteada"}

Expiradas == {e \in Edicoes : status[e] = "ATIVA" /\ tempo[e] # "aberta"}

ListarExpiradas(j) ==
    /\ ciclo[j].passo = "ocioso"
    /\ IrPara(j, "encerrar", Expiradas)
    /\ UNCHANGED <<edicao, cartela, pedido>>

\* updateMany keeps the condition: only what is still ATIVA is closed.
EncerrarExpiradas(j) ==
    /\ ciclo[j].passo = "encerrar"
    /\ status' = [e \in Edicoes |-> IF e \in ciclo[j].edicoes /\ status[e] = "ATIVA"
                                    THEN "ENCERRADA" ELSE status[e]]
    /\ IrPara(j, "procurar", {})
    /\ UNCHANGED <<tempo, resultado, apurado, cartela, pedido>>

ProcurarAtiva(j) ==
    /\ ciclo[j].passo = "procurar"
    /\ IF \E e \in Edicoes : status[e] = "ATIVA"
       THEN IrPara(j, "ocioso", {})
       ELSE IrPara(j, "escolher", {})
    /\ UNCHANGED <<edicao, cartela, pedido>>

\* A draft whose draw is to come may be opened, even past its closing.
Rascunhos == {e \in Edicoes : status[e] = "RASCUNHO" /\ tempo[e] # "sorteada"}

\* The draft with the nearest draw; the model does not order the dates.
EscolherRascunho(j) ==
    /\ ciclo[j].passo = "escolher"
    /\ \/ Rascunhos = {} /\ IrPara(j, "ocioso", {})
       \/ \E e \in Rascunhos : IrPara(j, "ativar", {e})
    /\ UNCHANGED <<edicao, cartela, pedido>>

\* By id, without a condition, as in ativar; nothing if the row is gone (P2025).
AtivarRascunho(j) ==
    /\ ciclo[j].passo = "ativar"
    /\ status' = [e \in Edicoes |-> IF e \in ciclo[j].edicoes /\ Existe(e)
                                    THEN "ATIVA" ELSE status[e]]
    /\ IrPara(j, "ocioso", {})
    /\ UNCHANGED <<tempo, resultado, apurado, cartela, pedido>>

\* The run fails; the next one comes with the next repetition.
FalharCiclo(j) ==
    /\ ciclo[j].passo # "ocioso"
    /\ IrPara(j, "ocioso", {})
    /\ UNCHANGED <<edicao, cartela, pedido>>
-----------------------------------------------------------------------------
PassoDaEdicao ==
    /\ UNCHANGED vendas
    /\ \/ \E e \in Edicoes : Passar(e) \/ Criar(e)
       \/ \E p \in Pedidos :
           \/ \E e \in Edicoes : \/ IniciarEdicao(p, e)
                                 \/ IniciarAtivacao(p, e)
                                 \/ IniciarEncerramento(p, e)
                                 \/ IniciarRemocao(p, e)
                                 \/ \E r \in Resultados : IniciarResultado(p, e, r)
                                 \/ IniciarApuracao(p, e)
           \/ Editar(p)
           \/ ProcurarConflito(p)
           \/ Ativar(p)
           \/ EncerrarEdicao(p)
           \/ Remover(p)
           \/ GravarResultado(p)
           \/ Avancar(p)
           \/ ListarCartelas(p)
           \/ \E c \in Cartelas : Julgar(p, c)
           \/ Finalizar(p)
           \/ Falhar(p)
       \/ \E j \in Jobs :
           \/ ListarExpiradas(j)
           \/ EncerrarExpiradas(j)
           \/ ProcurarAtiva(j)
           \/ EscolherRascunho(j)
           \/ AtivarRascunho(j)
           \/ FalharCiclo(j)

Next == PassoDaEdicao \/ PassoDaVenda

Spec == Init /\ [][Next]_vars

\* BullMQ repeats the job for ever, and a query that is asked again and again is
\* not for ever the one at which the run fails.
CicloJusto(j) ==
    /\ SF_semVendas(ListarExpiradas(j))
    /\ SF_semVendas(EncerrarExpiradas(j))
    /\ SF_semVendas(ProcurarAtiva(j))
    /\ SF_semVendas(EscolherRascunho(j))
    /\ SF_semVendas(AtivarRascunho(j))

Justica == \A j \in Jobs : CicloJusto(j)
-----------------------------------------------------------------------------
Pedido == [passo: Passos, e: Edicoes \cup {Nulo}, lido: StatusEdicaoSena \cup {"ausente"},
           r: Resultados \cup {Nulo}, fila: SUBSET Cartelas]

Atendimento == [passo: {"ocioso", "criar", "cobrar", "aprovar", "verCartelas", "cancelar"},
                v: Vendas \cup {Nulo}, viu: BOOLEAN]

PassosDoCiclo == {"ocioso", "encerrar", "procurar", "escolher", "ativar"}

\* Every variable has its type, and only a request at rest serves nothing.
TiposDaEdicao ==
    /\ status \in [Edicoes -> StatusEdicaoSena \cup {"ausente", "removida"}]
    /\ tempo \in [Edicoes -> Tempos]
    /\ resultado \in [Edicoes -> Resultados \cup {Nulo}]
    /\ apurado \in [Edicoes -> BOOLEAN]
    /\ cartela \in [Cartelas -> Cartoes]
    /\ pedido \in [Pedidos -> Pedido]
    /\ ciclo \in [Jobs -> [passo: PassosDoCiclo, edicoes: SUBSET Edicoes]]
    /\ \A p \in Pedidos : pedido[p].passo = "ocioso" <=> pedido[p].e = Nulo

TiposDaVenda ==
    /\ venda \in [Vendas -> {"nenhuma", "PENDENTE", "RECUSADO", "APROVADO", "CANCELADO"}]
    /\ atendimento \in [Atendimentos -> Atendimento]
    /\ \A a \in Atendimentos : atendimento[a].passo = "ocioso" <=> atendimento[a].v = Nulo
    /\ disputadas \subseteq Vendas

TypeOK == TiposDaEdicao /\ TiposDaVenda

\* However the requests and the job overlap, an edition is being judged or is
\* finished, and a card has a band, only when the result is there.
ResultadoAntesDeApurar ==
    /\ \A e \in Edicoes : status[e] \in {"APURANDO", "FINALIZADA"} => resultado[e] # Nulo
    /\ \A c \in Cartelas : cartela[c] \in Faixas => resultado[EdicaoDe[c]] # Nulo

\* A removal that read RASCUNHO long ago deletes an edition that was opened
\* since, but never one that was sold or has a result: the foreign keys stop it,
\* and they stop a sale that read the edition before.
RemovidaSemRastro ==
    \A e \in Edicoes : status[e] = "removida" =>
        /\ resultado[e] = Nulo
        /\ \A v \in Vendas : EdicaoDaVenda[v] = e => venda[v] = "nenhuma"
        /\ \A c \in Cartelas : EdicaoDe[c] = e => cartela[c] = "nenhuma"

\* A cancelled sale has no card, however the judging, the charges, other confirmations and
\* other cancellations overlap, unless it was being confirmed while it was cancelled: nothing
\* looks again at what each of the two has read, and the cards may stay.
CanceladaSemCartela ==
    \A v \in Vendas \ disputadas : venda[v] = "CANCELADO" => ComLinha(v) = {}

\* Nor is it approved again; the charge that fails late may write RECUSADO over it.
CanceladaNaoVolta ==
    [][\A v \in Vendas \ disputadas' : venda[v] = "CANCELADO" => venda'[v] # "APROVADO"]_vars

\* The edges of the life of an edition: what the ADMIN and the job may do.
Ciclo == {<<"ausente", "RASCUNHO">>, <<"RASCUNHO", "ATIVA">>, <<"RASCUNHO", "removida">>,
          <<"ATIVA", "ENCERRADA">>, <<"ENCERRADA", "ATIVA">>, <<"ENCERRADA", "APURANDO">>,
          <<"APURANDO", "FINALIZADA">>}

\* The status of an edition walks on these edges only...
CicloPermitido(e) == status'[e] # status[e] => <<status[e], status'[e]>> \in Ciclo

\* ...and "só pode haver uma edição ATIVA no sistema por vez"
\* (docs/CAPITAL_SENA.md:112).
UmaSoAtiva == Cardinality({e \in Edicoes : status[e] = "ATIVA"}) <= 1

\* Sales of an expired edition end: the job closes it, unless it gets new dates.
ExpiradaEncerra ==
    \A e \in Edicoes :
        status[e] = "ATIVA" /\ tempo[e] # "aberta" ~> status[e] # "ATIVA" \/ tempo[e] = "aberta"

\* While a draft waits for a draw to come, the job leaves no gap between two
\* editions.
RascunhoNaoEspera ==
    \A e \in Edicoes :
        status[e] = "RASCUNHO" /\ tempo[e] # "sorteada"
            ~> \/ \E o \in Edicoes : status[o] = "ATIVA"
               \/ status[e] # "RASCUNHO" \/ tempo[e] = "sorteada"

\* "Resultado + apuração levam a edição a FINALIZADA com faixas corretas"
\* (docs/SENA_BACKEND_IMPLEMENTACAO.md:836): the band of a judged card is that of the result
\* in force, its corrections included.  A card paid after the listing has none.
FaixasCorretas ==
    \A c \in Cartelas : LET e == EdicaoDe[c] IN
        status[e] = "FINALIZADA" /\ cartela[c] \in Faixas => cartela[c] = Faixa(c, resultado[e])
=============================================================================
