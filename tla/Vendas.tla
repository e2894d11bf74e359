------------------------------- MODULE Vendas -------------------------------
(***************************************************************************)
(* The life of a sale of Capital de Prêmios (VendasService, with the POS,  *)
(* shop and WhatsApp callers): created PENDENTE and charged in a gateway,  *)
(* or created and approved at once (MANUAL); confirmed by a webhook, by    *)
(* the ADMIN, by the POS polling or by the reconciliation job; refused;    *)
(* cancelled.  Approval allocates tickets and credits two commissions.     *)
(*                                                                         *)
(* Requests run concurrently on READ COMMITTED transactions.  The service  *)
(* reads the sale before it opens the transaction and never again inside   *)
(* it, so every request carries what it read in its own record.  A         *)
(* transaction's writes become visible in its commit, one step; the unique *)
(* indexes of Bilhete, Comissao and ComissaoDistribuidor are what they are *)
(* at the commit, because a conflicting INSERT waits for the other         *)
(* transaction to end.                                                     *)
(***************************************************************************)
EXTENDS Integers, FiniteSets

CONSTANTS
    Vendas,           \* sales
    Numeros,          \* numbers of the edition's range: integers
    Pedidos,          \* HTTP requests that may be in flight at the same time
    Jobs,             \* workers of the POS reconciliation queue (concurrency 1)
    Nulo,             \* nobody
    Quantidade,       \* Quantidade[v]: numbers sale v buys
    Escolha,          \* Escolha[v]: the numbers the buyer picked, {} for "any"
    VendasPos,        \* sales whose origin is POS
    ComVendedor,      \* sales whose seller earns a commission above zero
    ComDistribuidor   \* sales whose distributor earns one above zero

ASSUME VendasAssumption ==
    /\ Numeros \subseteq Int /\ IsFiniteSet(Numeros)
    /\ Nulo \notin Vendas
    /\ Pedidos \cap Jobs = {}
    /\ Quantidade \in [Vendas -> Nat \ {0}]
    /\ Escolha \in [Vendas -> SUBSET Numeros]
    /\ \A v \in Vendas : Escolha[v] # {} => Cardinality(Escolha[v]) = Quantidade[v]
    /\ VendasPos \subseteq Vendas
    /\ ComVendedor \subseteq Vendas
    /\ ComDistribuidor \subseteq Vendas

VARIABLES
    status,         \* status[v]: "nenhuma" before the INSERT, then StatusVenda
    comGatewayId,   \* sales whose gatewayId is saved
    cobranca,       \* cobranca[v]: the charge at the gateway
    vencida,        \* sales older than the reconciliation's window
    bilhetes,       \* committed Bilhete rows: pairs <<number, sale>>
    comissao,       \* sales with a Comissao row
    comissaoDist,   \* sales with a ComissaoDistribuidor row
    saldoVendedor,  \* Vendedor.saldo, in commissions
    saldoDist,      \* Distribuidor.saldo, in commissions
    lote,           \* lote[j]: sales job j read in this run and not yet visited
    pedido          \* pedido[p]: what request or job p is doing

dinheiro == <<comissao, comissaoDist, saldoVendedor, saldoDist>>
banco == <<status, comGatewayId, vencida, bilhetes, dinheiro>>
vars == <<banco, cobranca, lote, pedido>>

Atores == Pedidos \cup Jobs

StatusVenda == {"PENDENTE", "APROVADO", "RECUSADO", "CANCELADO"}

Passos == {"ocioso", "cobrar", "gravarCobranca", "recusarSemCobranca",
           "confirmar", "alocar", "aprovar", "lerBilhetes", "lerComissao",
           "cancelar", "recusar"}

Ocioso == [passo |-> "ocioso", v |-> Nulo, gatewayId |-> FALSE,
           nums |-> {}, bilhetes |-> FALSE, comissao |-> FALSE]

\* Request p serves sale v from this step on.
Novo(p, v, passo) ==
    pedido' = [pedido EXCEPT ![p] = [Ocioso EXCEPT !.passo = passo, !.v = v]]

Seguir(p, passo) == pedido' = [pedido EXCEPT ![p].passo = passo]

Encerrar(p) == pedido' = [pedido EXCEPT ![p] = Ocioso]

BilhetesDe(v) == {b \in bilhetes : b[2] = v}
Livres == {n \in Numeros : \A v \in Vendas : <<n, v>> \notin bilhetes}

\* The Quantidade[v] lowest free numbers, in ascending order of MatrizRange.
Primeiros(v) ==
    {n \in Livres : Cardinality({m \in Livres : m <= n}) <= Quantidade[v]}

\* The numbers alocarBilhetes finds for v: the picked ones or the first free.
NumerosPara(v) == IF Escolha[v] # {} THEN Escolha[v] \cap Livres ELSE Primeiros(v)

\* The owner of each number, as the catalogue of numbers sees the tickets.
DonoDe == [n \in Numeros |-> IF n \in Livres THEN Nulo
                             ELSE CHOOSE v \in Vendas : <<n, v>> \in bilhetes]

Catalogo == INSTANCE CatalogoDeNumeros WITH dono <- DonoDe
-----------------------------------------------------------------------------
Init ==
    /\ status = [v \in Vendas |-> "nenhuma"]
    /\ comGatewayId = {} /\ vencida = {} /\ bilhetes = {}
    /\ cobranca = [v \in Vendas |-> "inexistente"]
    /\ comissao = {} /\ comissaoDist = {}
    /\ saldoVendedor = 0 /\ saldoDist = 0
    /\ lote = [j \in Jobs |-> {}]
    /\ pedido = [p \in Atores |-> Ocioso]

NinguemCria(v) == status[v] = "nenhuma" /\ \A q \in Atores : pedido[q].v # v

\* create, comprar and the rest: the row is committed PENDENTE before the
\* gateway is called.
CriarPendente(p, v) ==
    /\ pedido[p].passo = "ocioso"
    /\ NinguemCria(v)
    /\ status' = [status EXCEPT ![v] = "PENDENTE"]
    /\ Novo(p, v, "cobrar")
    /\ UNCHANGED <<comGatewayId, vencida, bilhetes, dinheiro, cobranca, lote>>

\* gateway.criarCobranca: the answer arrives, or the call fails, which does not
\* mean that the charge was not created.
Cobrar(p) ==
    /\ pedido[p].passo = "cobrar"
    /\ cobranca' = [cobranca EXCEPT ![pedido[p].v] = "aberta"]
    /\ Seguir(p, "gravarCobranca")
    /\ UNCHANGED <<banco, lote>>

FalharCobranca(p) ==
    /\ pedido[p].passo = "cobrar"
    /\ cobranca' \in {cobranca, [cobranca EXCEPT ![pedido[p].v] = "aberta"]}
    /\ Seguir(p, "recusarSemCobranca")
    /\ UNCHANGED <<banco, lote>>

\* The ADMIN's create leaves the sale PENDENTE: "o admin pode reprocessar".
ManterPendente(p) ==
    /\ pedido[p].passo = "recusarSemCobranca"
    /\ Encerrar(p)
    /\ UNCHANGED <<banco, cobranca, lote>>

\* The gateway's id is saved, whatever the sale has become meanwhile.
GravarCobranca(p) ==
    /\ pedido[p].passo = "gravarCobranca"
    /\ comGatewayId' = comGatewayId \cup {pedido[p].v}
    /\ Encerrar(p)
    /\ UNCHANGED <<status, vencida, bilhetes, dinheiro, cobranca, lote>>

\* requireGateway, shop and WhatsApp: RECUSADO is written without a condition.
RecusarSemCobranca(p) ==
    /\ pedido[p].passo = "recusarSemCobranca"
    /\ status' = [status EXCEPT ![pedido[p].v] = "RECUSADO"]
    /\ Encerrar(p)
    /\ UNCHANGED <<comGatewayId, vencida, bilhetes, dinheiro, cobranca, lote>>

\* The customer pays the charge: an external event.
Pagar(v) ==
    /\ cobranca[v] = "aberta"
    /\ cobranca' = [cobranca EXCEPT ![v] = "paga"]
    /\ UNCHANGED <<banco, lote, pedido>>

\* A sale leaves the window of the reconciliation (createdAt >= now - 60 min),
\* which is looked at for sales that wait in the POS only.
Vencer(v) ==
    /\ v \in VendasPos /\ status[v] = "PENDENTE"
    /\ vencida' = vencida \cup {v}
    /\ UNCHANGED <<status, comGatewayId, bilhetes, dinheiro, cobranca, lote, pedido>>

\* A MANUAL sale exists only when its transaction commits, already APROVADO.
VenderManual(p, v) ==
    /\ pedido[p].passo = "ocioso"
    /\ NinguemCria(v)
    /\ Novo(p, v, "alocar")
    /\ UNCHANGED <<banco, cobranca, lote>>

-----------------------------------------------------------------------------
\* confirmarPagamento reads the sale: a webhook, or the ADMIN's change of
\* status, which asks nothing of the gateway.  Another status: 409, no change.
Confirmar(p, v) ==
    /\ pedido[p].passo = "ocioso"
    /\ status[v] = "PENDENTE"
    /\ Novo(p, v, "alocar")
    /\ UNCHANGED <<banco, cobranca, lote>>

\* POS polling: the operator's device asks; the row said PENDENTE and the
\* gateway says APROVADO; confirmarPagamento will read the row again.
ConsultarPagamento(p, v) ==
    /\ pedido[p].passo = "ocioso"
    /\ v \in VendasPos \cap comGatewayId
    /\ status[v] = "PENDENTE"
    /\ cobranca[v] = "paga"
    /\ Novo(p, v, "confirmar")
    /\ UNCHANGED <<banco, cobranca, lote>>

LerParaConfirmar(p) ==
    /\ pedido[p].passo = "confirmar"
    /\ status[pedido[p].v] = "PENDENTE"
    /\ Seguir(p, "alocar")
    /\ UNCHANGED <<banco, cobranca, lote>>

\* 409 "Venda já processada": the polling answers APROVADO, the job goes on.
Conflito(p) ==
    /\ pedido[p].passo = "confirmar"
    /\ status[pedido[p].v] # "PENDENTE"
    /\ Encerrar(p)
    /\ UNCHANGED <<banco, cobranca, lote>>

\* reconciliarVendasPosPendentes: one query picks the sales of this run.
MontarLote(j) ==
    /\ pedido[j].passo = "ocioso" /\ lote[j] = {}
    /\ lote' = [lote EXCEPT ![j] =
          {v \in (VendasPos \cap comGatewayId) \ vencida : status[v] = "PENDENTE"}]
    /\ lote'[j] # {}
    /\ UNCHANGED <<banco, cobranca, pedido>>

\* Mutant: the reconciliation stops at the first charge that is not paid.
VisitarSoPagas(j, v) ==
    /\ pedido[j].passo = "ocioso" /\ v \in lote[j]
    /\ cobranca[v] = "paga"
    /\ lote' = [lote EXCEPT ![j] = @ \ {v}]
    /\ Novo(j, v, "confirmar")
    /\ UNCHANGED <<banco, cobranca>>

\* sincronizarVendaPosPendente, one sale after the other: the status is the
\* one the query read; only a charge the gateway says is paid goes on.
Visitar(j, v) ==
    /\ pedido[j].passo = "ocioso" /\ v \in lote[j]
    /\ lote' = [lote EXCEPT ![j] = @ \ {v}]
    /\ IF cobranca[v] = "paga" THEN Novo(j, v, "confirmar")
                                ELSE UNCHANGED pedido
    /\ UNCHANGED <<banco, cobranca>>
-----------------------------------------------------------------------------
\* Mutant: the selection is not strict.
HaAlgum(v) == NumerosPara(v) # {}

\* alocarBilhetes refuses a sale it cannot serve whole.
HaEstoque(v) == Cardinality(NumerosPara(v)) = Quantidade[v]

\* processarAprovacaoDaVenda, inside the transaction: free numbers are read...
Alocar(p) ==
    /\ pedido[p].passo = "alocar"
    /\ HaEstoque(pedido[p].v)
    /\ pedido' = [pedido EXCEPT ![p].passo = "aprovar", ![p].nums = NumerosPara(pedido[p].v)]
    /\ UNCHANGED <<banco, cobranca, lote>>

\* ...or there are too few: 400, the transaction is undone.
FaltarEstoque(p) ==
    /\ pedido[p].passo = "alocar"
    /\ ~HaEstoque(pedido[p].v)
    /\ Encerrar(p)
    /\ UNCHANGED <<banco, cobranca, lote>>

\* Mutant: Bilhete has no unique index on (matrizId, edicaoId).
SemIndiceDeBilhete(p) ==
    /\ pedido[p].v \in ComVendedor => pedido[p].v \notin comissao
    /\ pedido[p].v \in ComDistribuidor => pedido[p].v \notin comissaoDist

\* Mutant: ComissaoDistribuidor has no unique index on vendaId.
SemIndiceDist(p) ==
    /\ pedido[p].nums \subseteq Livres
    /\ pedido[p].v \in ComVendedor => pedido[p].v \notin comissao

\* The unique indexes accept the rows p inserts.
Inserivel(p) ==
    LET v == pedido[p].v IN
    /\ pedido[p].nums \subseteq Livres
    /\ v \in ComVendedor => v \notin comissao
    /\ v \in ComDistribuidor => v \notin comissaoDist

\* The two commissions of v, each with its balance.
Comissionar(v) ==
    /\ comissao' = comissao \cup ({v} \cap ComVendedor)
    /\ saldoVendedor' = saldoVendedor + Cardinality({v} \cap ComVendedor)
    /\ comissaoDist' = comissaoDist \cup ({v} \cap ComDistribuidor)
    /\ saldoDist' = saldoDist + Cardinality({v} \cap ComDistribuidor)

\* The commit: tickets, commissions, balances, and APROVADO without looking at
\* what the status has become.
Aprovar(p) ==
    LET v == pedido[p].v IN
    /\ pedido[p].passo = "aprovar"
    /\ Inserivel(p)
    /\ bilhetes' = bilhetes \cup (pedido[p].nums \X {v})
    /\ Comissionar(v)
    /\ status' = [status EXCEPT ![v] = "APROVADO"]
    /\ Encerrar(p)
    /\ UNCHANGED <<comGatewayId, vencida, cobranca, lote>>

\* P2002: another transaction took a number, or the sale has its commission.
DesfazerAprovacao(p) ==
    /\ pedido[p].passo = "aprovar"
    /\ ~Inserivel(p)
    /\ Encerrar(p)
    /\ UNCHANGED <<banco, cobranca, lote>>
-----------------------------------------------------------------------------
\* cancelar reads the sale, its tickets and its commission outside the
\* transaction, in three queries of one findUnique.
IniciarCancelamento(p, v) ==
    /\ pedido[p].passo = "ocioso"
    /\ status[v] \in StatusVenda \ {"CANCELADO"}
    /\ pedido' = [pedido EXCEPT ![p] =
          [Ocioso EXCEPT !.passo = "lerBilhetes", !.v = v, !.gatewayId = v \in comGatewayId]]
    /\ UNCHANGED <<banco, cobranca, lote>>

LerBilhetes(p) ==
    /\ pedido[p].passo = "lerBilhetes"
    /\ pedido' = [pedido EXCEPT ![p].passo = "lerComissao",
                                ![p].bilhetes = BilhetesDe(pedido[p].v) # {}]
    /\ UNCHANGED <<banco, cobranca, lote>>

LerComissao(p) ==
    /\ pedido[p].passo = "lerComissao"
    /\ pedido' = [pedido EXCEPT ![p].passo = "cancelar",
                                ![p].comissao = pedido[p].v \in comissao]
    /\ UNCHANGED <<banco, cobranca, lote>>

\* The gateway is asked to cancel the charge the request knew of; an error is
\* only logged.
CobrancaAposCancelar(p) ==
    {cobranca} \cup (IF pedido[p].gatewayId /\ cobranca[pedido[p].v] = "aberta"
                     THEN {[cobranca EXCEPT ![pedido[p].v] = "cancelada"]} ELSE {})

\* Mutant: the commission is removed with deleteMany, which finds none in peace.
SemExigirComissao(p) == TRUE

\* comissao.delete finds the row the request read.
ComissaoAindaExiste(p) == pedido[p].comissao => pedido[p].v \in comissao

\* Mutant: the seller's commission survives the cancellation.
ManterComissao(p) == UNCHANGED dinheiro

\* Only the seller's commission is taken back; the distributor's stays.
ReverterComissao(p) ==
    /\ comissao' = IF pedido[p].comissao THEN comissao \ {pedido[p].v} ELSE comissao
    /\ saldoVendedor' = IF pedido[p].comissao THEN saldoVendedor - 1 ELSE saldoVendedor
    /\ UNCHANGED <<comissaoDist, saldoDist>>

\* The commit: the tickets go if the request had seen any, all that the sale
\* holds by now; CANCELADO is written whatever the status is.
Cancelar(p) ==
    LET v == pedido[p].v IN
    /\ pedido[p].passo = "cancelar"
    /\ ComissaoAindaExiste(p)
    /\ bilhetes' = IF pedido[p].bilhetes THEN bilhetes \ BilhetesDe(v) ELSE bilhetes
    /\ ReverterComissao(p)
    /\ cobranca' \in CobrancaAposCancelar(p)
    /\ status' = [status EXCEPT ![v] = "CANCELADO"]
    /\ Encerrar(p)
    /\ UNCHANGED <<comGatewayId, vencida, lote>>

\* P2025: another cancellation removed the commission first.
DesfazerCancelamento(p) ==
    /\ pedido[p].passo = "cancelar"
    /\ ~ComissaoAindaExiste(p)
    /\ Encerrar(p)
    /\ UNCHANGED <<banco, cobranca, lote>>

\* atualizarStatus to RECUSADO: the transition is checked on what was read...
IniciarRecusa(p, v) ==
    /\ pedido[p].passo = "ocioso"
    /\ status[v] = "PENDENTE"
    /\ Novo(p, v, "recusar")
    /\ UNCHANGED <<banco, cobranca, lote>>

\* ...and written without a condition.
Recusar(p) ==
    /\ pedido[p].passo = "recusar"
    /\ status' = [status EXCEPT ![pedido[p].v] = "RECUSADO"]
    /\ Encerrar(p)
    /\ UNCHANGED <<comGatewayId, vencida, bilhetes, dinheiro, cobranca, lote>>

\* The process stops, or the database refuses the statement: what was not
\* committed is lost, what the gateway already did stays done.
Falhar(p) ==
    /\ pedido[p].passo # "ocioso"
    /\ cobranca' \in IF pedido[p].passo = "cancelar" THEN CobrancaAposCancelar(p)
                                                     ELSE {cobranca}
    /\ \/ Encerrar(p)
       \/ pedido[p].passo = "gravarCobranca" /\ Seguir(p, "recusarSemCobranca")
    /\ UNCHANGED <<banco, lote>>
-----------------------------------------------------------------------------
\* What a request or the job does inside confirmarPagamento.
Processar(p) ==
    \/ LerParaConfirmar(p)
    \/ Conflito(p)
    \/ Alocar(p)
    \/ FaltarEstoque(p)
    \/ Aprovar(p)
    \/ DesfazerAprovacao(p)

Reconciliar(j) == MontarLote(j) \/ \E v \in Vendas : Visitar(j, v)

Iniciar(p, v) ==
    \/ CriarPendente(p, v)
    \/ VenderManual(p, v)
    \/ Confirmar(p, v)
    \/ ConsultarPagamento(p, v)
    \/ IniciarCancelamento(p, v)
    \/ IniciarRecusa(p, v)

Prosseguir(p) ==
    \/ Cobrar(p)
    \/ FalharCobranca(p)
    \/ GravarCobranca(p)
    \/ RecusarSemCobranca(p)
    \/ ManterPendente(p)
    \/ LerBilhetes(p)
    \/ LerComissao(p)
    \/ Cancelar(p)
    \/ DesfazerCancelamento(p)
    \/ Recusar(p)

Next ==
    \/ \E v \in Vendas : Pagar(v) \/ Vencer(v)
    \/ \E p \in Pedidos : Prosseguir(p) \/ Falhar(p) \/ \E v \in Vendas : Iniciar(p, v)
    \/ \E p \in Atores : Processar(p)
    \/ \E j \in Jobs : Reconciliar(j)

Spec == Init /\ [][Next]_vars

\* The queue repeats the job for ever (repeat: every intervalMs) and the job
\* visits every sale it read, so its own steps are weakly fair.  Nothing is
\* assumed of the customers, the operators or the requests.
Justica == \A j \in Jobs : WF_vars(Reconciliar(j) \/ Processar(j))
-----------------------------------------------------------------------------
Pedido ==
    [passo: Passos, v: Vendas \cup {Nulo}, gatewayId: BOOLEAN,
     nums: SUBSET Numeros, bilhetes: BOOLEAN, comissao: BOOLEAN]

\* Every variable has its type; only a commission above zero has a row, and a job
\* only ever holds sales of the POS.
TypeOK ==
    /\ status \in [Vendas -> StatusVenda \cup {"nenhuma"}]
    /\ comGatewayId \subseteq Vendas
    /\ cobranca \in [Vendas -> {"inexistente", "aberta", "paga", "cancelada"}]
    /\ vencida \subseteq Vendas
    /\ bilhetes \subseteq Numeros \X Vendas
    /\ comissao \subseteq ComVendedor /\ comissaoDist \subseteq ComDistribuidor
    /\ saldoVendedor \in Int /\ saldoDist \in Int
    /\ lote \in [Jobs -> SUBSET VendasPos]
    /\ pedido \in [Atores -> Pedido]

\* "impedir compra duplicata": no number of the edition belongs to two sales,
\* although two approvals may read the same number free.
NumeroVendidoUmaVez ==
    \A n \in Numeros, v, w \in Vendas :
        <<n, v>> \in bilhetes /\ <<n, w>> \in bilhetes => v = w

\* Each wallet holds exactly the commissions that exist: approvals and
\* cancellations of one sale that overlap neither pay nor take back twice.
SaldosConferem ==
    /\ saldoVendedor = Cardinality(comissao)
    /\ saldoDist = Cardinality(comissaoDist)

\* A sale that nobody confirmed holds no ticket and pays no commission; an
\* approved one has at least the tickets it paid for, whatever cancellation,
\* refusal or second confirmation it crossed on the way.
CartelasSeguemStatus ==
    \A v \in Vendas :
        /\ status[v] \in {"nenhuma", "PENDENTE"} =>
              BilhetesDe(v) = {} /\ v \notin comissao \cup comissaoDist
        /\ status[v] = "APROVADO" => Cardinality(BilhetesDe(v)) >= Quantidade[v]

\* A sale that pays its distributor takes tickets once at most, whatever
\* overlaps: the row of ComissaoDistribuidor, which survives a cancellation,
\* undoes every other approval.
ComDistribuidorUmaVez ==
    \A v \in ComDistribuidor : Cardinality(BilhetesDe(v)) <= Quantidade[v]

\* The tickets of a sale, whatever overlaps on it: none before it is confirmed, all of them
\* while it is approved, and once only when its distributor is paid.
BilhetesSeguemVenda == TypeOK /\ CartelasSeguemStatus /\ ComDistribuidorUmaVez

\* With one request at a time, failing where it may, a sale's status tells its
\* tickets and its seller's commission exactly.
VendaCoerente ==
    \A v \in Vendas :
        /\ Cardinality(BilhetesDe(v)) = IF status[v] = "APROVADO" THEN Quantidade[v] ELSE 0
        /\ v \in comissao <=> status[v] = "APROVADO" /\ v \in ComVendedor

\* Requests and transactions implement the catalogue of numbers.
ImplementaCatalogo == Catalogo!Spec

\* A POS sale that is charged, saved and paid is settled by the job, unless
\* it leaves the job's window first or the edition cannot serve it.
PagaEResolvida ==
    \A v \in VendasPos :
        (status[v] = "PENDENTE" /\ v \in comGatewayId /\ cobranca[v] = "paga")
          ~> (status[v] # "PENDENTE" \/ v \in vencida \/ ~HaEstoque(v))
=============================================================================
