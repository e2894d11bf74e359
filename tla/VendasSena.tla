----------------------------- MODULE VendasSena -----------------------------
(***************************************************************************)
(* The life of a Capital Sena sale (VendasSenaService).  It differs from a *)
(* sale of Prêmios where it matters: the buyer brings the numbers, any two *)
(* buyers may play the same ones, so CartelaSena has no unique index and   *)
(* nothing runs out; the two commissions are independent of each other;    *)
(* and no ADMIN route changes the status by hand.  Confirmations come from *)
(* the webhooks and from the POS polling, which share no lock.             *)
(*                                                                         *)
(* As in Vendas, what a request read before its transaction travels with   *)
(* it and a transaction becomes visible in its commit.                     *)
(***************************************************************************)
EXTENDS Integers, FiniteSets

CONSTANTS
    Vendas,           \* Sena sales; Nulo is not one of them
    Pedidos,          \* requests in flight: webhooks, pollings, POS, ADMIN
    Nulo,             \* no sale
    Quantidade,       \* Quantidade[v]: the cards sale v brings, one at least
    ComVendedor,      \* sales with a seller whose comissaoPercent > 0
    ComDistribuidor   \* sales with a distributor whose comissaoPercent > 0

VARIABLES
    status,         \* status[v]: "nenhuma", then StatusVendaSena
    cartelas,       \* cartelas[v]: how many CartelaSena rows v has
    comissao,       \* sales with a ComissaoSena row
    comissaoDist,   \* sales with a ComissaoDistribuidorSena row
    saldoVendedor,  \* Vendedor.saldo, in commissions
    saldoDist,      \* Distribuidor.saldo, in commissions
    pedido          \* pedido[p]: what request p is doing

dinheiro == <<comissao, comissaoDist, saldoVendedor, saldoDist>>
vars == <<status, cartelas, dinheiro, pedido>>

StatusVendaSena == {"PENDENTE", "APROVADO", "RECUSADO", "CANCELADO"}

Passos == {"ocioso", "cobrar", "recusar", "aprovar", "lerCartelas", "lerComissao", "cancelar"}

Ocioso == [passo |-> "ocioso", v |-> Nulo, cartelas |-> FALSE, comissao |-> FALSE]

Novo(p, v, passo) == pedido' = [pedido EXCEPT ![p] = [Ocioso EXCEPT !.passo = passo, !.v = v]]

Encerrar(p) == pedido' = [pedido EXCEPT ![p] = Ocioso]

Init ==
    /\ status = [v \in Vendas |-> "nenhuma"]
    /\ cartelas = [v \in Vendas |-> 0]
    /\ comissao = {} /\ comissaoDist = {}
    /\ saldoVendedor = 0 /\ saldoDist = 0
    /\ pedido = [p \in Pedidos |-> Ocioso]

NinguemCria(v) == status[v] = "nenhuma" /\ \A q \in Pedidos : pedido[q].v # v

\* PIX or CARTAO: committed PENDENTE with the numbers in gatewayPayload and no
\* card; then the gateway is called.
CriarPendente(p, v) ==
    /\ pedido[p].passo = "ocioso"
    /\ NinguemCria(v)
    /\ status' = [status EXCEPT ![v] = "PENDENTE"]
    /\ Novo(p, v, "cobrar")
    /\ UNCHANGED <<cartelas, dinheiro>>

\* The charge and its id are saved, or an error leaves the sale PENDENTE.
Cobrar(p) ==
    /\ pedido[p].passo = "cobrar"
    /\ Encerrar(p)
    /\ UNCHANGED <<status, cartelas, dinheiro>>

\* requireGateway: an error, even after the charge exists, ends in RECUSADO...
FalharCobranca(p) ==
    /\ pedido[p].passo = "cobrar"
    /\ pedido' = [pedido EXCEPT ![p].passo = "recusar"]
    /\ UNCHANGED <<status, cartelas, dinheiro>>

\* ...which is written without a condition.
Recusar(p) ==
    /\ pedido[p].passo = "recusar"
    /\ status' = [status EXCEPT ![pedido[p].v] = "RECUSADO"]
    /\ Encerrar(p)
    /\ UNCHANGED <<cartelas, dinheiro>>

\* MANUAL: the sale exists when its transaction commits, already approved.
VenderManual(p, v) ==
    /\ pedido[p].passo = "ocioso"
    /\ NinguemCria(v)
    /\ Novo(p, v, "aprovar")
    /\ UNCHANGED <<status, cartelas, dinheiro>>

\* confirmarPagamento reads the sale outside the transaction; a status other
\* than PENDENTE is a 409 that changes nothing.
Confirmar(p, v) ==
    /\ pedido[p].passo = "ocioso"
    /\ status[v] = "PENDENTE"
    /\ Novo(p, v, "aprovar")
    /\ UNCHANGED <<status, cartelas, dinheiro>>

\* Mutant: ComissaoDistribuidorSena has no unique index on vendaSenaId.
SemIndiceDist(v) == v \in ComVendedor => v \notin comissao

\* The unique index of each commission accepts the row.
Inserivel(v) ==
    /\ v \in ComVendedor => v \notin comissao
    /\ v \in ComDistribuidor => v \notin comissaoDist

\* gerarComissaoSena: one row and one credit for each percentage above zero.
Comissionar(v) ==
    /\ comissao' = comissao \cup ({v} \cap ComVendedor)
    /\ saldoVendedor' = saldoVendedor + Cardinality({v} \cap ComVendedor)
    /\ comissaoDist' = comissaoDist \cup ({v} \cap ComDistribuidor)
    /\ saldoDist' = saldoDist + Cardinality({v} \cap ComDistribuidor)

\* The commit of an approval: status without a condition, cards, commissions.
Aprovar(p) ==
    LET v == pedido[p].v IN
    /\ pedido[p].passo = "aprovar"
    /\ Inserivel(v)
    /\ status' = [status EXCEPT ![v] = "APROVADO"]
    /\ cartelas' = [cartelas EXCEPT ![v] = @ + Quantidade[v]]
    /\ Comissionar(v)
    /\ Encerrar(p)

\* P2002: the sale has its commission already; all is undone.
DesfazerAprovacao(p) ==
    /\ pedido[p].passo = "aprovar"
    /\ ~Inserivel(pedido[p].v)
    /\ Encerrar(p)
    /\ UNCHANGED <<status, cartelas, dinheiro>>

\* cancelar reads the sale, its cards and its commission, in three queries.
IniciarCancelamento(p, v) ==
    /\ pedido[p].passo = "ocioso"
    /\ status[v] \in StatusVendaSena \ {"CANCELADO"}
    /\ Novo(p, v, "lerCartelas")
    /\ UNCHANGED <<status, cartelas, dinheiro>>

LerCartelas(p) ==
    /\ pedido[p].passo = "lerCartelas"
    /\ pedido' = [pedido EXCEPT ![p].passo = "lerComissao",
                                ![p].cartelas = cartelas[pedido[p].v] > 0]
    /\ UNCHANGED <<status, cartelas, dinheiro>>

LerComissao(p) ==
    /\ pedido[p].passo = "lerComissao"
    /\ pedido' = [pedido EXCEPT ![p].passo = "cancelar",
                                ![p].comissao = pedido[p].v \in comissao]
    /\ UNCHANGED <<status, cartelas, dinheiro>>

ApagarCartelas(p) ==
    cartelas' = IF pedido[p].cartelas THEN [cartelas EXCEPT ![pedido[p].v] = 0] ELSE cartelas

\* comissaoSena.delete finds the row that was read.
ComissaoAindaExiste(p) == pedido[p].comissao => pedido[p].v \in comissao

\* The commit: cards, the seller's commission, CANCELADO.  The distributor's
\* commission is not touched.
Cancelar(p) ==
    /\ pedido[p].passo = "cancelar"
    /\ ComissaoAindaExiste(p)
    /\ ApagarCartelas(p)
    /\ comissao' = IF pedido[p].comissao THEN comissao \ {pedido[p].v} ELSE comissao
    /\ saldoVendedor' = IF pedido[p].comissao THEN saldoVendedor - 1 ELSE saldoVendedor
    /\ status' = [status EXCEPT ![pedido[p].v] = "CANCELADO"]
    /\ Encerrar(p)
    /\ UNCHANGED <<comissaoDist, saldoDist>>

\* P2025: another cancellation removed the commission first.
DesfazerCancelamento(p) ==
    /\ pedido[p].passo = "cancelar"
    /\ ~ComissaoAindaExiste(p)
    /\ Encerrar(p)
    /\ UNCHANGED <<status, cartelas, dinheiro>>

\* The process stops or the database refuses: nothing more is committed.
Falhar(p) ==
    /\ pedido[p].passo # "ocioso"
    /\ Encerrar(p)
    /\ UNCHANGED <<status, cartelas, dinheiro>>
-----------------------------------------------------------------------------
Next ==
    \E p \in Pedidos :
        \/ \E v \in Vendas : \/ CriarPendente(p, v)
                             \/ VenderManual(p, v)
                             \/ Confirmar(p, v)
                             \/ IniciarCancelamento(p, v)
        \/ Cobrar(p)
        \/ FalharCobranca(p)
        \/ Recusar(p)
        \/ Aprovar(p)
        \/ DesfazerAprovacao(p)
        \/ LerCartelas(p)
        \/ LerComissao(p)
        \/ Cancelar(p)
        \/ DesfazerCancelamento(p)
        \/ Falhar(p)

Spec == Init /\ [][Next]_vars
-----------------------------------------------------------------------------
Pedido == [passo: Passos, v: Vendas \cup {Nulo}, cartelas: BOOLEAN, comissao: BOOLEAN]

\* Every variable has its type; only a request at rest serves no sale.
TypeOK ==
    /\ status \in [Vendas -> StatusVendaSena \cup {"nenhuma"}]
    /\ cartelas \in [Vendas -> Nat]
    /\ comissao \subseteq ComVendedor /\ comissaoDist \subseteq ComDistribuidor
    /\ saldoVendedor \in Int /\ saldoDist \in Int
    /\ pedido \in [Pedidos -> Pedido]
    /\ \A p \in Pedidos : pedido[p].passo = "ocioso" <=> pedido[p].v = Nulo

\* Each wallet holds exactly the commissions that exist: confirmations and
\* cancellations of one sale that overlap neither pay nor take back twice.
SaldosDaSena ==
    /\ saldoVendedor = Cardinality(comissao)
    /\ saldoDist = Cardinality(comissaoDist)

\* "Cartelas de venda PIX/CARTÃO só nascem quando o pagamento é confirmado": a
\* sale that waits has no card and pays nobody; an approved one has its cards,
\* and a part of them never exists.
CartelasDaSena ==
    \A v \in Vendas :
        /\ status[v] \in {"nenhuma", "PENDENTE"} =>
              cartelas[v] = 0 /\ v \notin comissao \cup comissaoDist
        /\ status[v] = "APROVADO" => cartelas[v] >= Quantidade[v]
        /\ cartelas[v] % Quantidade[v] = 0

\* A sale that pays its distributor materialises once at most, whatever
\* overlaps: the unique index of ComissaoDistribuidorSena, whose row survives
\* the cancellation, undoes every other confirmation.
DistribuidorDaSenaUmaVez ==
    \A v \in ComDistribuidor : cartelas[v] \in {0, Quantidade[v]}

\* With one request at a time, failing where it may, the status of a sale tells
\* its cards and its seller's commission exactly.
VendaCoerente ==
    \A v \in Vendas :
        /\ cartelas[v] = IF status[v] = "APROVADO" THEN Quantidade[v] ELSE 0
        /\ v \in comissao <=> status[v] = "APROVADO" /\ v \in ComVendedor
=============================================================================
