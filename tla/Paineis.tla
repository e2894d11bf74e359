------------------------------ MODULE Paineis ------------------------------
(***************************************************************************)
(* What ADMIN, networks and sellers read about sales: the dashboard, the   *)
(* performance listings and the exported files.  The rows here are those   *)
(* of one product; the pages read either product's tables, the performance *)
(* and the file of commissions those of Premios alone.  An answer is the   *)
(* set of sales it adds up, so that two answers agree when they are the    *)
(* same set.  Each query is one statement, seen here against every state   *)
(* the program reaches.                                                    *)
(***************************************************************************)
EXTENDS Integers, FiniteSets

CONSTANTS
    Vendas,       \* sales of the product
    Vendedores,   \* sellers
    Redes,        \* distributors
    EdicoesLidas, \* editions that the answers are about
    Clientes,
    EdicaoDe,     \* EdicaoDe[v]: the edition of sale v
    ClienteDe,    \* ClienteDe[v]: who buys in sale v
    MaxMes,       \* the months the model runs through
    Vazio         \* the NULL of a column, and of a filter that is not given

Situacoes == {"nenhuma", "PENDENTE", "APROVADO", "CANCELADO"}

ASSUME PaineisAssumption ==
    /\ EdicaoDe \in [Vendas -> EdicoesLidas] /\ ClienteDe \in [Vendas -> Clientes]
    /\ MaxMes \in Nat \ {0}
    /\ Vazio \notin Vendedores \cup Redes \cup EdicoesLidas \cup Situacoes

VARIABLES
    produto,       \* "CDP" or "SENA": whose tables these are (resolveModo picks them)
    venda,         \* venda[v]: status, seller, network and month of createdAt
    comissao,      \* comissao[v]: the month its row was created in, 0 without a row
    comissaoDist,  \* the same for the distributor's
    redeDe,        \* redeDe[s]: Vendedor.distribuidorId
    excluidos,     \* sellers with deletedAt
    vinculo,       \* vinculo[c]: Cliente.vendedorId
    mes,           \* the clock
    transferidos   \* history: sellers that changed network

paineisVars == <<produto, venda, comissao, comissaoDist, redeDe, excluidos, vinculo, mes, transferidos>>

Meses == 1 .. MaxMes

SemVenda == [status |-> "nenhuma", vendedor |-> Vazio, rede |-> Vazio, mes |-> 0]

PaineisInit ==
    /\ produto \in {"CDP", "SENA"}
    /\ venda = [v \in Vendas |-> SemVenda]
    /\ comissao = [v \in Vendas |-> 0] /\ comissaoDist = [v \in Vendas |-> 0]
    /\ redeDe \in [Vendedores -> Redes]
    /\ excluidos = {} /\ vinculo = [c \in Clientes |-> Vazio]
    /\ mes = 1 /\ transferidos = {}
-----------------------------------------------------------------------------
(* The queries.  Edition and month are Vazio and 0 when not filtered. *)

Aprovadas == {v \in Vendas : venda[v].status = "APROVADO"}

De(s) == {v \in Vendas : venda[v].vendedor = s}
DaRede(d) == {v \in Vendas : venda[v].rede = d}
Equipe(d) == {s \in Vendedores : redeDe[s] = d}

\* buildTimelineWhere: approved, of the editions asked for, created in the period.
NoFiltro(e, m) ==
    {v \in Aprovadas : e \in {Vazio, EdicaoDe[v]} /\ m \in {0, venda[v].mes}}

\* getAdminVisaoGeral: the sellers, excluded ones too, by their sales in the editions.
Ranking(e) == [s \in Vendedores |-> NoFiltro(e, 0) \cap De(s)]

\* getAdminVendasPorEdicao.
Faturamento(e) == {v \in Aprovadas : EdicaoDe[v] = e}

\* getAdminAnaliseTimeline: the period is not looked at.
AnaliseTimeline(e) == NoFiltro(e, 0)

\* getDistribuidorTimeline and getVendedorTimeline: by the columns of the sale.
TimelineDaRede(d, e, m) == NoFiltro(e, m) \cap DaRede(d)
TimelineDoVendedor(s, e, m) == NoFiltro(e, m) \cap De(s)

\* getDistribuidorVendasPorVendedor: the sellers the network has now, with all they sold.
VendasPorVendedor(d, e, m) == [s \in Equipe(d) |-> NoFiltro(e, m) \cap De(s)]

\* What reads Venda and Comissao whatever page asks, and so finds no row of the Sena.
DosPremios(vs) == IF produto = "CDP" THEN vs ELSE {}

\* The performance of distributors and of sellers; their filter has one edition.
PerformanceDaRede(d, e, m) == DosPremios(UNION {NoFiltro(e, m) \cap De(s) : s \in Equipe(d)})
PerformanceDoVendedor(s, e, m) == DosPremios(NoFiltro(e, m) \cap De(s))

\* build...ComissaoWhere: rows created in the period, whenever their sale was.
ComissoesDoVendedor(s, e, m) ==
    {v \in De(s) : comissao[v] # 0 /\ e \in {Vazio, EdicaoDe[v]} /\ m \in {0, comissao[v]}}
ComissoesDaRede(d, e, m) ==
    {v \in DaRede(d) : comissaoDist[v] # 0 /\ e \in {Vazio, EdicaoDe[v]} /\ m \in {0, comissaoDist[v]}}

\* getDistribuidorComissoes and getVendedorComissoes: sales beside commissions.  The two
\* statements share no snapshot: a commit between them gives halves of two moments.
QuadroDaRede(d, e, m) == [vendas |-> TimelineDaRede(d, e, m), comissoes |-> ComissoesDaRede(d, e, m)]
QuadroDoVendedor(s, e, m) == [vendas |-> TimelineDoVendedor(s, e, m), comissoes |-> ComissoesDoVendedor(s, e, m)]

\* buildComissaoWhere of the performance does not look at the edition.
ComissoesDaPerformance(s, m) == DosPremios(ComissoesDoVendedor(s, Vazio, m))
ComissoesDaEquipe(d, m) == UNION {ComissoesDaPerformance(s, m) : s \in Equipe(d)}

\* getEdicoesDisponiveis, of the ADMIN and of a network.
EdicoesDoAdmin == {e \in EdicoesLidas : \E v \in Aprovadas : EdicaoDe[v] = e}
EdicoesDaRede(d) == {e \in EdicoesLidas : \E v \in Aprovadas \cap DaRede(d) : EdicaoDe[v] = e}

Compradores(vs) == {ClienteDe[v] : v \in vs}

\* getDistribuidorClientesPorVendedor: buyers when there is a filter (never in the Sena),
\* the registered customers otherwise.
ClientesPorVendedor(s, e, m) ==
    IF produto = "CDP" /\ (e # Vazio \/ m # 0)
    THEN Compradores(NoFiltro(e, m) \cap De(s))
    ELSE {c \in Clientes : vinculo[c] = s}

\* getVendedorTotalClientes: registered with the seller, and buyers when there is a filter.
TotalDeClientes(s, e, m) ==
    {c \in Clientes : vinculo[c] = s
        /\ (produto = "CDP" /\ (e # Vazio \/ m # 0) => c \in Compradores(NoFiltro(e, m) \cap De(s)))}

\* exportarVendasXlsx: every status when none is asked for.
VendasXlsx(e, m, status) ==
    {v \in Vendas : /\ venda[v].status # "nenhuma" /\ status \in {Vazio, venda[v].status}
                    /\ e \in {Vazio, EdicaoDe[v]} /\ m \in {0, venda[v].mes}}

\* A sale has its tickets, or its cards, from its approval to its cancellation (Vendas).
ComTitulos == Aprovadas

\* exportarRelatorioCDP and exportarRelatorioSena: a line per title, filtered by the status of
\* the sale; the file of the Sena does not look at the period either.
LinhasCdp(e, status) ==
    {v \in ComTitulos : EdicaoDe[v] = e /\ status \in {Vazio, venda[v].status}}
LinhasSena(e, status) ==
    {v \in ComTitulos : EdicaoDe[v] = e /\ status \in {Vazio, venda[v].status}}

\* exportarComissoesPdf: every row of Comissao, of excluded sellers too.
ComissoesPdf == DosPremios({v \in Vendas : comissao[v] # 0})

\* The files of sellers and of networks leave excluded ones out, but a network counts all
\* its sellers; the file of customers names the seller, excluded or not.
VendedoresDoArquivo == Vendedores \ excluidos
EquipeNoArquivo(d) == Equipe(d)
CarteiraNoArquivo(s) == {c \in Clientes : vinculo[c] = s}
-----------------------------------------------------------------------------
(* The program that goes on while they are read. *)

\* Mutant: the network of the sale is whatever network the request names.
VenderNaRedePedida(v, s, d) ==
    /\ venda[v].status = "nenhuma"
    /\ venda' = [venda EXCEPT ![v] = [status |-> "PENDENTE", vendedor |-> s, rede |-> d, mes |-> mes]]
    /\ vinculo' = IF s = Vazio THEN vinculo ELSE [vinculo EXCEPT ![ClienteDe[v]] = s]
    /\ UNCHANGED <<produto, comissao, comissaoDist, redeDe, excluidos, mes, transferidos>>

\* A purchase credits a seller and the network the seller is in (Origem), or a network
\* alone, or nobody; the customer goes to the seller.
VenderNoPainel(v, s, d) ==
    /\ venda[v].status = "nenhuma"
    /\ s # Vazio => d = redeDe[s]
    /\ venda' = [venda EXCEPT ![v] = [status |-> "PENDENTE", vendedor |-> s, rede |-> d, mes |-> mes]]
    /\ vinculo' = IF s = Vazio THEN vinculo ELSE [vinculo EXCEPT ![ClienteDe[v]] = s]
    /\ UNCHANGED <<produto, comissao, comissaoDist, redeDe, excluidos, mes, transferidos>>

\* The approval grants both commissions, dated today.
Aprovar(v) ==
    /\ venda[v].status = "PENDENTE"
    /\ venda' = [venda EXCEPT ![v].status = "APROVADO"]
    /\ comissao' = IF venda[v].vendedor = Vazio THEN comissao ELSE [comissao EXCEPT ![v] = mes]
    /\ comissaoDist' = IF venda[v].rede = Vazio THEN comissaoDist ELSE [comissaoDist EXCEPT ![v] = mes]
    /\ UNCHANGED <<produto, redeDe, excluidos, vinculo, mes, transferidos>>

\* The cancellation deletes the seller's commission and leaves the distributor's.
CancelarNoPainel(v) ==
    /\ venda[v].status \in {"PENDENTE", "APROVADO"}
    /\ venda' = [venda EXCEPT ![v].status = "CANCELADO"]
    /\ comissao' = [comissao EXCEPT ![v] = 0]
    /\ UNCHANGED <<produto, comissaoDist, redeDe, excluidos, vinculo, mes, transferidos>>

Transferir(s, d) ==
    /\ redeDe[s] # d
    /\ redeDe' = [redeDe EXCEPT ![s] = d]
    /\ transferidos' = transferidos \cup {s}
    /\ UNCHANGED <<produto, venda, comissao, comissaoDist, excluidos, vinculo, mes>>

Excluir(s) ==
    /\ s \notin excluidos
    /\ excluidos' = excluidos \cup {s}
    /\ UNCHANGED <<produto, venda, comissao, comissaoDist, redeDe, vinculo, mes, transferidos>>

Restaurar(s) ==
    /\ s \in excluidos
    /\ excluidos' = excluidos \ {s}
    /\ UNCHANGED <<produto, venda, comissao, comissaoDist, redeDe, vinculo, mes, transferidos>>

Virar ==
    /\ mes < MaxMes
    /\ mes' = mes + 1
    /\ UNCHANGED <<produto, venda, comissao, comissaoDist, redeDe, excluidos, vinculo, transferidos>>

PaineisNext ==
    \/ \E v \in Vendas : Aprovar(v) \/ CancelarNoPainel(v)
    \/ \E v \in Vendas, s \in Vendedores \cup {Vazio}, d \in Redes \cup {Vazio} : VenderNoPainel(v, s, d)
    \/ \E s \in Vendedores : Excluir(s) \/ Restaurar(s) \/ \E d \in Redes : Transferir(s, d)
    \/ Virar

PaineisSpec == PaineisInit /\ [][PaineisNext]_paineisVars
-----------------------------------------------------------------------------
PaineisTypeOK ==
    /\ venda \in [Vendas -> [status : Situacoes,
                             vendedor : Vendedores \cup {Vazio}, rede : Redes \cup {Vazio},
                             mes : 0 .. MaxMes]]
    /\ comissao \in [Vendas -> 0 .. MaxMes] /\ comissaoDist \in [Vendas -> 0 .. MaxMes]
    /\ redeDe \in [Vendedores -> Redes] /\ vinculo \in [Clientes -> Vendedores \cup {Vazio}]
    /\ excluidos \subseteq Vendedores /\ mes \in Meses

Filtros == (EdicoesLidas \cup {Vazio}) \X (Meses \cup {0})
Uniao(f) == UNION {f[x] : x \in DOMAIN f}

\* A network that no seller entered or left sells what its sellers sell and what it sells
\* itself: the panel by seller and the timeline fit together, and in Premios the performance
\* adds up what the panel does.  A seller that moves takes the sales along in the panel and
\* leaves them in the timeline.
SomaDaRede ==
    \A d \in Redes, f \in Filtros :
        LET linha == TimelineDaRede(d, f[1], f[2])
            equipe == Uniao(VendasPorVendedor(d, f[1], f[2]))
        IN  /\ produto = "CDP" => equipe = PerformanceDaRede(d, f[1], f[2])
            /\ {v \in linha \ equipe : venda[v].vendedor \notin transferidos \cup {Vazio}} = {}
            /\ {v \in equipe \ linha : venda[v].vendedor \notin transferidos} = {}

\* The ADMIN's ranking, revenue and timeline are of the same sales, those of excluded sellers
\* included, and so are the pages of the sellers; in Premios, their performance too.
RankingFecha ==
    \A e \in EdicoesLidas :
        LET comVendedor == {v \in Faturamento(e) : venda[v].vendedor # Vazio}
        IN  /\ Uniao(Ranking(e)) = comVendedor
            /\ UNION {TimelineDoVendedor(s, e, 0) : s \in Vendedores} = comVendedor
            /\ produto = "CDP" => UNION {PerformanceDoVendedor(s, e, 0) : s \in Vendedores} = comVendedor
            /\ AnaliseTimeline(e) = Faturamento(e)

\* An edition is offered in the filter exactly when the page it filters has something to show.
ListaTemLinha ==
    \A e \in EdicoesLidas :
        /\ e \in EdicoesDoAdmin <=> AnaliseTimeline(e) # {}
        /\ \A d \in Redes : e \in EdicoesDaRede(d) <=> TimelineDaRede(d, e, 0) # {}

\* Without a period, a seller is shown commissions of exactly the sales shown beside them in
\* the panel; in Premios also in the performance and in the file, which is of all teams.  A
\* network may be shown more: the commission of what was cancelled stays (Vendas).
ComissaoTemVenda ==
    /\ \A s \in Vendedores :
        /\ \A e \in EdicoesLidas \cup {Vazio} : LET q == QuadroDoVendedor(s, e, 0) IN q.comissoes = q.vendas
        /\ produto = "CDP" => ComissoesDaPerformance(s, 0) = PerformanceDoVendedor(s, Vazio, 0)
    /\ produto = "CDP" => ComissoesPdf = UNION {ComissoesDaEquipe(d, 0) : d \in Redes}
    /\ \A d \in Redes, e \in EdicoesLidas \cup {Vazio} :
        LET q == QuadroDaRede(d, e, 0)
        IN  /\ q.vendas \subseteq q.comissoes
            /\ \A v \in q.comissoes \ q.vendas : venda[v].status = "CANCELADO"

\* A seller never counts a customer its network does not count for it, and counts as many
\* when nothing is filtered.
ClientesContidos ==
    \A s \in Vendedores, f \in Filtros :
        /\ TotalDeClientes(s, f[1], f[2]) \subseteq ClientesPorVendedor(s, f[1], f[2])
        /\ TotalDeClientes(s, Vazio, 0) = CarteiraNoArquivo(s)
        /\ CarteiraNoArquivo(s) = ClientesPorVendedor(s, Vazio, 0)

\* The files of an edition and the panel are of the same sales: the approved of the
\* spreadsheet, the titles of the draw's file with any status, and the revenue.
ArquivosFecham ==
    \A e \in EdicoesLidas :
        /\ VendasXlsx(e, 0, "APROVADO") = Faturamento(e)
        /\ (IF produto = "CDP" THEN LinhasCdp(e, Vazio) ELSE LinhasSena(e, Vazio)) = Faturamento(e)
        /\ \A m \in Meses : VendasXlsx(e, m, "APROVADO") = NoFiltro(e, m)

\* Excluding a seller, or bringing one back, takes a line from the registers and no sale from
\* any answer: "o historico de vendas dele continua somando pelos relatorios de venda".
Respostas ==
    <<[e \in EdicoesLidas |-> <<Ranking(e), Faturamento(e), AnaliseTimeline(e)>>],
      [d \in Redes |-> [f \in Filtros |->
         <<TimelineDaRede(d, f[1], f[2]), VendasPorVendedor(d, f[1], f[2]),
           PerformanceDaRede(d, f[1], f[2]), ComissoesDaRede(d, f[1], f[2])>>]],
      ComissoesPdf, [d \in Redes |-> <<EdicoesDaRede(d), EquipeNoArquivo(d)>>]>>
\* A seller that is excluded leaves every answer as it was.
ExcluidoContinuaSomando ==
    VendedoresDoArquivo' # VendedoresDoArquivo => Respostas' = Respostas

\* The answers fit together, by network, in the ADMIN's pages, filter and page, commissions
\* and sales, customers, files and panels.
PaineisConferem ==
    /\ SomaDaRede /\ RankingFecha /\ ListaTemLinha
    /\ ComissaoTemVenda /\ ClientesContidos /\ ArquivosFecham

\* They always do, and the sales of a seller that is excluded stay in every one of them.
PaineisFecham == [](PaineisTypeOK /\ PaineisConferem) /\ [][ExcluidoContinuaSomando]_paineisVars
=============================================================================
