------------------------------- MODULE Redes --------------------------------
(***************************************************************************)
(* Who belongs to which network: the registrations (Cadastros), the link   *)
(* of a customer while PATCHes are in flight (Clientes), a purchase that   *)
(* credits a seller (Origem), the link and the QR code of a seller (Links) *)
(* and its card machines (Frota).  The same processes serve them all; each *)
(* module keeps, of the rows, the ones it asks about, so a step of one     *)
(* leaves the others alone.                                                *)
(***************************************************************************)
EXTENDS Cadastros

CONSTANTS
    Redes, Ausente,                           \* networks of the customers and of the machines
    Clientes, VendedoresDaLoja, Alteracoes,   \* the constants of Clientes
    Publico, Estranho,                        \* those of Origem
    Nomes,                                    \* of Links
    Maquininhas, MaxVendas                    \* and of Frota

\* Ids of different tables are different, and an id is not one of the marks.
ASSUME RedesAssumption ==
    /\ (VendedoresDaLoja \cup Vendedores) \cap Redes = {}
    /\ {Admin, Publico, Nulo, Estranho, Ausente}
           \cap (VendedoresDaLoja \cup Vendedores \cup Redes \cup Clientes \cup Maquininhas) = {}
    /\ Admin # Publico /\ Nulo # Estranho /\ Nulo # Ausente
    /\ Nulo \notin {"premios", "sena"} \cup [loja : {"premios", "sena"}, nome : Nomes]

VARIABLES
    redeDe, vinculo, alteracao,                                        \* those of Clientes
    redeDaCompra, vinculoDaCompra, compra,                             \* of Origem
    nome, link, imagem, geracao, lista, desvio,                        \* of Links
    redeDaFrota, aprovado, maquina, tarefa, historico, mudou, concorreu   \* of Frota

clientes == <<redeDe, vinculo, alteracao>>
compras == <<redeDaCompra, vinculoDaCompra, compra>>
links == <<nome, link, imagem, geracao, lista, desvio>>
maquinas == <<redeDaFrota, aprovado, maquina, tarefa, historico, mudou, concorreu>>

C == INSTANCE Clientes WITH
         Vendedores <- VendedoresDaLoja, Distribuidores <- Redes, Pedidos <- Alteracoes,
         rede <- redeDe, patch <- alteracao
O == INSTANCE Origem WITH
         Vendedores <- VendedoresDaLoja, Distribuidores <- Redes,
         rede <- redeDaCompra, vinculo <- vinculoDaCompra
K == INSTANCE Links WITH linha <- link, pedido <- geracao
F == INSTANCE Frota WITH Distribuidores <- Redes, rede <- redeDaFrota

RedesInit == Init /\ C!Init /\ O!Init /\ K!Init /\ F!Init
PassoDoCadastro == Next /\ UNCHANGED <<clientes, compras, links, maquinas>>
PassoDoCliente == C!Next /\ UNCHANGED <<vars, compras, links, maquinas>>
PassoDaCompra == O!Next /\ UNCHANGED <<vars, clientes, links, maquinas>>
PassoDoLink == K!Next /\ UNCHANGED <<vars, clientes, compras, maquinas>>
PassoDaFrota == F!Next /\ UNCHANGED <<vars, clientes, compras, links>>
RedesNext == PassoDoCadastro \/ PassoDoCliente \/ PassoDaCompra \/ PassoDoLink \/ PassoDaFrota
RedesSpec == RedesInit /\ [][RedesNext]_<<vars, clientes, compras, links, maquinas>>
-----------------------------------------------------------------------------
\* The link of a customer, however the rows move under a PATCH: one that the CHECK of its table
\* accepts (Clientes!VinculoCoerente), not in another network unless the ADMIN takes it there
\* (NaoVaiParaOutraRede), and with the seller it had when none is named (VendedorNaoSeSolta).
VinculoSobrevive == C!TypeOK /\ C!VinculoCoerente /\ C!NaoVaiParaOutraRede /\ C!VendedorNaoSeSolta

\* The pair of a sale is that of who sold it (Origem!CreditaQuemVendeu) and of its network
\* (RedeDoVendedor), the same in both products (ProdutosConcordam); the customer goes with
\* it (ClienteSegueVenda), and stays when the seller is refused (RecusadoSemRastro).
CreditoTemOrigem ==
    /\ O!TypeOK /\ O!CreditaQuemVendeu /\ O!RedeDoVendedor /\ O!ProdutosConcordam
    /\ O!ClienteSegueVenda /\ O!RecusadoSemRastro

\* The image opens the shop of its product (Links!ImagemAbreALoja) and draws the link of
\* the row (ImagemDesenhaOLink), in whatever order uploads and updates fall.
ImagemConfere == K!TypeOK /\ K!ImagemAbreALoja /\ K!ImagemDesenhaOLink

\* The seller of a machine is of its network (Frota!AparelhoNaRede), and so are the sales of
\* its history (HistoricoDaRede).  No filter widens the list of machines (ListaNaoAlarga).
FrotaEmSerie == F!TypeOK /\ F!AparelhoNaRede /\ F!HistoricoDaRede /\ F!ListaNaoAlarga

\* And the pages of the history of a machine, read between requests, show each of its sales
\* once (Frota!PaginasFecham).
FrotaConfere == FrotaEmSerie /\ (historico # << >> /\ F!EmVoo = {} => F!PaginasFecham)
=============================================================================
