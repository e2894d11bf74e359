------------------------------ MODULE Produtos ------------------------------
(***************************************************************************)
(* The sales of both products side by side: Capital de Prêmios (Vendas)    *)
(* and Capital Sena (VendasSena), whose sales are rows of tables of their  *)
(* own, served by requests of their own; and, beside them, the editions of *)
(* Capital Sena with the judging of their cards (CicloSenaEmSerie).        *)
(*                                                                         *)
(* Neither service looks again, inside its transaction, at what it read    *)
(* before it.  What a sale's status tells exactly it tells only while      *)
(* nobody else is in flight on that product; a request may stop at every   *)
(* step.                                                                   *)
(***************************************************************************)
EXTENDS Vendas

CONSTANTS
    VendasDaSena,         \* sales of the Sena
    PedidosSena,          \* requests that serve them
    QuantidadeSena,       \* the cards of each sale
    ComVendedorSena,      \* sales whose seller earns a commission above zero
    ComDistribuidorSena   \* sales whose distributor earns one above zero

ASSUME SenaAssumption ==
    /\ Nulo \notin VendasDaSena
    /\ QuantidadeSena \in [VendasDaSena -> Nat \ {0}]
    /\ ComVendedorSena \subseteq VendasDaSena
    /\ ComDistribuidorSena \subseteq VendasDaSena

VARIABLES
    statusSena, cartelas, comissaoSena, comissaoDistSena, saldoVendedorSena, saldoDistSena,
    pedidoSena,   \* the variables of VendasSena
    concorreu     \* history: products on which two requests have been in flight together

sena == <<statusSena, cartelas, comissaoSena, comissaoDistSena, saldoVendedorSena,
          saldoDistSena, pedidoSena>>

Sena == INSTANCE VendasSena WITH
            Vendas <- VendasDaSena, Pedidos <- PedidosSena, Quantidade <- QuantidadeSena,
            ComVendedor <- ComVendedorSena, ComDistribuidor <- ComDistribuidorSena,
            status <- statusSena, comissao <- comissaoSena, comissaoDist <- comissaoDistSena,
            saldoVendedor <- saldoVendedorSena, saldoDist <- saldoDistSena, pedido <- pedidoSena

\* Two of the actors are in flight.
Sobrepostos(atores, emVoo) ==
    \E p, q \in atores : p # q /\ emVoo[p].passo # "ocioso" /\ emVoo[q].passo # "ocioso"

ProdutosInit == Init /\ Sena!Init /\ concorreu = {}

PassoDePremios ==
    /\ Next
    /\ concorreu' = concorreu \cup {x \in {"premios"} : Sobrepostos(Atores, pedido')}
    /\ UNCHANGED sena
PassoDaSena ==
    /\ Sena!Next
    /\ concorreu' = concorreu \cup {x \in {"sena"} : Sobrepostos(PedidosSena, pedidoSena')}
    /\ UNCHANGED vars

ProdutosNext == PassoDePremios \/ PassoDaSena
ProdutosSpec == ProdutosInit /\ [][ProdutosNext]_<<vars, sena, concorreu>>
-----------------------------------------------------------------------------
\* The sales of the Sena, whatever overlaps on them: the wallets hold the commissions that
\* exist, a sale that waits has no card and an approved one has all of its own, and one that
\* pays its distributor materialises once (VendasSena).
SenaConfere ==
    Sena!TypeOK /\ Sena!SaldosDaSena /\ Sena!CartelasDaSena /\ Sena!DistribuidorDaSenaUmaVez

\* While the requests of a product come one at a time, failing wherever they may, the status
\* of each of its sales tells its tickets or cards and its seller's commission exactly.
VendaCoerenteEmSerie ==
    /\ "premios" \notin concorreu => VendaCoerente
    /\ "sena" \notin concorreu => Sena!VendaCoerente

-----------------------------------------------------------------------------
(* Editions, results and bands are rows that no sale writes, so each step is one of the    *)
(* three; what a judging needs of the sales, their status and their cards, CicloSena has.  *)
CONSTANTS
    EdicoesSena, VendasApuradas, EdicaoDaVendaSena, CartelasSena, VendaDaCartela,
    NumerosDaCartela, ExtraDaCartela, Resultados, PedidosAdmin, AtendimentosSena,
    JobsDoCiclo   \* the constants of CicloSena

ASSUME ApuracaoAssumption ==
    /\ Nulo \notin EdicoesSena \cup Resultados \cup VendasApuradas
    /\ EdicaoDaVendaSena \in [VendasApuradas -> EdicoesSena]
    /\ VendaDaCartela \in [CartelasSena -> VendasApuradas]
    /\ \A c \in CartelasSena :
          Cardinality(NumerosDaCartela[c]) = 6 /\ ExtraDaCartela[c] \notin NumerosDaCartela[c]
    /\ \A r \in Resultados : Cardinality(r.sorteados) = 6 /\ r.bola \notin r.sorteados

VARIABLES
    edicaoSena, tempo, resultado, apurado, cartela, admin, ciclo,
    vendaApurada, atendimentoSena, disputadas,                      \* the variables of CicloSena
    apurouJunto, interrompida                                       \* its histories

apuracao == <<edicaoSena, tempo, resultado, apurado, cartela, admin, ciclo,
              vendaApurada, atendimentoSena, disputadas, apurouJunto, interrompida>>

Ed == INSTANCE CicloSenaEmSerie WITH
          Edicoes <- EdicoesSena, Vendas <- VendasApuradas, EdicaoDaVenda <- EdicaoDaVendaSena,
          Cartelas <- CartelasSena, VendaDe <- VendaDaCartela, Atendimentos <- AtendimentosSena,
          venda <- vendaApurada, atendimento <- atendimentoSena,
          Numeros <- NumerosDaCartela, Extra <- ExtraDaCartela, Pedidos <- PedidosAdmin,
          Jobs <- JobsDoCiclo, status <- edicaoSena, pedido <- admin, concorreu <- apurouJunto

PlataformaInit == ProdutosInit /\ Ed!SerieInit
PassoDeVendas == ProdutosNext /\ UNCHANGED apuracao
PassoDaApuracao == Ed!SerieNext /\ UNCHANGED <<vars, sena, concorreu>>
PlataformaNext == PassoDeVendas \/ PassoDaApuracao
PlataformaSpec == PlataformaInit /\ [][PlataformaNext]_<<vars, sena, concorreu, apuracao>>
-----------------------------------------------------------------------------
\* The judging of the Sena: an edition is judged, and a card has a band, only with the result
\* there; an edition that was removed had neither sales nor result.  One request at a time,
\* the bands of a finished edition are those of its result, of the correction when there was
\* one - unless a judging stopped midway (CicloSenaEmSerie).
ApuracaoConfere == Ed!ApuracaoConfere

\* A cancelled sale has no card and is not approved again, whatever overlaps, unless it was
\* being confirmed while it was cancelled; with one request or run of the job at a time,
\* failing wherever it may, the edition of the Sena walks on the edges of its life
\* (CicloSenaEmSerie).
CicloDaSenaSegue == Ed!CicloDaSenaSegue
=============================================================================
