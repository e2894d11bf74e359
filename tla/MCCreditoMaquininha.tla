------------------------ MODULE MCCreditoMaquininha ------------------------
(***************************************************************************)
(* The card machine in two scenes: its credit (CreditoMaquininha), and its *)
(* sales of Prêmios with the job that reconciles the paid ones (Vendas).   *)
(* What a scene does not play stays as it began.                           *)
(***************************************************************************)
EXTENDS CreditoMaquininha, TLC

CONSTANTS v1, v2, p1, j1

VARIABLES cena, status, comGatewayId, cobranca, vencida, bilhetes, comissao, comissaoDist,
          saldoVendedor, saldoDist, lote, caixa

\* Two sales compete for four numbers; the request of the machine and the job.
V == INSTANCE Vendas WITH
         Numeros <- 1 .. 4, Pedidos <- {p1}, Jobs <- {j1}, VendasPos <- Vendas,
         Quantidade <- (v1 :> 2 @@ v2 :> 2), Escolha <- (v1 :> {} @@ v2 :> {2, 3}),
         ComVendedor <- {v1}, ComDistribuidor <- {v1}, pedido <- caixa
vendas == <<status, comGatewayId, cobranca, vencida, bilhetes, comissao, comissaoDist,
            saldoVendedor, saldoDist, lote, caixa>>

MCInit == cena \in {"credito", "vendas"} /\ Init /\ V!Init
MCNext ==
    /\ cena' = cena
    /\ \/ cena = "credito" /\ Next /\ UNCHANGED vendas
       \/ cena = "vendas" /\ V!Next /\ UNCHANGED vars

\* The requests of the credit are fair, and so is the job (Vendas!Justica).
MCFairSpec ==
    /\ MCInit /\ [][MCNext]_<<vars, vendas, cena>>
    /\ Justica
    /\ WF_vendas(cena = "vendas" /\ (V!Reconciliar(j1) \/ V!Processar(j1)))

\* A paid POS sale is settled by the job (Vendas!PagaEResolvida).
PagaEResolvida == V!PagaEResolvida
=============================================================================
