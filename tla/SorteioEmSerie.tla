---------------------------- MODULE SorteioEmSerie ----------------------------
(***************************************************************************)
(* What the draw promises while one thing is done at a time.  No statement *)
(* of SorteioService looks at what it read before, so a winner is given    *)
(* fairly only as long as no other request, and no run of the closing job, *)
(* is in flight with the marking.  Sales, cancellations and the clock go   *)
(* on all the while, and a request or a run may fail at every step.        *)
(***************************************************************************)
EXTENDS Sorteio

\* History: have a request and the job, or two requests, ever been in flight
\* together?
VARIABLE concorreu

NoAr(p) == pedido[p].passo # "ocioso"
Rodando(j) == job[j].passo # "ocioso"

Sobrepostos ==
    \/ \E p, q \in Pedidos : p # q /\ NoAr(p) /\ NoAr(q)
    \/ \E p \in Pedidos, j \in Jobs : NoAr(p) /\ Rodando(j)
    \/ \E i, j \in Jobs : i # j /\ Rodando(i) /\ Rodando(j)

SerieInit == Init /\ concorreu = FALSE
SerieNext == Next /\ concorreu' = (concorreu \/ Sobrepostos')
SerieSpec == SerieInit /\ [][SerieNext]_<<vars, concorreu>>
-----------------------------------------------------------------------------
\* While requests and runs of the job come one at a time, failing wherever they
\* may, every prize and its ticket name each other...
GanhadorUnicoEmSerie == ~concorreu => GanhadorUnico

\* ...every winner is a winner by the balls marked and of one prize only, and an
\* edition walks from its draft to its draw on the edges of its life.
PremiacaoJustaEmSerie ==
    [][~concorreu' => /\ \A r \in Premios : PremiacaoJusta(r)
                      /\ \A e \in Edicoes : CicloPermitido(e)]_<<vars, concorreu>>

\* Of the editions, one at most is on sale or being drawn.
UmaEmOperacaoEmSerie == ~concorreu => UmaEmOperacao
=============================================================================
