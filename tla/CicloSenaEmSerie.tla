-------------------------- MODULE CicloSenaEmSerie --------------------------
(***************************************************************************)
(* What the life of a Sena edition promises while one thing is done at a   *)
(* time.  No handler of EdicoesSenaService, SorteioSenaService or          *)
(* ApuracaoSenaService looks again at what it read, and a judging that     *)
(* stops midway is taken up by another that lists what is left.  Sales,    *)
(* payments, cancellations and the clock go on all the while, and a        *)
(* request or a run of the job may fail at every step.                     *)
(***************************************************************************)
EXTENDS CicloSena

VARIABLES
    concorreu,     \* history: have a request and the job, or two of one, been in flight together?
    interrompida   \* history: has a judging stopped before its end?

NoAr(p) == pedido[p].passo # "ocioso"
Rodando(j) == ciclo[j].passo # "ocioso"

Sobrepostos ==
    \/ \E p, q \in Pedidos : p # q /\ NoAr(p) /\ NoAr(q)
    \/ \E p \in Pedidos, j \in Jobs : NoAr(p) /\ Rodando(j)
    \/ \E i, j \in Jobs : i # j /\ Rodando(i) /\ Rodando(j)

\* A request leaves the judging and the edition is as it was.
Interrompe(p) == pedido[p].passo = "julgar" /\ pedido'[p].passo = "ocioso" /\ UNCHANGED status

historia == <<concorreu, interrompida>>

SerieInit == Init /\ concorreu = FALSE /\ interrompida = FALSE
SerieNext ==
    /\ Next
    /\ concorreu' = (concorreu \/ Sobrepostos')
    /\ interrompida' = (interrompida \/ \E p \in Pedidos : Interrompe(p))
SerieSpec == SerieInit /\ [][SerieNext]_<<vars, historia>>
-----------------------------------------------------------------------------
\* The edges of an edition's life are kept while requests and runs of the job come one at a
\* time, failing wherever they may.
AndaEmSerie == [][~concorreu' => \A e \in Edicoes : CicloPermitido(e)]_<<vars, historia>>

\* Then "só pode haver uma edição ATIVA no sistema por vez" (docs/CAPITAL_SENA.md:112) holds,
\* between the ADMIN and the job too.
CicloEmSerie == [](TypeOK /\ (~concorreu => UmaSoAtiva)) /\ AndaEmSerie

\* An edition is judged, and a card has a band, only with the result there; an edition that
\* was removed had neither sales nor result.  One request at a time, the bands of a finished
\* edition are those of its result, of the correction when there was one - unless a judging
\* stopped midway: the cards it had judged are not listed again, and keep their old bands.
ApuracaoConfere ==
    /\ TypeOK /\ ResultadoAntesDeApurar /\ RemovidaSemRastro
    /\ ~concorreu /\ ~interrompida => FaixasCorretas

\* A cancelled sale has no card and is not approved again, whatever overlaps, unless it was
\* being confirmed while it was cancelled; one request at a time, the edition walks on the
\* edges of its life.
CicloDaSenaSegue == [](TypeOK /\ CanceladaSemCartela) /\ CanceladaNaoVolta /\ AndaEmSerie
=============================================================================
