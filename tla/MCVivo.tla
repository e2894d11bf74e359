------------------------------- MODULE MCVivo -------------------------------
(***************************************************************************)
(* What must go on by itself, in four scenes: the cycle of the Sena's      *)
(* editions (CicloSena) and the closing of expired editions of Prêmios     *)
(* (Sorteio), each with two editions, the ADMIN and the job that follows   *)
(* the clock; the Hall of Fame with its cache (HallDaFama); and the job    *)
(* that settles paid sales in batches (Reconciliacao).  What a scene does  *)
(* not play stays as it began.                                             *)
(***************************************************************************)
EXTENDS CicloSenaEmSerie, TLC

CONSTANTS p1, e1, e2, r1, r2

\* No card: MCVendas has the judging.
SemCartela == << >>

VARIABLES cena, edPremios, vencida, premio, ganhador, resPremio, bilhete, premiado, admin, job,
          juntos   \* the history of Prêmios

P == INSTANCE SorteioEmSerie WITH
         Premios <- {r1, r2}, EdicaoDo <- (r1 :> e1 @@ r2 :> e2), Bilhetes <- {}, Bolas <- << >>,
         Globo <- {}, Pedidos <- {p1}, status <- edPremios, resultado <- resPremio, pedido <- admin,
         concorreu <- juntos
premios == <<edPremios, vencida, premio, ganhador, resPremio, bilhete, premiado, admin, job>>

VARIABLES edHall, vivos, donoHall, premioHall, cache, leitura, cruzou, empatados
H == INSTANCE HallDaFama WITH
         Edicoes <- {1, 2}, Bilhetes <- {1, 2, 3}, Premios <- {1, 2}, EdicaoDe <- <<1, 2, 2>>,
         EdicaoDo <- <<1, 2>>, Leitores <- {p1}, LimiteEdicoes <- 1, LimiteLinhas <- 1,
         status <- edHall, ganhador <- donoHall, premio <- premioHall
ASSUME HallServe == H!HallAssumption
hall == <<edHall, vivos, donoHall, premioHall, cache, leitura, cruzou, empatados>>

VARIABLES vendaPos, velha, trava, agente, cancelamento, trocada, cruzada
R == INSTANCE Reconciliacao WITH
         Vendas <- {1, 2}, venda <- vendaPos, Paineis <- {p1}, Limite <- 1, cruzou <- cruzada
reconciliacao == <<vendaPos, velha, trava, agente, cancelamento, trocada, cruzada>>
\* Bound: the panel looks, or the ADMIN cancels, while there is one sale.
Sozinha ==
    IF vendaPos[2].status = "nenhuma" THEN agente[p1].passo = "ocioso" \/ cancelamento = Nulo
    ELSE agente[p1].passo = "ocioso" /\ cancelamento = Nulo

jogo == <<vars, premios>>
passos == <<semVendas, premios>>
historias == <<historia, juntos>>

MCInit ==
    /\ cena \in {"ciclo", "premios", "hall", "reconciliacao"}
    /\ SerieInit /\ P!SerieInit /\ H!Init /\ R!Init

MCNext ==
    /\ cena' = cena
    /\ \/ cena = "ciclo" /\ SerieNext /\ UNCHANGED <<premios, juntos, hall, reconciliacao>>
       \/ cena = "premios" /\ P!SerieNext /\ UNCHANGED <<vars, historia, hall, reconciliacao>>
       \/ cena = "hall" /\ H!Next /\ UNCHANGED <<jogo, historias, reconciliacao>>
       \/ cena = "reconciliacao" /\ R!Next /\ Sozinha' /\ UNCHANGED <<jogo, historias, hall>>
todas == <<jogo, historias, hall, reconciliacao, cena>>

\* The Justica of each module, in its scene: a behaviour plays one, so that one formula may hold
\* a step of each job.
MCFairSpec ==
    /\ MCInit /\ [][MCNext]_todas
    /\ \A j \in Jobs :
        /\ SF_passos(\/ cena = "ciclo" /\ ListarExpiradas(j) /\ UNCHANGED premios
                     \/ cena = "premios" /\ P!ListarVencidas(j) /\ UNCHANGED semVendas)
        /\ SF_passos(\/ cena = "ciclo" /\ EncerrarExpiradas(j) /\ UNCHANGED premios
                     \/ cena = "premios" /\ P!EncerrarVencidas(j) /\ UNCHANGED semVendas)
        /\ SF_semVendas(cena = "ciclo" /\ ProcurarAtiva(j))
        /\ SF_semVendas(cena = "ciclo" /\ EscolherRascunho(j))
        /\ SF_semVendas(cena = "ciclo" /\ AtivarRascunho(j))
        /\ <>[][~P!FalharJob(j)]_premios
    /\ WF_premios(/\ cena = "premios" /\ admin[p1].passo = "premios"
                  /\ (P!GravarPremios(p1) \/ P!Falhar(p1)))
    /\ WF_hall(cena = "hall" /\ H!Expirar)
    /\ \A j \in Jobs :
        /\ SF_reconciliacao(cena = "reconciliacao" /\ R!MontarLote(j))
        /\ WF_reconciliacao(cena = "reconciliacao" /\ R!Andar(j))
    /\ \A v \in {1, 2} : WF_reconciliacao(cena = "reconciliacao" /\ R!Esfriar(v))
    /\ WF_reconciliacao(cena = "reconciliacao" /\ R!ExpirarTrava)
    /\ <>[][\A a \in R!Agentes : ~R!Errar(a) /\ ~R!Cair(a)]_reconciliacao

\* "Nunca existem duas edicoes em operacao ao mesmo tempo" (README.md:170), in series.
UmaEmOperacaoEmSerie == P!UmaEmOperacaoEmSerie

\* The jobs close the expired editions of both products, and the one of the Sena opens the
\* next draft (CicloSena!ExpiradaEncerra, RascunhoNaoEspera, Sorteio!ExpiradaEncerra).
JobsAndam == ExpiradaEncerra /\ RascunhoNaoEspera /\ P!ExpiradaEncerra

\* A list of winners that nothing crossed is the one of the database (HallDaFama!HallCompleto),
\* the state of the draw shows the same winners (EstadoEHallConcordam), and the list in
\* Redis ends up being right (HallAtualiza).
HallSegueOBanco ==
    [](H!TypeOK /\ H!HallCompleto /\ H!EstadoEHallConcordam) /\ H!HallAtualiza

\* A paid sale with no batch of newer ones before it is settled, although runs skip, cool down,
\* fail and stop (Reconciliacao!PagaDaFrenteEResolvida).
PagaDaFrenteEResolvida == R!PagaDaFrenteEResolvida
=============================================================================
