------------------------------ MODULE MCVendas ------------------------------
(***************************************************************************)
(* Small instances of the sales of both products (Vendas, VendasSena) and  *)
(* of the judging of the Sena's cards (CicloSena), one scene each.  The    *)
(* variables of what a scene does not play stay as they began.             *)
(***************************************************************************)
EXTENDS Produtos, TLC

CONSTANTS v1, v2,     \* two sales
          e1, c1, j1  \* an edition of the Sena, a card, and the job of its cycle

\* v1 wants any two of four numbers, v2 has picked 2 and 3: they collide, and
\* there is room for both if v2 comes first.
MCQuantidade == (v1 :> 2) @@ (v2 :> 2)
MCEscolha == (v1 :> {}) @@ (v2 :> {2, 3})

\* Sena: a sale of two cards that pays seller and distributor, and one of one card that pays
\* its distributor.
MCQuantidadeSena == (v1 :> 2) @@ (v2 :> 1)

\* The judging: a card that hits six of a result and, corrected, five.
MCEdicao == (v1 :> e1)
MCVenda == (c1 :> v1)
MCNumeros == (c1 :> 1 .. 6)
MCExtra == (c1 :> 7)
MCResultados == {[sorteados |-> 1 .. 6, bola |-> 7], [sorteados |-> 2 .. 7, bola |-> Nulo]}

Simetria == Permutations(Pedidos)

VARIABLE cena

\* The bound of the judging: two of its five actors (two requests of the ADMIN, two at the
\* counter, the job) are in flight at once, three if a judging crosses two at the counter.
EmVoo ==
    Cardinality({p \in PedidosAdmin : admin[p].passo # "ocioso"})
    + Cardinality({a \in AtendimentosSena : atendimentoSena[a].passo # "ocioso"})
    + Cardinality({j \in JobsDoCiclo : ciclo[j].passo # "ocioso"})
Julgando == \E p \in PedidosAdmin : admin[p].passo \in {"listar", "julgar"}
AoBalcao == \A a \in AtendimentosSena : atendimentoSena[a].passo # "ocioso"
Cabem == EmVoo <= 2 \/ (EmVoo = 3 /\ AoBalcao /\ Julgando)

MCInit == cena \in {"premios", "sena", "apuracao"} /\ PlataformaInit
MCNext ==
    /\ cena' = cena
    /\ \/ cena = "premios" /\ PassoDePremios /\ UNCHANGED apuracao
       \/ cena = "sena" /\ PassoDaSena /\ UNCHANGED apuracao
       \/ cena = "apuracao" /\ PassoDaApuracao /\ Cabem'
MCSpec == MCInit /\ [][MCNext]_<<vars, sena, concorreu, apuracao, cena>>
=============================================================================
