----------------------------- MODULE MCReservas -----------------------------
(***************************************************************************)
(* What a sale holds while it is made, in two scenes: the numbers reserved *)
(* in Redis (Reservas), and the rows locked in PostgreSQL (TravasDeLinha). *)
(* What a scene does not play stays as it began.                           *)
(***************************************************************************)
EXTENDS Reservas, TLC

CONSTANTS p1, p2, o1, c1, v1, v2,
          m1, f1, s1, t3  \* three sales and a third request, for the rows

VARIABLE cena

\* A MANUAL sale of the machine and a charge of Prêmios, which compete for a number, and a
\* charge of the Sena.
MCEscolhaTx == (m1 :> <<1>>) @@ (f1 :> <<1>>) @@ (s1 :> <<>>)

\* Bounds: the shop sells once, while the edition is open, and reserves number 2 only; two
\* requests do not ask for both numbers at once; a closed edition has at most one sale.
Poucos ==
    /\ Cardinality({v \in Vendas : venda[v].dono = Loja}) <= (IF ativa THEN 1 ELSE 0)
    /\ \A p, r \in Pedidos : p # r => Cardinality(pedido[p].nums) + Cardinality(pedido[r].nums) <= 3
    /\ reserva[Curta(1)] # Loja
    /\ IF ativa THEN TRUE ELSE \E v \in Vendas : venda[v].status = "nenhuma"

\* Once a promise is void nothing more is asked of the run.
MCInit == cena \in {"reservas", "travas"} /\ PosseInit
MCNext ==
    /\ cena' = cena
    /\ \/ cena = "reservas" /\ ~furou /\ Next /\ Poucos' /\ UNCHANGED travas
       \/ cena = "travas" /\ Tr!Next /\ UNCHANGED vars
MCSpec == MCInit /\ [][MCNext]_<<vars, travas, cena>>

Simetria == Permutations(Pedidos) \cup Permutations(Vendas)
=============================================================================
